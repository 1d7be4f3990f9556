SPECIFICATION Spec
CONSTANTS
  w1 = w1
  w2 = w2
  base = base
  top = top
  NoJob = NoJob
  NoWorker = NoWorker
  Items = {base}
  Order <- OneItem
  Needs <- Independent
  Workers = {w1, w2}
  MaxRounds = 1
  GrantedRounds = 0
  MaxWinds = 0
  MaxFindings = 2
  GivesUp = {"verify"}
  MaxFaults = 1
SYMMETRY WorkerSymmetry
CHECK_DEADLOCK FALSE
INVARIANTS
  MergeExclusive
  IntegrateRoundsBounded
  ReviewIsEarned
