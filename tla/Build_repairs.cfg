SPECIFICATION Spec
CONSTANTS
  w1 = w1
  w2 = w2
  base = base
  top = top
  NoJob = NoJob
  NoWorker = NoWorker
  Items = {base, top}
  Order <- TwoItems
  Needs <- TopNeedsBase
  Workers = {w1, w2}
  MaxRounds = 1
  GrantedRounds = 0
  MaxWinds = 1
  MaxFindings = 2
  GivesUp = {"implement"}
  MaxFaults = 0
SYMMETRY WorkerSymmetry
CONSTRAINT FirstItemOnly
CHECK_DEADLOCK FALSE
INVARIANTS
  OpenFindingHasRepair
  ReviewIsQuiet
