SPECIFICATION FairSpec
CONSTANTS
  w1 = w1
  w2 = w2
  base = base
  top = top
  NoJob = NoJob
  NoWorker = NoWorker
  Items = {base}
  Order <- OneItem
  Needs <- Independent
  Workers = {w1}
  MaxRounds = 1
  GrantedRounds = 0
  MaxWinds = 0
  MaxFindings = 2
  GivesUp = {}
  MaxFaults = 2
CHECK_DEADLOCK FALSE
INVARIANTS
  ReviewGetsItsDemo
PROPERTIES
  BuildEnds
