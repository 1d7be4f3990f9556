SPECIFICATION Spec
CONSTANTS
  w1 = w1
  w2 = w2
  t1 = t1
  t2 = t2
  NoJob = NoJob
  Tasks = {t1, t2}
  Workers = {w1, w2}
  MaxAttempts = 7
  MaxDollars = 2
  Before = 1
  SessionCost = 1
  Projected = 1
  MoreAttempts = 7
  MoreDollars = 4
  MaxFaults = 1
SYMMETRY Symmetry
CONSTRAINT OneLongTask
CHECK_DEADLOCK FALSE
INVARIANTS
  SpendBounded
  WasteBounded
PROPERTIES
  EffortNeverDrops
