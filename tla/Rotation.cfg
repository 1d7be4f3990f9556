SPECIFICATION Spec
CONSTANTS
  w1 = w1
  w2 = w2
  first = first
  second = second
  NoEngine = NoEngine
  Workers = {w1, w2}
  Engines = {first, second}
  Base <- BaseWeights
  Order <- Ordered
  Verified = {second}
  MaxAttempt = 3
  MaxWait = 2
  MaxLost = 1
  MaxFaults = 1
SYMMETRY WorkerSymmetry
CONSTRAINT NoOverlapYet
INVARIANTS
  Balanced
  NoStarvation
  EscalationRotates
  RejectionStands
