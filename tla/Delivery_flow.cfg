SPECIFICATION FairSpec
CONSTANTS
  w1 = w1
  NoJob = NoJob
  NoWorker = NoWorker
  Workers = {w1}
  Automated = {"dead_code"}
  Vague = {"user"}
  Replies = {"accept", "changes", "question", "cancel"}
  MaxCycle = 2
  FaultKinds = {"crash", "raise", "lease", "command"}
  MaxFaults = 1
CHECK_DEADLOCK FALSE
INVARIANTS
  WorkHasSpec
  DoneIsClean
  StrandedOnlyByFault
PROPERTIES
  LoopBackAdvances
  ImplementsPhaseMachine
  DeliveryEnds
