SPECIFICATION FairSpec
CONSTANTS
  w1 = w1
  here = here
  there = there
  NoJob = NoJob
  NoWorker = NoWorker
  NoScope = NoScope
  NoLeg = NoLeg
  Workers = {w1}
  Scopes = {here, there}
  Legs = {0, 1}
  Onward <- AfterTriage
  FaultKinds = {"crash", "raise", "lease"}
  MaxFaults = 1
CHECK_DEADLOCK FALSE
INVARIANTS
  DeployedAsAcceptedOnce
  StrandedOnlyByReplay
PROPERTIES
  AppliesInExecute
  ImplementsPhaseMachine
  DeployEnds
