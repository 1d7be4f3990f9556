SPECIFICATION FairSpec
CONSTANTS
  Batches <- ThreeStages
  Questions <- AllQuestions
  Blocking <- Musts
  Followups <- SpecJobs
  MaxFaults = 2
CHECK_DEADLOCK FALSE
INVARIANTS
  NoBlockerLeftBehind
  AssumedWasPassedOver
  StagesInOrder
PROPERTIES
  InterviewEnds
