SPECIFICATION FairSpec
CONSTANTS
  w1 = w1
  w2 = w2
  run = run
  ask = ask
  NoJob = NoJob
  NoOwner = NoOwner
  NoWorker = NoWorker
  Jobs = {run, ask}
  Workers = {w1, w2}
  Owners = {"a", "b"}
  OwnerOf <- DistinctOwners
  Deps <- AskThenRun
  Askers = {ask}
  MaxAttempts = 2
  MaxGates = 1
  MaxFaults = 1
INVARIANTS
  DependenciesFirst
  AttemptAccounting
  RetriesBounded
  ParkedHasGate
PROPERTIES
  ImplementsTaskLease
  LeaseReturned
