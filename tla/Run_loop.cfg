SPECIFICATION FairSpec
CONSTANTS
  MaxTurns = 2
  MaxWait = 2
  MaxCommands = 3
  MaxFaults = 1
CHECK_DEADLOCK FALSE
INVARIANTS
  OneDriver
  MarkerIsComplete
  WindDownHonoured
  LastCommandInForce
PROPERTIES
  StopIsHeard
