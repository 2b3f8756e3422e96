SPECIFICATION FairSpec
CONSTANTS
  u1 = u1
  u2 = u2
  MaxRequest = 3
  User = {u1}
  Unmapped = {}
  MaxPid = 3
  STARTING_PORT = 3
  STARTUP_TIMEOUT = 1
  Faults <- BenignFaults
  NoSession = NoSession
  NoFile = NoFile
  Truncated = Truncated
  Nobody = Nobody
PROPERTIES StartEnds StopEnds RequestEnds IdleInstanceStopped
CHECK_DEADLOCK FALSE
