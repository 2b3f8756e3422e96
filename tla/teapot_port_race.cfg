SPECIFICATION Spec
CONSTANTS
  u1 = u1
  u2 = u2
  MaxRequest = 2
  User = {u1, u2}
  Unmapped = {}
  MaxPid = 2
  STARTING_PORT = 3
  STARTUP_TIMEOUT = 1
  Faults = {}
  NoSession = NoSession
  NoFile = NoFile
  Truncated = Truncated
  Nobody = Nobody
INVARIANT OwnInstanceAnswers
CHECK_DEADLOCK FALSE
