SPECIFICATION Spec
CONSTANTS
  u1 = u1
  u2 = u2
  MaxRequest = 2
  User = {u1}
  Unmapped = {}
  MaxPid = 1
  STARTING_PORT = 3
  STARTUP_TIMEOUT = 1
  Faults = {}
  NoSession = NoSession
  NoFile = NoFile
  Truncated = Truncated
  Nobody = Nobody
PROPERTY ReaperSparesActive
CHECK_DEADLOCK FALSE
