SPECIFICATION Spec
CONSTANTS
  u1 = u1
  u2 = u2
  u3 = u3
  MaxRequest = 2
  User = {u1, u2, u3}
  Unmapped = {u3}
  MaxPid = 2
  STARTING_PORT = 3
  STARTUP_TIMEOUT = 1
  Faults <- AllFaults
  NoSession = NoSession
  NoFile = NoFile
  Truncated = Truncated
  Nobody = Nobody
SYMMETRY Symmetry
INVARIANTS Inv SoleStarter InstanceRecorded StoreMatchesMemory OwnProcess
PROPERTY LifecycleSpec
CHECK_DEADLOCK FALSE
