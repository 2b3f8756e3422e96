SPECIFICATION Spec
CONSTANTS
  Dest <- OneFile
  TapeDest <- None
  NSources = 2
  MultiHop = FALSE
  GroupBulk = 1
  ArchiveTimeout = TRUE
  OverwriteCorrupted = TRUE
  Deterministic = FALSE
  MaxAttempt = 2
  MaxJob = 4
  NoId = NoId
INVARIANTS
  VerdictMatchesJob
PROPERTIES
  RequestSpec
CHECK_DEADLOCK FALSE
