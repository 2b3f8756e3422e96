SPECIFICATION Spec
CONSTANTS
  Dest <- TwoFiles
  TapeDest <- TwoFiles
  NSources = 1
  MultiHop = FALSE
  GroupBulk = 2
  ArchiveTimeout = TRUE
  OverwriteCorrupted = TRUE
  Deterministic = FALSE
  MaxAttempt = 2
  MaxJob = 2
  NoId = NoId
INVARIANTS
  TypeOK
  VerdictMatchesJob
  OverwriteWasCorrupted
PROPERTIES
  RequestSpec
CHECK_DEADLOCK FALSE
