SPECIFICATION FairSpec
CONSTANTS
  Dest <- ThreeFiles
  TapeDest <- None
  NSources = 1
  MultiHop = TRUE
  GroupBulk = 2
  ArchiveTimeout = TRUE
  OverwriteCorrupted = TRUE
  Deterministic = TRUE
  MaxAttempt = 2
  MaxJob = 0
  NoId = NoId
PROPERTIES
  Settles
  Ends
CHECK_DEADLOCK FALSE
