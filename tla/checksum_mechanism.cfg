SPECIFICATION Spec
CONSTANTS
  f1 = f1
  f2 = f2
  File = {f1}
  MaxRetry = 1
INVARIANT PassMeansRefused
CHECK_DEADLOCK FALSE
