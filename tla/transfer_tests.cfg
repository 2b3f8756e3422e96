SPECIFICATION FairSpec
CONSTANTS
  f1 = f1
  f2 = f2
  File = {f1, f2}
  MaxRetry = 3
INVARIANTS TypeOK PassMeansStored PassMeansFailed PassMeansNotSent DownNeverOk
PROPERTIES SourceRestored StoredPasses EndsByItself
CHECK_DEADLOCK FALSE
