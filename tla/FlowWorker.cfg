SPECIFICATION FairSpec
CONSTANTS
  f1 = f1
  f2 = f2
  h1 = h1
  h2 = h2
  None = None
  Files = {f1, f2}
  Hour <- MCHour
  Workers = {w1}
  HostOf <- MCHostOf
  SameHost = TRUE
  StageIds = {s1, s2, s3}
  ResetSmallest = FALSE
  MaxFaults = 2
  MaxCrashes = 1
  MaxMessages = 2
INVARIANTS
  TypeOK
  RowsInTheirPartition
  LoadedOncePerDelivery
PROPERTY EveryMessagePolled
CHECK_DEADLOCK FALSE
