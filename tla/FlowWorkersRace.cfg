SPECIFICATION Spec
CONSTANTS
  f1 = f1
  f2 = f2
  h1 = h1
  h2 = h2
  None = None
  Files = {f1, f2}
  Hour <- MCHour
  Workers = {w1, w2}
  HostOf <- MCHostOf
  SameHost = FALSE
  StageIds = {s1, s2}
  ResetSmallest = TRUE
  MaxFaults = 0
  MaxCrashes = 0
  MaxMessages = 2
INVARIANT SuccessMeansLoaded
CHECK_DEADLOCK FALSE
