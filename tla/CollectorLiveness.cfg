SPECIFICATION FairSpec
CONSTANTS
  two = two
  one = one
  broken = broken
  other = other
  None = None
  Paths = {one, broken, other}
  Supported = {one, broken, other}
  MaxDetected = 2
  Workers = {w1, w2}
  NumSegs <- MCNumSegs
  Ending <- MCEnding
  Name <- MCName
  SameName = TRUE
  SkipConversion = TRUE
  MaxFaults = 1
  MaxDeaths = 0
INVARIANT SentUnderTheirName
PROPERTIES
  InterruptEndsCollector
  TasksFinish
  DetectedFilesAreHanded
CHECK_DEADLOCK FALSE
