SPECIFICATION FairSpec
CONSTANTS
  current = current
  a = a
  b = b
  undated = undated
  None = None
  Paths = {current, a, b, undated}
  Supported = {a, b, undated}
  Dated = {a, b}
  MaxCreated = 3
  MaxProcesses = 2
  MaxFaults = 1
  MaxRuns = 2
INVARIANTS
  TypeOK
  ContentKept
  HDFSAndTopicAgree
PROPERTIES
  AnnouncesInOrder
  DetectedFilesAreSent
CHECK_DEADLOCK FALSE
