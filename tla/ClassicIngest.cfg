SPECIFICATION IngestSpec
CONSTANTS
  current = current
  a = a
  b = b
  None = None
  Paths = {current, a, b}
  Supported = {a, b}
  Dated = {a, b}
  MaxCreated = 3
  MaxProcesses = 1
  MaxFaults = 0
  MaxRuns = 1
  Workers = {w1}
  StageIds = {s1, s2, s3}
PROPERTIES
  WorkersAsAlone
  EveryFileLoaded
CHECK_DEADLOCK FALSE
