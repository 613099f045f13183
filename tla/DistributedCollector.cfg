SPECIFICATION Spec
CONSTANTS
  two = two
  one = one
  broken = broken
  other = other
  None = None
  Paths = {two, one, broken, other}
  Supported = {two, one, broken}
  MaxDetected = 2
  Workers = {w1, w2}
  NumSegs <- MCNumSegs
  Ending <- MCEnding
  Name <- MCName
  SameName = FALSE
  SkipConversion = FALSE
  MaxFaults = 2
  MaxDeaths = 1
INVARIANTS
  TypeOK
  SegmentsAccounted
  FilesConserved
  QuietWhenStopped
SYMMETRY Symmetry
CHECK_DEADLOCK FALSE
