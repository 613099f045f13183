SPECIFICATION Spec
CONSTANTS
  Files <- MCFiles
  MaxReqSize = 4
  MaxLines = 5
  Kinds = {"skip", "short", "bad", "epoch", "ok"}
INVARIANTS
  TypeOK
  NothingLost
  InOrder
  SegmentsOfOneHour
  SegmentsFillRequests
CHECK_DEADLOCK FALSE
