SPECIFICATION Spec
CONSTANTS
  c1 = c1
  c2 = c2
  c3 = c3
  host = host
  peer1 = peer1
  peer2 = peer2
  None = None
  Conns = {c1, c2, c3}
  Src <- MCSrc
  Dst <- MCDst
  Alike <- MCAlike
  DetailsLimit = None
  Tables <- FlowTables
  Results <- MCResults
  Criteria <- MCCriteria
  Scores = {"3"}
  CommentIps = {host, peer1}
  Texts = {t1}
  Limit = 2
  MaxFaults = 1
  MaxUndeleted = 1
  MaxStarts = 4
CONSTRAINT Bounded
INVARIANTS
  HeaderOnlyFirst
  ScoresOfOneRun
  OneCommentPerIp
  AckedCommentsKept
  ShownHaveDetails
PROPERTY FeedbackOnlyGrows
CHECK_DEADLOCK FALSE
