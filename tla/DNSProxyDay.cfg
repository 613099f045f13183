SPECIFICATION Spec
CONSTANTS
  c1 = c1
  c2 = c2
  c3 = c3
  client = client
  name1 = name1
  name2 = name2
  uri1 = uri1
  uri2 = uri2
  None = None
  Conns = {c1, c2, c3}
  Client <- MCClient
  Name <- MCName
  Uri <- MCUri
  Alike <- MCAlike
  DetailsLimit = 1
  Tables <- MCTables
  Results <- MCResults
  Types = {"dns", "proxy"}
  DNSSevs = {1}
  ProxySevs = {1}
  Texts = {t1}
  Limit = 2
  MaxFaults = 1
  MaxUndeleted = 0
  MaxStarts = 4
CONSTRAINT Bounded
INVARIANTS
  ScoresInFeedback
  HiddenAreScored
  OneTimelinePerThreat
  SavedStoriesShown
  ShownHaveDetails
  DetailsAreOfShown
CHECK_DEADLOCK FALSE
