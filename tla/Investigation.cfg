SPECIFICATION Spec
CONSTANTS
  Threats = {"t1", "t2"}
  Heavy = {"t2"}
  ClientThreats = {"t1"}
  Files <- MCFiles
  Calendar <- MCCalendar
  MaxClicks = 2
  MaxCallbacks = 2
INVARIANTS
  
  SummaryCoversTheRange
  StoriesOfTheirThreat
