SPECIFICATION FairSpec
CONSTANTS
  Routes <- AsyncLists
  MaxSize = 2
  MaxItems = 3
  MaxFailures = 2
  Factor = 2
  MaxBeats = 0
PROPERTY TakenIsSent
CHECK_DEADLOCK FALSE
