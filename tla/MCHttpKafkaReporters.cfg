SPECIFICATION FairSpec
CONSTANTS
  Routes <- OtherRoutes
  MaxSize = 2
  MaxItems = 3
  MaxFailures = 1
  Factor = 2
  MaxBeats = 4
INVARIANTS
  SilentLossBound
  InstanceRegistered
PROPERTIES
  TakenIsSent
  BestEffortAtMostOnce
CHECK_DEADLOCK FALSE
