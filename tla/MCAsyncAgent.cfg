SPECIFICATION Spec
CONSTANTS
  MaxSize = 1
  MaxItems = 3
  MaxFailures = 2
INVARIANTS
  SilentLossBound
  FailureLoggedOnce
PROPERTIES
  BestEffortAtMostOnce
  LoopEnds
CHECK_DEADLOCK FALSE
