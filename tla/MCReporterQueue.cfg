SPECIFICATION ShutdownSpec
CONSTANTS
  MaxSize = 2
  MaxItems = 3
  MaxFailures = 1
INVARIANTS
  TypeOK
  UnfinishedBalance
  LossesAccounted
PROPERTIES
  BestEffortAtMostOnce
  ShutdownTerminates
  QueueDrains
CHECK_DEADLOCK FALSE
