SPECIFICATION Spec
CONSTANTS
  Serial = {"first", "second"}
  CacheLen = 1
  MaxReceived = 3
  Trace = {a, b}
  WellFormed = {"first", "second"}
  StartTime <- MCStartTime
  FinishTime <- MCFinishTime
  MaxParallel = 1
  MaxSamples = 1
  MaxTasks = 2
SYMMETRY TraceSymmetry
INVARIANTS
  FinishedOnce
  OneTaskAtATime
  ExecutedOnce
  SlotAccounting
  SamplingBound
CHECK_DEADLOCK FALSE
