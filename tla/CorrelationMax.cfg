SPECIFICATION PSpec
CONSTANTS
  Task = {t1}
  MaxSpans = 1
  MaxDepth = 1
  Modes = {"sync"}
  Key = {k1, k2, k3}
  MaxCorrelation = 2
  MaxSnapshots = 0
  MaxExtras = 0
INVARIANT CorrelationWithinMax
CHECK_DEADLOCK FALSE
