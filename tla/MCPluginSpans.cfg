SPECIFICATION WSpec
CONSTANTS
  Task = {t1}
  MaxSpans = 3
  MaxDepth = 3
  Modes = {"sync"}
  Key = {k1}
  MaxCorrelation = 0
  MaxSnapshots = 0
  MaxExtras = 1
INVARIANTS
  RequestsReported
  ErrorsShown
  DarkInside
CHECK_DEADLOCK FALSE
