SPECIFICATION PSpec
CONSTANTS
  Task = {t1, t2}
  MaxSpans = 3
  MaxDepth = 2
  Modes = {"sync"}
  Key = {k1, k2}
  MaxCorrelation = 0
  MaxSnapshots = 1
  MaxExtras = 2
SYMMETRY ThreadKeySymmetry
INVARIANTS
  RefResolves
  TraceContinues
  DarkStaysDark
  CorrelationBound
CHECK_DEADLOCK FALSE
