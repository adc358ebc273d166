SPECIFICATION Spec
CONSTANTS
  Task = {main, child, grandchild}
  MaxSpans = 4
  MaxDepth = 3
  Modes = {"sync", "async"}
SYMMETRY TaskSymmetry
INVARIANTS
  ArchivedWhole
  NothingStranded
  InnermostIsParent
CHECK_DEADLOCK FALSE
