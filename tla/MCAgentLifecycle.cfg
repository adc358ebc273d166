SPECIFICATION FairSpec
CONSTANTS
  Pid = {1, 2, 3}
  ForkSupport = TRUE
  MaxBoots = 2
INVARIANTS
  FiniOncePerProcess
  ReportingHasReporter
PROPERTY StoppedRunsOut
CHECK_DEADLOCK FALSE
