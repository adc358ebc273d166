SPECIFICATION Spec
CONSTANTS
  Backend = {oap1, oap2}
  Reporter = {segment}
  Heartbeat = heartbeat
  Factor = 2
  MaxFailures = 1
  RecordsExpire = TRUE
INVARIANTS
  WatchKept
PROPERTIES
  IdleIsLeft
  EventuallyRegistered
  PingsGoOn
