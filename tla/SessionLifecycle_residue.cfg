SPECIFICATION LifeSpec
CONSTANTS
  h1 = h1
  h2 = h2
  h3 = h3
  Handlers = {h1}
  Kind <- OnlyRun
  Sync = sync
  NoRecord = NoRecord
  NoRt = NoRt
  Managed = TRUE
  HasFails = FALSE
  WarningAfter = 1
  CleanupAfter = 2
  MaxTime = 4
  MaxOut = 2
  MaxStops = 0
PROPERTIES CleanedOnlyIdle
CHECK_DEADLOCK FALSE
