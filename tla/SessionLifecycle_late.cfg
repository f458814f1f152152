SPECIFICATION LifeFairSpec
CONSTANTS
  h1 = h1
  h2 = h2
  h3 = h3
  Handlers = {h1, h2}
  Kind <- RunAndInput
  Sync = sync
  NoRecord = NoRecord
  NoRt = NoRt
  Managed = FALSE
  HasFails = FALSE
  WarningAfter = 1
  CleanupAfter = 2
  MaxTime = 1
  MaxOut = 2
  MaxStops = 0
PROPERTIES BrowserLearns
CHECK_DEADLOCK FALSE
