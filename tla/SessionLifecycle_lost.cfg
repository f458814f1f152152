SPECIFICATION LifeSpec
CONSTANTS
  h1 = h1
  h2 = h2
  h3 = h3
  Handlers = {h1, h3}
  Kind <- RunAndCliKill
  Sync = sync
  NoRecord = NoRecord
  NoRt = NoRt
  Managed = TRUE
  HasFails = TRUE
  WarningAfter = 1
  CleanupAfter = 2
  MaxTime = 1
  MaxOut = 2
  MaxStops = 0
INVARIANTS ExitedIsGone
CHECK_DEADLOCK FALSE
