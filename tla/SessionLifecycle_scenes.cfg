SPECIFICATION SceneSpec
CONSTANTS
  h1 = h1
  h2 = h2
  h3 = h3
  Handlers = {h1, h2, h3}
  Kind <- RunAndKills
  Sync = sync
  NoRecord = NoRecord
  NoRt = NoRt
  Managed = TRUE
  HasFails = FALSE
  WarningAfter = 1
  CleanupAfter = 2
  MaxTime = 4
  MaxOut = 2
  MaxStops = 0
INVARIANTS ExitedIsGone
PROPERTIES ExitedForGood WarnedFirst TimelyBrowserLearns ExitNoticed
CHECK_DEADLOCK FALSE
