SPECIFICATION LockFairSpec
CONSTANTS
  p1 = p1
  p2 = p2
  p3 = p3
  Procs = {p1, p2, p3}
  Stale = 2
  Timeout = 1
  Prompt = TRUE
  ReadFails = FALSE
  MaxDeaths = 1
INVARIANTS LockInv
PROPERTIES KeepsChanges LockFreed
