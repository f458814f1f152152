SPECIFICATION ProcFairSpec
CONSTANTS
  c1 = c1
  c2 = c2
  Shells = {c1, c2}
  MaxPids = 4
  MaxCommands = 4
  MaxCrashes = 1
  MaxLosses = 1
INVARIANTS ProcInv StoppedMeansGone
PROPERTIES Settles
CHECK_DEADLOCK FALSE
