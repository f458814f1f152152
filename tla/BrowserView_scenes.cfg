SPECIFICATION ViewFairSpec
CONSTANTS
  r1 = r1
  r2 = r2
  Garbled = garbled
  NoPending = none
  Readers = {r1}
  Limit = 2
  Ways <- Scenes
  MaxPane = 2
INVARIANTS ViewInv
PROPERTIES ViewCaughtUp
CHECK_DEADLOCK FALSE
