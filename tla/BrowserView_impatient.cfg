SPECIFICATION ViewFairSpec
CONSTANTS
  r1 = r1
  r2 = r2
  Garbled = garbled
  NoPending = none
  Readers = {r1}
  Limit = 2
  Ways <- ByHand
  MaxPane = 1
PROPERTIES SeqCaughtUp
CHECK_DEADLOCK FALSE
