SPECIFICATION ViewFairSpec
CONSTANTS
  r1 = r1
  r2 = r2
  Garbled = garbled
  NoPending = none
  Readers = {r1, r2}
  Limit = 2
  Ways <- Reconnects
  MaxPane = 4
PROPERTIES SeqCaughtUp
CHECK_DEADLOCK FALSE
