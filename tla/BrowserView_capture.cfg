SPECIFICATION ViewSpec
CONSTANTS
  r1 = r1
  r2 = r2
  Garbled = garbled
  NoPending = none
  Readers = {r1}
  Limit = 2
  Ways <- Captures
  MaxPane = 2
INVARIANTS ViewIsSnapshot
CHECK_DEADLOCK FALSE
