SPECIFICATION AppFairSpec
CONSTANTS
  t1 = t1
  t2 = t2
  Tokens = {t1, t2}
  NoToken = NoToken
  MaxSockets = 3
  MaxTimers = 2
  MaxLosses = 2
  MaxActs = 4
  InOrder = TRUE
INVARIANTS AppInv NotForgotten StaysOff
PROPERTIES LostOnlyIfRevoked Reconnects
CHECK_DEADLOCK FALSE
