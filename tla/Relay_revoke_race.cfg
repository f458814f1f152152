SPECIFICATION Spec
CONSTANTS
  phone = phone
  laptop = laptop
  t1 = t1
  t2 = t2
  t3 = t3
  a1 = a1
  a2 = a2
  a3 = a3
  b1 = b1
  b2 = b2
  Devices = {phone, laptop}
  Codes = {c1, c2}
  Tokens = {t1, t2}
  AgentKeys = {ka}
  ClientKeys = {kb}
  NoKey = NoKey
  LegacyGrants <- MCLegacyGrants
  Ttl = 1
  MaxTime = 0
  UniqueCodes = TRUE
  AgentConns = {a1, a2, a3}
  ClientConns = {b1, b2}
  AgentDevice <- MCAgentDevice
  ClientToken <- MCClientToken
  NoConn = NoConn
  NoDevice = NoDevice
  AsyncStore = TRUE
INVARIANTS RevokedDisconnected
CHECK_DEADLOCK FALSE
