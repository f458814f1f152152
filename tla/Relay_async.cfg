SPECIFICATION Spec
CONSTANTS
  phone = phone
  laptop = laptop
  t1 = t1
  t2 = t2
  t3 = t3
  a1 = a1
  a2 = a2
  a3 = a3
  b1 = b1
  b2 = b2
  Devices = {phone, laptop}
  Codes = {c1}
  Tokens = {t1, t2, t3}
  AgentKeys = {ka}
  ClientKeys = {kb}
  NoKey = NoKey
  LegacyGrants <- MCLegacyRow
  Ttl = 1
  MaxTime = 1
  UniqueCodes = TRUE
  AgentConns = {a1, a2, a3}
  ClientConns = {b1, b2}
  AgentDevice <- MCAgentDevice
  ClientToken <- MCLegacyToken
  NoConn = NoConn
  NoDevice = NoDevice
  AsyncStore = TRUE
INVARIANTS SingleUse RoutingTrue RoutedInScope
PROPERTIES KeepsLedger
CHECK_DEADLOCK FALSE
