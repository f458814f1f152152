SPECIFICATION ChannelFairSpec
CONSTANTS
  b1 = b1
  b2 = b2
  k1 = k1
  k2 = k2
  k3 = k3
  s1 = s1
  s2 = s2
  h1 = h1
  h2 = h2
  Browsers = {b1, b2}
  Keys = {k1, k2}
  NoKey = NoKey
  Shells = {s1}
  Handlers = {h1}
  Loop = loop
  MaxPairings = 2
  MaxEvents = 1
INVARIANTS ChannelInv KeysAgree
PROPERTIES CodesFit RequestAnswered RevokedForgotten
CHECK_DEADLOCK FALSE
