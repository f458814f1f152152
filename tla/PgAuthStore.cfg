SPECIFICATION PgFairSpec
CONSTANTS
  Devices = {phone}
  Codes = {c1, c2}
  Tokens = {t1, t2}
  AgentKeys = {ka}
  ClientKeys = {kb}
  NoKey = NoKey
  LegacyGrants <- MCLegacyGrants
  Ttl = 1
  MaxTime = 1
  UniqueCodes = TRUE
  Requests = {r1, r2}
INVARIANTS TxnInv
PROPERTIES PgKeepsLedger RedemptionAnswered
