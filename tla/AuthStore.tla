----------------------------- MODULE AuthStore -----------------------------
(***************************************************************************)
(* relay/src/auth-store.ts: the pairing codes and access grants the relay  *)
(* keeps.  The memory and the SQLite store run each operation without      *)
(* giving up the event loop (and SQLite inside one transaction), so an     *)
(* operation is one step.  The PostgreSQL store, whose redemption takes    *)
(* several queries, is PgAuthStore.tla.                                    *)
(*                                                                         *)
(* A row is a record and a table is a set of rows.  Of the timestamps only *)
(* the ones that are read back are kept: expires_at and last_used_at.      *)
(***************************************************************************)
EXTENDS Integers

CONSTANTS
  Devices,       \* device ids
  Codes,         \* the values createPairingCodeValue can draw
  Tokens,        \* the values createAccessToken can draw
  AgentKeys,     \* public keys of agents
  ClientKeys,    \* public keys of browsers
  NoKey,         \* an empty or missing key
  LegacyGrants,  \* grants a relay of before the key columns left behind
  Ttl,           \* pairingTtlMinutes, in ticks of the clock
  MaxTime,       \* bound on the clock
  UniqueCodes    \* TRUE for the SQL stores (primary key), FALSE for memory

Pairing == [code : Codes, deviceId : Devices, agentPublicKey : AgentKeys \cup {NoKey},
            expiresAt : Nat, redeemed : BOOLEAN]
Grant == [accessToken : Tokens, deviceId : Devices,
          clientPublicKey : ClientKeys \cup {NoKey}, lastUsedAt : Nat]
Redemption == [code : Codes, accessToken : Tokens]

\* A browser's key is never empty (the redeem handler trims and refuses it),
\* but a row written before the column existed has none.
ASSUME StoreAssumption ==
  /\ Ttl \in Nat /\ MaxTime \in Nat
  /\ UniqueCodes \in BOOLEAN
  /\ NoKey \notin AgentKeys \cup ClientKeys
  /\ LegacyGrants \subseteq [accessToken : Tokens, deviceId : Devices,
                             clientPublicKey : {NoKey}, lastUsedAt : {0}]
  /\ \A g, h \in LegacyGrants : g.accessToken = h.accessToken => g = h

VARIABLES
  pairings,     \* rows of relay_pairing_codes
  grants,       \* rows of relay_client_grants
  now,          \* Date.now()
  redemptions   \* history: which code became which token

storeVars == <<pairings, grants, now, redemptions>>

\* Tokens that were ever handed out: 24 random bytes do not repeat.
SpentTokens == {r.accessToken : r \in redemptions} \cup {g.accessToken : g \in LegacyGrants}

StoreInit ==
  /\ pairings = {}
  /\ grants = LegacyGrants
  /\ now = 0
  /\ redemptions = {}

\* createPairingCode: an insert fails on a code that exists, Map.set replaces it.
CreatePairingCode(d, key, code) ==
  /\ UniqueCodes => \A p \in pairings : p.code # code
  /\ pairings' = {p \in pairings : p.code # code} \cup
       {[code |-> code, deviceId |-> d, agentPublicKey |-> key,
         expiresAt |-> now + Ttl, redeemed |-> FALSE]}
  /\ UNCHANGED <<grants, now, redemptions>>

\* Mutant of Redeemable: redeemed_at is not looked at.
RedeemableAgain(p, key) == p.expiresAt > now /\ p.agentPublicKey # NoKey /\ key # NoKey

Redeemable(p, key) ==
  /\ ~p.redeemed
  /\ p.expiresAt > now
  /\ p.agentPublicKey # NoKey
  /\ key # NoKey

\* redeemPairingCode, when it does not answer null.
RedeemPairingCode(p, key, t) ==
  /\ p \in pairings
  /\ Redeemable(p, key)
  /\ t \notin SpentTokens
  /\ pairings' = (pairings \ {p}) \cup {[p EXCEPT !.redeemed = TRUE]}
  /\ grants' = grants \cup {[accessToken |-> t, deviceId |-> p.deviceId,
                             clientPublicKey |-> key, lastUsedAt |-> now]}
  /\ redemptions' = redemptions \cup {[code |-> p.code, accessToken |-> t]}
  /\ UNCHANGED now

\* getGrantByAccessToken, which also notes the use of the row it finds.
GetGrantByAccessToken(t) ==
  /\ grants' = {IF g.accessToken = t THEN [g EXCEPT !.lastUsedAt = now] ELSE g : g \in grants}
  /\ UNCHANGED <<pairings, now, redemptions>>

\* Mutant of RevokeGrant: the token is missing from the condition.
RevokeDevice(d, t) ==
  /\ \E g \in grants : g.deviceId = d /\ g.accessToken = t
  /\ grants' = {g \in grants : g.deviceId # d}
  /\ UNCHANGED <<pairings, now, redemptions>>

\* revokeGrant, when it finds a row of that device.
RevokeGrant(d, t) ==
  /\ \E g \in grants : g.deviceId = d /\ g.accessToken = t
  /\ grants' = {g \in grants : ~(g.deviceId = d /\ g.accessToken = t)}
  /\ UNCHANGED <<pairings, now, redemptions>>

Tick ==
  /\ now < MaxTime
  /\ now' = now + 1
  /\ UNCHANGED <<pairings, grants, redemptions>>

StoreNext ==
  \/ \E d \in Devices, key \in AgentKeys \cup {NoKey}, code \in Codes : CreatePairingCode(d, key, code)
  \/ \E p \in pairings, key \in ClientKeys \cup {NoKey}, t \in Tokens : RedeemPairingCode(p, key, t)
  \/ \E t \in Tokens : GetGrantByAccessToken(t)
  \/ \E d \in Devices, t \in Tokens : RevokeGrant(d, t)
  \/ Tick

StoreSpec == StoreInit /\ [][StoreNext]_storeVars

-----------------------------------------------------------------------------
\* The store's rows have the shape the queries expect.
StoreTypeOK ==
  /\ pairings \subseteq Pairing
  /\ grants \subseteq Grant
  /\ now \in Nat
  /\ redemptions \subseteq Redemption

\* Both tables are keyed: no two pairings share a code, no two grants a token,
\* although the memory store replaces a code and every store rewrites rows.
KeysUnique ==
  /\ \A p, q \in pairings : p.code = q.code => p = q
  /\ \A g, h \in grants : g.accessToken = h.accessToken => g = h

\* A token stands for one redemption, and (where codes cannot be drawn twice) a
\* code for one token: two browsers that submit the same code never both pair.
SingleUse ==
  /\ \A r, s \in redemptions : r.accessToken = s.accessToken => r = s
  /\ UniqueCodes => \A r, s \in redemptions : r.code = s.code => r = s

\* A row marked redeemed has been turned into a token, and (with unique codes)
\* one that is not marked has not: marking and granting never come apart.
MarkedIffRedeemed ==
  UniqueCodes => \A p \in pairings : p.redeemed <=> \E r \in redemptions : r.code = p.code

\* A token that was revoked is never accepted again: neither noting its last use
\* nor a later redemption brings the row back (getGrantByAccessToken writes it).
NoResurrection ==
  [][\A t \in SpentTokens :
       (\A g \in grants : g.accessToken # t) => (\A g \in grants' : g.accessToken # t)]_storeVars

\* The promise of the store, with codes and grants stripped of their keys and times.
Ledger == INSTANCE PairingLedger WITH
  issued   <- {[code |-> p.code, deviceId |-> p.deviceId] : p \in pairings},
  redeemed <- redemptions,
  granted  <- {[accessToken |-> g.accessToken, deviceId |-> g.deviceId] : g \in grants}

\* The memory and SQLite stores keep the promise (unique codes).
KeepsLedger == Ledger!Spec
=============================================================================
