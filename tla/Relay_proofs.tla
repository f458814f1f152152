---------------------------- MODULE Relay_proofs ----------------------------
(***************************************************************************)
(* Proofs about the relay: AuthStore.tla and PgAuthStore.tla, for every    *)
(* set of devices, codes, tokens and keys, every lifetime of a code, both  *)
(* kinds of store, and any number of redemptions in progress; then         *)
(* Relay.tla, for any connections.  Every step of the relay does what a    *)
(* step of the store does or nothing to the store's variables.             *)
(***************************************************************************)
EXTENDS PgAuthStore, Relay, TLAPS

\* Every grant in force was handed out, and a redemption's code is on record.
GrantsAccounted ==
  /\ \A g \in grants : g.accessToken \in SpentTokens
  /\ \A r \in redemptions : \E p \in pairings : p.code = r.code

\* The inductive invariant of the store.
StoreInv ==
  /\ StoreTypeOK
  /\ KeysUnique
  /\ SingleUse
  /\ MarkedIffRedeemed
  /\ GrantsAccounted

\* What a redemption does to the store, whenever its other conditions were evaluated.
Redeems(p, key, t) ==
  /\ ~p.redeemed /\ t \notin SpentTokens
  /\ pairings' = (pairings \ {p}) \cup {[p EXCEPT !.redeemed = TRUE]}
  /\ grants' = grants \cup {[accessToken |-> t, deviceId |-> p.deviceId,
                             clientPublicKey |-> key, lastUsedAt |-> now]}
  /\ redemptions' = redemptions \cup {[code |-> p.code, accessToken |-> t]}
  /\ now' = now

\* The stores that redeem in one step.
LEMMA PairingCodeRedeems ==
  ASSUME NEW p, NEW key, NEW t, RedeemPairingCode(p, key, t) PROVE Redeems(p, key, t)
BY DEF RedeemPairingCode, Redeemable, Redeems

\* A redemption keeps the rows' shape.
LEMMA RedeemTypes ==
  ASSUME StoreTypeOK, NEW p \in pairings, NEW key \in ClientKeys \cup {NoKey}, NEW t \in Tokens,
         Redeems(p, key, t)
  PROVE StoreTypeOK'
<1> USE DEF StoreTypeOK, Pairing, Grant, Redemption
<1> DEFINE marked == [p EXCEPT !.redeemed = TRUE]
           grant == [accessToken |-> t, deviceId |-> p.deviceId,
                     clientPublicKey |-> key, lastUsedAt |-> now]
           redemption == [code |-> p.code, accessToken |-> t]
<1>1. p \in Pairing
  OBVIOUS
<1>2. marked \in Pairing /\ grant \in Grant /\ redemption \in Redemption
  BY <1>1
<1>3. /\ pairings' = (pairings \ {p}) \cup {marked}
      /\ grants' = grants \cup {grant}
      /\ redemptions' = redemptions \cup {redemption}
      /\ now' = now
  BY DEF Redeems
<1> HIDE DEF marked, grant, redemption
<1> QED BY <1>2, <1>3

\* The rows of both tables and the history keep their shape.
LEMMA StoreTypeStep == StoreTypeOK /\ [StoreNext]_storeVars => StoreTypeOK'
<1> SUFFICES ASSUME StoreTypeOK, [StoreNext]_storeVars PROVE StoreTypeOK'
  OBVIOUS
<1> USE StoreAssumption DEF StoreTypeOK, Pairing, Grant, Redemption
<1>1. ASSUME NEW d \in Devices, NEW key \in AgentKeys \cup {NoKey}, NEW code \in Codes,
             CreatePairingCode(d, key, code)
      PROVE StoreTypeOK'
  <2> DEFINE row == [code |-> code, deviceId |-> d, agentPublicKey |-> key,
                     expiresAt |-> now + Ttl, redeemed |-> FALSE]
  <2>1. row \in Pairing
    OBVIOUS
  <2>2. \A q \in pairings' : q \in pairings \/ q = row
    BY <1>1 DEF CreatePairingCode
  <2> QED BY <1>1, <2>1, <2>2 DEF CreatePairingCode
<1>2. ASSUME NEW p \in pairings, NEW key \in ClientKeys \cup {NoKey}, NEW t \in Tokens,
             RedeemPairingCode(p, key, t)
      PROVE StoreTypeOK'
  BY <1>2, RedeemTypes, PairingCodeRedeems
<1>3. ASSUME NEW t \in Tokens, GetGrantByAccessToken(t) PROVE StoreTypeOK'
  BY <1>3 DEF GetGrantByAccessToken
<1>4. ASSUME NEW d \in Devices, NEW t \in Tokens, RevokeGrant(d, t) PROVE StoreTypeOK'
  BY <1>4 DEF RevokeGrant
<1>5. CASE Tick
  BY <1>5 DEF Tick
<1>6. CASE UNCHANGED storeVars
  BY <1>6 DEF storeVars
<1> QED BY <1>1, <1>2, <1>3, <1>4, <1>5, <1>6 DEF StoreNext

LEMMA StoreInvInit == StoreInit => StoreInv
BY StoreAssumption DEF StoreInit, StoreInv, StoreTypeOK, Pairing, Grant, Redemption, KeysUnique,
   SingleUse, MarkedIffRedeemed, GrantsAccounted, SpentTokens

\* Issuing a code: a new row, not marked, for a code that had none (unique codes).
LEMMA CreateKeepsInv ==
  ASSUME StoreInv, NEW d \in Devices, NEW key \in AgentKeys \cup {NoKey}, NEW code \in Codes,
         CreatePairingCode(d, key, code), StoreTypeOK'
  PROVE StoreInv'
<1> USE DEF CreatePairingCode, StoreInv
<1> DEFINE row == [code |-> code, deviceId |-> d, agentPublicKey |-> key,
                   expiresAt |-> now + Ttl, redeemed |-> FALSE]
<1>0. /\ row \in pairings' /\ row.code = code /\ ~row.redeemed
      /\ \A q \in pairings' : q = row \/ (q \in pairings /\ q.code # code)
      /\ \A q \in pairings : q.code # code => q \in pairings'
      /\ grants' = grants /\ redemptions' = redemptions
  OBVIOUS
<1>a. UniqueCodes => \A q \in pairings : q.code # code
  OBVIOUS
<1> HIDE DEF row, CreatePairingCode
<1>1. KeysUnique'
  BY <1>0 DEF KeysUnique
<1>2. SingleUse'
  BY <1>0 DEF SingleUse
<1>3. MarkedIffRedeemed'
  BY <1>0, <1>a DEF MarkedIffRedeemed, GrantsAccounted
<1>4. GrantsAccounted'
  BY <1>0 DEF GrantsAccounted, SpentTokens
<1> QED BY <1>1, <1>2, <1>3, <1>4

\* Redeeming: the row is marked and the token, which is fresh, is granted together.
LEMMA RedeemKeepsInv ==
  ASSUME StoreInv, NEW p \in pairings, NEW key \in ClientKeys \cup {NoKey}, NEW t \in Tokens,
         Redeems(p, key, t), StoreTypeOK'
  PROVE StoreInv'
<1> USE DEF StoreInv
<1> DEFINE marked == [p EXCEPT !.redeemed = TRUE]
           grant == [accessToken |-> t, deviceId |-> p.deviceId,
                     clientPublicKey |-> key, lastUsedAt |-> now]
           redemption == [code |-> p.code, accessToken |-> t]
<1>0. /\ pairings' = (pairings \ {p}) \cup {marked}
      /\ grants' = grants \cup {grant}
      /\ redemptions' = redemptions \cup {redemption}
      /\ t \notin SpentTokens
      /\ ~p.redeemed
  BY DEF Redeems
<1>a. /\ marked.code = p.code /\ marked.redeemed
      /\ grant.accessToken = t
      /\ redemption.code = p.code /\ redemption.accessToken = t
  BY DEF StoreTypeOK, Pairing
<1> HIDE DEF marked, grant, redemption
<1>b. \A r \in redemptions : r.accessToken # t
  BY <1>0 DEF SpentTokens
<1>c. UniqueCodes => \A r \in redemptions : r.code # p.code
  BY <1>0 DEF MarkedIffRedeemed
<1>d. SpentTokens' = SpentTokens \cup {t}
  BY <1>0, <1>a DEF SpentTokens
<1>1. KeysUnique'
  <2>1. \A q, u \in pairings' : q.code = u.code => q = u
    BY <1>0, <1>a DEF KeysUnique
  <2>2. \A g \in grants : g.accessToken # t
    BY <1>0 DEF GrantsAccounted
  <2>3. \A g, h \in grants' : g.accessToken = h.accessToken => g = h
    BY <1>0, <1>a, <2>2 DEF KeysUnique
  <2> QED BY <2>1, <2>3 DEF KeysUnique
<1>2. SingleUse'
  BY <1>0, <1>a, <1>b, <1>c DEF SingleUse
<1>3. MarkedIffRedeemed'
  BY <1>0, <1>a, <1>c DEF MarkedIffRedeemed, KeysUnique
<1>4. GrantsAccounted'
  <2>1. \A g \in grants' : g.accessToken \in SpentTokens'
    BY <1>0, <1>a, <1>d DEF GrantsAccounted
  <2>2. \A r \in redemptions' : \E q \in pairings' : q.code = r.code
    BY <1>0, <1>a DEF GrantsAccounted
  <2> QED BY <2>1, <2>2 DEF GrantsAccounted
<1> QED BY <1>1, <1>2, <1>3, <1>4

\* Noting the last use rewrites a row under its own key.
LEMMA GetKeepsInv ==
  ASSUME StoreInv, NEW t \in Tokens, GetGrantByAccessToken(t), StoreTypeOK'
  PROVE StoreInv'
<1> USE DEF GetGrantByAccessToken, StoreInv
<1>1. \A h \in grants' : \E g \in grants :
        /\ h.accessToken = g.accessToken
        /\ h = IF g.accessToken = t THEN [g EXCEPT !.lastUsedAt = now] ELSE g
  BY DEF StoreTypeOK, Grant
<1>2. KeysUnique'
  BY <1>1 DEF KeysUnique
<1>3. SingleUse' /\ MarkedIffRedeemed'
  BY DEF SingleUse, MarkedIffRedeemed
<1>4. GrantsAccounted'
  BY <1>1 DEF GrantsAccounted, SpentTokens
<1> QED BY <1>2, <1>3, <1>4

LEMMA StoreInvStep == StoreInv /\ [StoreNext]_storeVars => StoreInv'
<1> SUFFICES ASSUME StoreInv, [StoreNext]_storeVars PROVE StoreInv'
  OBVIOUS
<1>0. StoreTypeOK'
  BY StoreTypeStep DEF StoreInv
<1>1. CASE \E d \in Devices, key \in AgentKeys \cup {NoKey}, code \in Codes : CreatePairingCode(d, key, code)
  BY <1>0, <1>1, CreateKeepsInv
<1>2. CASE \E p \in pairings, key \in ClientKeys \cup {NoKey}, t \in Tokens : RedeemPairingCode(p, key, t)
  BY <1>0, <1>2, RedeemKeepsInv, PairingCodeRedeems
<1>3. CASE \E t \in Tokens : GetGrantByAccessToken(t)
  BY <1>0, <1>3, GetKeepsInv
<1>4. CASE \E d \in Devices, t \in Tokens : RevokeGrant(d, t)
  BY <1>0, <1>4 DEF RevokeGrant, StoreInv, KeysUnique, SingleUse, MarkedIffRedeemed, GrantsAccounted, SpentTokens
<1>5. CASE Tick
  BY <1>0, <1>5 DEF Tick, StoreInv, KeysUnique, SingleUse, MarkedIffRedeemed, GrantsAccounted, SpentTokens
<1>6. CASE UNCHANGED storeVars
  BY <1>0, <1>6 DEF storeVars, StoreInv, KeysUnique, SingleUse, MarkedIffRedeemed, GrantsAccounted, SpentTokens
<1> QED BY <1>1, <1>2, <1>3, <1>4, <1>5, <1>6 DEF StoreNext

\* The inductive invariant holds in every behaviour of the store.
LEMMA StoreInvariant == StoreSpec => []StoreInv
BY StoreInvInit, StoreInvStep, PTL DEF StoreSpec

\* The store is always well formed and its tables keyed, although the memory store
\* replaces rows and every store rewrites them (auth-store.ts).
THEOREM StoreWellFormed == StoreSpec => [](StoreTypeOK /\ KeysUnique)
<1>1. StoreInv => StoreTypeOK /\ KeysUnique
  BY DEF StoreInv
<1> QED BY <1>1, StoreInvariant, PTL

\* A code is turned into at most one token, and a token stands for one redemption.
THEOREM CodesSingleUse == StoreSpec => [](SingleUse /\ MarkedIffRedeemed)
<1>1. StoreInv => SingleUse /\ MarkedIffRedeemed
  BY DEF StoreInv
<1> QED BY <1>1, StoreInvariant, PTL

\* A token that was handed out and is not granted is not granted again: noting a
\* use and rewriting a row never bring a revoked grant back.
THEOREM RevokedStaysRevoked == StoreSpec => NoResurrection
<1>1. ASSUME StoreInv, [StoreNext]_storeVars, NEW t \in SpentTokens,
             \A g \in grants : g.accessToken # t
      PROVE \A g \in grants' : g.accessToken # t
  <2>1. ASSUME NEW p \in pairings, NEW key \in ClientKeys \cup {NoKey}, NEW u \in Tokens,
               RedeemPairingCode(p, key, u)
        PROVE \A g \in grants' : g.accessToken # t
    BY <1>1, <2>1 DEF RedeemPairingCode
  <2>2. ASSUME NEW u \in Tokens, GetGrantByAccessToken(u)
        PROVE \A g \in grants' : g.accessToken # t
    BY <1>1, <2>2 DEF GetGrantByAccessToken, StoreInv, StoreTypeOK, Grant
  <2>3. CASE grants' \subseteq grants
    BY <1>1, <2>3
  <2> QED BY <1>1, <2>1, <2>2, <2>3
          DEF StoreNext, CreatePairingCode, RevokeGrant, Tick, storeVars
<1>2. StoreInv /\ [StoreNext]_storeVars =>
        [\A t \in SpentTokens : (\A g \in grants : g.accessToken # t)
                               => (\A g \in grants' : g.accessToken # t)]_storeVars
  BY <1>1
<1> QED BY <1>2, StoreInvariant, PTL DEF StoreSpec, NoResurrection

-----------------------------------------------------------------------------
\* Where codes are unique a redemption is the promise's.
LEMMA RedeemIsLedgers ==
  ASSUME UniqueCodes, StoreInv, NEW p \in pairings, NEW key \in ClientKeys \cup {NoKey}, NEW t \in Tokens,
         Redeems(p, key, t)
  PROVE Ledger!Redeem([code |-> p.code, deviceId |-> p.deviceId], t)
<1> DEFINE issued == {[code |-> q.code, deviceId |-> q.deviceId] : q \in pairings}
           granted == {[accessToken |-> g.accessToken, deviceId |-> g.deviceId] : g \in grants}
<1> DEFINE marked == [p EXCEPT !.redeemed = TRUE]
           grant == [accessToken |-> t, deviceId |-> p.deviceId,
                     clientPublicKey |-> key, lastUsedAt |-> now]
           entry == [code |-> p.code, deviceId |-> p.deviceId]
<1>1. /\ pairings' = (pairings \ {p}) \cup {marked}
      /\ grants' = grants \cup {grant}
      /\ redemptions' = redemptions \cup {[code |-> p.code, accessToken |-> t]}
      /\ t \notin SpentTokens
      /\ ~p.redeemed
  BY DEF Redeems
<1>2. /\ marked.code = p.code /\ marked.deviceId = p.deviceId
      /\ grant.accessToken = t /\ grant.deviceId = p.deviceId
      /\ entry.code = p.code /\ entry.deviceId = p.deviceId
      /\ entry \in issued
  BY DEF StoreInv, StoreTypeOK, Pairing
<1> HIDE DEF marked, grant
<1>3. issued' = issued
  BY <1>1, <1>2
<1>4. granted' = granted \cup {[accessToken |-> t, deviceId |-> p.deviceId]}
  BY <1>1, <1>2
<1>5. \A r \in redemptions : r.code # p.code /\ r.accessToken # t
  BY <1>1 DEF StoreInv, MarkedIffRedeemed, SpentTokens
<1>6. \A g \in granted : g.accessToken # t
  BY <1>1 DEF StoreInv, GrantsAccounted
<1> QED BY <1>1, <1>2, <1>3, <1>4, <1>5, <1>6 DEF Ledger!Redeem

\* Where codes are unique, a step of the store is a step of the promise or none of it.
LEMMA LedgerStep ==
  ASSUME UniqueCodes, StoreInv, [StoreNext]_storeVars
  PROVE [Ledger!Next]_Ledger!ledger
<1> DEFINE issued == {[code |-> p.code, deviceId |-> p.deviceId] : p \in pairings}
           granted == {[accessToken |-> g.accessToken, deviceId |-> g.deviceId] : g \in grants}
<1>1. ASSUME NEW d \in Devices, NEW key \in AgentKeys \cup {NoKey}, NEW code \in Codes,
             CreatePairingCode(d, key, code)
      PROVE Ledger!Issue(d, code)
  <2> DEFINE row == [code |-> code, deviceId |-> d, agentPublicKey |-> key,
                     expiresAt |-> now + Ttl, redeemed |-> FALSE]
  <2>1. \A p \in pairings : p.code # code
    BY <1>1 DEF CreatePairingCode
  <2>2. pairings' = pairings \cup {row} /\ UNCHANGED <<grants, redemptions>>
    BY <1>1, <2>1 DEF CreatePairingCode
  <2>3. row.code = code /\ row.deviceId = d
    OBVIOUS
  <2> HIDE DEF row
  <2>4. issued' = issued \cup {[code |-> code, deviceId |-> d]}
    BY <2>2, <2>3
  <2>5. \A p \in issued : p.code # code
    BY <2>1
  <2> QED BY <2>2, <2>4, <2>5 DEF Ledger!Issue
<1>2. ASSUME NEW p \in pairings, NEW key \in ClientKeys \cup {NoKey}, NEW t \in Tokens,
             RedeemPairingCode(p, key, t)
      PROVE Ledger!Redeem([code |-> p.code, deviceId |-> p.deviceId], t)
  BY <1>2, RedeemIsLedgers, PairingCodeRedeems
<1>3. ASSUME NEW t \in Tokens, GetGrantByAccessToken(t)
      PROVE UNCHANGED Ledger!ledger
  <2> DEFINE used(g) == IF g.accessToken = t THEN [g EXCEPT !.lastUsedAt = now] ELSE g
  <2>1. \A g \in grants : used(g).accessToken = g.accessToken /\ used(g).deviceId = g.deviceId
    BY DEF StoreInv, StoreTypeOK, Grant
  <2>2. grants' = {used(g) : g \in grants} /\ UNCHANGED <<pairings, redemptions>>
    BY <1>3 DEF GetGrantByAccessToken
  <2> HIDE DEF used
  <2>3. granted' = granted
    BY <2>1, <2>2
  <2> QED BY <2>2, <2>3 DEF Ledger!ledger
<1>4. ASSUME NEW d \in Devices, NEW t \in Tokens, RevokeGrant(d, t)
      PROVE Ledger!Revoke([accessToken |-> t, deviceId |-> d])
  <2>1. /\ grants' = {g \in grants : ~(g.deviceId = d /\ g.accessToken = t)}
        /\ UNCHANGED <<pairings, redemptions>>
        /\ \E g \in grants : g.deviceId = d /\ g.accessToken = t
    BY <1>4 DEF RevokeGrant
  <2>2. [accessToken |-> t, deviceId |-> d] \in granted
    BY <2>1
  <2>3. granted' = granted \ {[accessToken |-> t, deviceId |-> d]}
    BY <2>1
  <2> QED BY <2>1, <2>2, <2>3 DEF Ledger!Revoke
<1>5. CASE Tick
  BY <1>5 DEF Tick, Ledger!ledger
<1>6. CASE UNCHANGED storeVars
  BY <1>6 DEF storeVars, Ledger!ledger
<1>7. \A p \in pairings : [code |-> p.code, deviceId |-> p.deviceId] \in issued
  OBVIOUS
<1>8. ASSUME NEW d \in Devices, NEW t \in Tokens, RevokeGrant(d, t)
      PROVE [accessToken |-> t, deviceId |-> d] \in granted
  BY <1>8 DEF RevokeGrant
<1> HIDE DEF issued, granted
<1> QED BY <1>1, <1>2, <1>3, <1>4, <1>5, <1>6, <1>7, <1>8 DEF StoreNext, Ledger!Next, issued, granted

\* Where codes are unique the store keeps its promise: it implements PairingLedger.
THEOREM StoreKeepsLedger ==
  ASSUME UniqueCodes
  PROVE StoreSpec => KeepsLedger
<1>1. StoreInit => Ledger!Init
  BY StoreAssumption DEF StoreInit, Ledger!Init
<1>2. StoreInv /\ [StoreNext]_storeVars => [Ledger!Next]_Ledger!ledger
  BY LedgerStep
<1> QED BY <1>1, <1>2, StoreInvariant, PTL DEF StoreSpec, KeepsLedger, Ledger!Spec

-----------------------------------------------------------------------------
(***************************************************************************)
(* The PostgreSQL store keeps the promise, with any number of redemptions  *)
(* in progress: the row lock makes what a transaction read what is still   *)
(* committed when it commits, and the insert of a token makes it the       *)
(* transaction's own.                                                      *)
(***************************************************************************)

Locked == {"locked", "checked", "marked", "inserted"}

\* The records of a transaction: TxnTypeOK says that txn's are of these.
Txn ==
  {NoTxn}
  \cup [at : {"begun"}, code : Codes, key : ClientKeys]
  \cup [at : {"locked", "checked", "marked"}, row : Pairing, key : ClientKeys]
  \cup [at : {"inserted"}, row : Pairing, key : ClientKeys, token : Tokens]

\* A row is held by one transaction, and one that has checked it holds it unredeemed.
Exclusive ==
  \A r, q \in Requests :
    txn[r].at \in Locked /\ txn[q].at \in Locked /\ txn[r].row.code = txn[q].row.code => r = q
CheckStands == \A r \in Requests : txn[r].at \in Locked \ {"locked"} => ~txn[r].row.redeemed

\* A token that was inserted is nobody else's.
TokensOwn ==
  \A r \in Requests : txn[r].at = "inserted" =>
    /\ txn[r].token \notin SpentTokens
    /\ \A q \in Requests : txn[q].at = "inserted" /\ txn[q].token = txn[r].token => q = r

PgInv == StoreInv /\ TxnInv /\ Exclusive /\ CheckStands /\ TokensOwn

\* No transaction is under way at first.
LEMMA PgInvInit == PgInit => PgInv
BY StoreInvInit DEF PgInit, PgInv, TxnInv, TxnTypeOK, RowStable, Exclusive, CheckStands, TokensOwn, NoTxn, Locked

\* The fields a transaction has at its place.
LEMMA TxnFields ==
  ASSUME NEW x \in Txn
  PROVE  /\ x.at = "begun" => x = [at |-> "begun", code |-> x.code, key |-> x.key]
                              /\ x.code \in Codes /\ x.key \in ClientKeys
         /\ x.at \in Locked => x.row \in Pairing /\ x.key \in ClientKeys
         /\ x.at \in Locked \ {"inserted"} => x = [at |-> x.at, row |-> x.row, key |-> x.key]
         /\ x.at = "inserted" => x.token \in Tokens
         /\ x.at \in {"none", "begun"} \cup Locked
         /\ x.at = "none" => x = NoTxn
BY DEF Txn, NoTxn, Locked

\* One transaction goes on and nothing is committed: what the others hold is not new's.
LEMMA OneGoesOn ==
  ASSUME PgInv, UNCHANGED storeVars, NEW r \in Requests, NEW new \in Txn, txn' = [txn EXCEPT ![r] = new],
         new.at \in Locked => new.row \in pairings /\ \A q \in Requests \ {r} : ~Holds(q, new.row.code),
         new.at \in Locked \ {"locked"} => ~new.row.redeemed,
         new.at = "inserted" => /\ new.token \notin SpentTokens
                                /\ \A q \in Requests : txn[q].at = "inserted" => txn[q].token # new.token
  PROVE  PgInv'
<1>1. txn \in [Requests -> Txn]
  BY DEF PgInv, TxnInv, TxnTypeOK, Txn
<1>2. txn'[r] = new /\ \A q \in Requests \ {r} : txn'[q] = txn[q]
  BY <1>1
<1>3. StoreInv'
  BY DEF PgInv, storeVars, StoreInv, StoreTypeOK, KeysUnique, SingleUse, MarkedIffRedeemed, GrantsAccounted, SpentTokens
<1>4. TxnTypeOK'
  BY <1>1 DEF TxnTypeOK, Txn
<1>5. RowStable'
  BY <1>2 DEF PgInv, TxnInv, RowStable, Locked, storeVars
<1>6. Exclusive'
  BY <1>2 DEF PgInv, Exclusive, Locked, Holds
<1>7. CheckStands'
  BY <1>2 DEF PgInv, CheckStands
<1>8. SpentTokens' = SpentTokens
  BY DEF SpentTokens, storeVars
<1>9. TokensOwn'
  BY <1>2, <1>8 DEF PgInv, TokensOwn
<1> QED BY <1>3, <1>4, <1>5, <1>6, <1>7, <1>9 DEF PgInv, TxnInv

\* Commit is a redemption whose row is still the one that was checked.
LEMMA CommitRedeems ==
  ASSUME PgInv, NEW r \in Requests, Commit(r)
  PROVE  /\ txn[r].row \in pairings /\ txn[r].key \in ClientKeys \cup {NoKey} /\ txn[r].token \in Tokens
         /\ Redeems(txn[r].row, txn[r].key, txn[r].token)
<1>1. txn[r] \in Txn /\ txn[r].at = "inserted"
  BY DEF PgInv, TxnInv, TxnTypeOK, Txn, Commit
<1>2. txn[r].row \in Pairing /\ txn[r].key \in ClientKeys /\ txn[r].token \in Tokens
  BY <1>1, TxnFields DEF Locked
<1>3. txn[r].row \in pairings /\ ~txn[r].row.redeemed /\ txn[r].token \notin SpentTokens
  BY <1>1 DEF PgInv, TxnInv, RowStable, CheckStands, TokensOwn, Locked
<1>4. {q \in pairings : q.code # txn[r].row.code} = pairings \ {txn[r].row}
  BY <1>3 DEF PgInv, StoreInv, KeysUnique
<1> QED BY <1>2, <1>3, <1>4 DEF Commit, Redeems

\* After a commit the other transactions still hold what they read: their rows are others.
LEMMA CommitKeepsInv == ASSUME PgInv, NEW r \in Requests, Commit(r) PROVE PgInv'
<1> DEFINE p == txn[r].row
           t == txn[r].token
<1>1. txn \in [Requests -> Txn] /\ txn[r].at = "inserted"
  BY DEF PgInv, TxnInv, TxnTypeOK, Txn, Commit
<1>2. txn'[r] = NoTxn /\ \A q \in Requests \ {r} : txn'[q] = txn[q]
  BY <1>1 DEF Commit
<1>3. StoreInv'
  BY CommitRedeems, RedeemTypes, RedeemKeepsInv DEF PgInv, StoreInv
<1>4. TxnTypeOK'
  BY <1>1 DEF TxnTypeOK, Txn, Commit
<1>5. \A q \in Requests \ {r} : txn[q].at \in Locked => txn[q].row.code # p.code
  BY <1>1 DEF PgInv, Exclusive, Locked
<1>6. RowStable'
  BY <1>2, <1>5 DEF PgInv, TxnInv, RowStable, Locked, NoTxn, Commit
<1>7. Exclusive' /\ CheckStands'
  BY <1>2 DEF PgInv, Exclusive, CheckStands, Locked, NoTxn
<1>8. SpentTokens' = SpentTokens \cup {t}
  <2> DEFINE redemption == [code |-> p.code, accessToken |-> t]
  <2>1. redemptions' = redemptions \cup {redemption} /\ redemption.accessToken = t
    BY DEF Commit
  <2> HIDE DEF redemption
  <2> QED BY <2>1 DEF SpentTokens
<1>9. TokensOwn'
  BY <1>1, <1>2, <1>8 DEF PgInv, TokensOwn, NoTxn
<1> QED BY <1>3, <1>4, <1>6, <1>7, <1>9 DEF PgInv, TxnInv

\* The operations of one statement leave the rows that transactions hold.
LEMMA StatementKeepsInv == ASSUME UniqueCodes, PgInv, Statement PROVE PgInv'
<1>1. StoreNext
  BY DEF Statement, StoreNext
<1>2. StoreInv' /\ txn' = txn
  BY <1>1, StoreInvStep DEF PgInv, Statement
<1>3. pairings \subseteq pairings' /\ SpentTokens' = SpentTokens
  BY DEF Statement, CreatePairingCode, GetGrantByAccessToken, RevokeGrant, Tick, SpentTokens
<1>4. TxnTypeOK' /\ Exclusive' /\ CheckStands'
  BY <1>2 DEF PgInv, TxnInv, TxnTypeOK, Exclusive, CheckStands
<1>5. RowStable'
  BY <1>2, <1>3 DEF PgInv, TxnInv, RowStable
<1>6. TokensOwn'
  BY <1>2, <1>3 DEF PgInv, TokensOwn
<1> QED BY <1>2, <1>4, <1>5, <1>6 DEF PgInv, TxnInv

\* Where codes are unique every query keeps the invariant.
LEMMA PgInvStep == ASSUME UniqueCodes PROVE PgInv /\ [PgNext]_pgVars => PgInv'
<1> SUFFICES ASSUME PgInv, [PgNext]_pgVars PROVE PgInv'
  OBVIOUS
<1>0. \A q \in Requests : txn[q] \in Txn
  BY DEF PgInv, TxnInv, TxnTypeOK, Txn
<1>1. CASE Statement
  BY <1>1, StatementKeepsInv
<1>2. ASSUME NEW r \in Requests, NEW code \in Codes, NEW key \in ClientKeys, Begin(r, code, key)
      PROVE PgInv'
  <2> DEFINE new == [at |-> "begun", code |-> code, key |-> key]
  <2>1. new \in Txn /\ new.at = "begun"
    BY DEF Txn
  <2>2. txn' = [txn EXCEPT ![r] = new] /\ UNCHANGED storeVars
    BY <1>2 DEF Begin
  <2> HIDE DEF new
  <2> QED BY <2>1, <2>2, OneGoesOn DEF Locked
<1>3. ASSUME NEW r \in Requests, SelectForUpdate(r) PROVE PgInv'
  <2>1. PICK p \in pairings : /\ p.code = txn[r].code
                              /\ \A q \in Requests : ~Holds(q, p.code)
                              /\ txn' = [txn EXCEPT ![r] = [at |-> "locked", row |-> p, key |-> txn[r].key]]
    BY <1>3 DEF SelectForUpdate
  <2> DEFINE new == [at |-> "locked", row |-> p, key |-> txn[r].key]
  <2>2. txn[r].key \in ClientKeys /\ p \in Pairing
    BY <1>0, <1>3, TxnFields DEF SelectForUpdate, PgInv, StoreInv, StoreTypeOK
  <2>3. new \in Txn /\ new.at = "locked" /\ new.row = p
    BY <2>2 DEF Txn
  <2>4. txn' = [txn EXCEPT ![r] = new] /\ UNCHANGED storeVars
    BY <1>3, <2>1 DEF SelectForUpdate
  <2> HIDE DEF new
  <2> QED BY <2>1, <2>3, <2>4, OneGoesOn
<1>4. \A r, q \in Requests : txn[r].at \in Locked /\ q # r => ~Holds(q, txn[r].row.code)
  BY DEF PgInv, Exclusive, Holds, Locked
<1>5. \A r \in Requests : txn[r].at \in Locked => txn[r].row \in pairings
  BY DEF PgInv, TxnInv, RowStable, Locked
<1>6. ASSUME NEW r \in Requests, Check(r) PROVE PgInv'
  <2> DEFINE new == [at |-> "checked", row |-> txn[r].row, key |-> txn[r].key]
  <2>1. /\ txn[r].at \in Locked /\ txn[r].row \in Pairing /\ txn[r].key \in ClientKeys
        /\ txn[r] = [at |-> "locked", row |-> txn[r].row, key |-> txn[r].key]
    BY <1>0, <1>6, TxnFields DEF Check, Locked
  <2>2. new \in Txn /\ new.at = "checked" /\ new.row = txn[r].row
    BY <2>1 DEF Txn
  <2>3. [txn[r] EXCEPT !.at = "checked"] = new
    BY <2>1
  <2>4. txn' = [txn EXCEPT ![r] = new] /\ UNCHANGED storeVars /\ ~txn[r].row.redeemed
    BY <1>6, <2>3 DEF Check, Redeemable
  <2> HIDE DEF new
  <2> QED BY <1>4, <1>5, <2>1, <2>2, <2>4, OneGoesOn
<1>7. ASSUME NEW r \in Requests, MarkRedeemed(r) PROVE PgInv'
  <2> DEFINE new == [at |-> "marked", row |-> txn[r].row, key |-> txn[r].key]
  <2>1. /\ txn[r].at \in Locked /\ txn[r].row \in Pairing /\ txn[r].key \in ClientKeys
        /\ txn[r] = [at |-> "checked", row |-> txn[r].row, key |-> txn[r].key]
    BY <1>0, <1>7, TxnFields DEF MarkRedeemed, Locked
  <2>2. new \in Txn /\ new.at = "marked" /\ new.row = txn[r].row
    BY <2>1 DEF Txn
  <2>3. [txn[r] EXCEPT !.at = "marked"] = new
    BY <2>1
  <2>4. txn' = [txn EXCEPT ![r] = new] /\ UNCHANGED storeVars /\ ~txn[r].row.redeemed
    BY <1>7, <2>3 DEF MarkRedeemed, PgInv, CheckStands, Locked
  <2> HIDE DEF new
  <2> QED BY <1>4, <1>5, <2>1, <2>2, <2>4, OneGoesOn
<1>8. ASSUME NEW r \in Requests, NEW t \in Tokens, InsertGrant(r, t) PROVE PgInv'
  <2> DEFINE new == [at |-> "inserted", row |-> txn[r].row, key |-> txn[r].key, token |-> t]
  <2>1. txn[r].at \in Locked /\ txn[r].row \in Pairing /\ txn[r].key \in ClientKeys
    BY <1>0, <1>8, TxnFields DEF InsertGrant, Locked
  <2>2. new \in Txn /\ new.at = "inserted" /\ new.row = txn[r].row /\ new.token = t
    BY <2>1 DEF Txn
  <2>3. /\ txn' = [txn EXCEPT ![r] = new] /\ UNCHANGED storeVars /\ ~txn[r].row.redeemed
        /\ t \notin SpentTokens /\ \A q \in Requests : txn[q].at = "inserted" => txn[q].token # t
    BY <1>8 DEF InsertGrant, PgInv, CheckStands, Locked
  <2> HIDE DEF new
  <2> QED BY <1>4, <1>5, <2>1, <2>2, <2>3, OneGoesOn
<1>9. ASSUME NEW r \in Requests, Commit(r) PROVE PgInv'
  BY <1>9, CommitKeepsInv
<1>10. ASSUME NEW r \in Requests, Refuse(r) \/ Abort(r) PROVE PgInv'
  <2>1. NoTxn \in Txn /\ NoTxn.at = "none"
    BY DEF Txn, NoTxn
  <2>2. txn' = [txn EXCEPT ![r] = NoTxn] /\ UNCHANGED storeVars
    BY <1>10 DEF Refuse, Abort
  <2> QED BY <2>1, <2>2, OneGoesOn DEF Locked
<1>11. CASE UNCHANGED pgVars
  <2>1. UNCHANGED storeVars /\ txn' = txn
    BY <1>11 DEF pgVars, storeVars
  <2>2. StoreInv'
    BY <2>1, StoreInvStep DEF PgInv
  <2> QED BY <2>1, <2>2 DEF PgInv, TxnInv, TxnTypeOK, RowStable, Exclusive, CheckStands, TokensOwn, SpentTokens, storeVars
<1> QED BY <1>1, <1>2, <1>3, <1>6, <1>7, <1>8, <1>9, <1>10, <1>11 DEF PgNext, RedeemStep

\* What a transaction of PostgresAuthStore.redeemPairingCode read under the row lock is
\* committed still when it writes, with any number of redemptions, aborts and expiries.
THEOREM LockKeepsRow == ASSUME UniqueCodes PROVE PgSpec => []TxnInv
<1>1. PgInv => TxnInv
  BY DEF PgInv
<1> QED BY <1>1, PgInvInit, PgInvStep, PTL DEF PgSpec

\* Each commit is one redemption of the promise, every other query of a transaction none.
LEMMA PgLedgerStep ==
  ASSUME UniqueCodes, PgInv, [PgNext]_pgVars
  PROVE  [Ledger!Next]_Ledger!ledger
<1>1. CASE Statement
  <2>1. StoreNext
    BY <1>1 DEF Statement, StoreNext
  <2> QED BY <2>1, LedgerStep DEF PgInv
<1>2. ASSUME NEW r \in Requests, Commit(r) PROVE Ledger!Next
  <2>1. PICK row \in pairings, key \in ClientKeys \cup {NoKey}, t \in Tokens : Redeems(row, key, t)
    BY <1>2, CommitRedeems
  <2> DEFINE entry == [code |-> row.code, deviceId |-> row.deviceId]
  <2>2. Ledger!Redeem(entry, t)
    BY <2>1, RedeemIsLedgers DEF PgInv
  <2>3. entry \in {[code |-> q.code, deviceId |-> q.deviceId] : q \in pairings}
    OBVIOUS
  <2> HIDE DEF entry
  <2> QED BY <2>2, <2>3 DEF Ledger!Next
<1>3. CASE UNCHANGED storeVars
  <2>1. [StoreNext]_storeVars
    BY <1>3
  <2> QED BY <2>1, LedgerStep DEF PgInv
<1>4. UNCHANGED pgVars => UNCHANGED storeVars
  BY DEF pgVars, storeVars
<1> QED BY <1>1, <1>2, <1>3, <1>4
        DEF PgNext, RedeemStep, Begin, SelectForUpdate, Check, MarkRedeemed, InsertGrant, Refuse, Abort

\* The transaction of several queries implements PairingLedger: a code is redeemed once,
\* and marking and granting happen together or not at all.
THEOREM TransactionsKeepLedger == ASSUME UniqueCodes PROVE PgSpec => PgKeepsLedger
<1>1. PgInit => Ledger!Init
  BY StoreAssumption DEF PgInit, StoreInit, Ledger!Init
<1>2. PgInv /\ [PgNext]_pgVars => [Ledger!Next]_Ledger!ledger
  BY PgLedgerStep
<1> QED BY <1>1, <1>2, PgInvInit, PgInvStep, PTL DEF PgSpec, PgKeepsLedger, Ledger!Spec

-----------------------------------------------------------------------------
(***************************************************************************)
(* Relay: the connections composed with the store.                         *)
(***************************************************************************)
\* The map of agents holds each connection under the device it named.
AgentsInPlace == \A d \in Devices : agents[d] # NoConn => AgentDevice[agents[d]] = d

\* A browser in the set of clients went through admission, with a device as scope.
ClientsAdmitted ==
  /\ \A c \in clients : clientSock[c].phase = "admitted"
  /\ \A c \in ClientConns :
       clientSock[c].phase \in {"found", "admitted"} => clientSock[c].scope \in Devices

\* Routing: what the two maps say of each other.
RoutingInv ==
  /\ RelayTypeOK
  /\ AgentsInPlace
  /\ OpenAgentRegistered
  /\ ClientsAdmitted
  /\ ToldTruth

\* With a store that answers at once, an admission or a revocation that has begun
\* is the only one, and its answer from the store is still true.
Continuations ==
  ~AsyncStore =>
    /\ \A c \in ClientConns :
         clientSock[c].phase \in {"lookup", "found", "missing"} =>
           clientSock[c].ready = "open" /\ revoking = {}
    /\ \A c \in ClientConns :
         clientSock[c].phase = "found" => Granted(ClientToken[c], clientSock[c].scope)

\* The invariant behind the promise that a revoked browser is cut off.
RevocationInv ==
  /\ RoutingInv
  /\ StoreInv
  /\ Continuations
  /\ ~AsyncStore => RevokedDisconnected /\ NoGhostClient

-----------------------------------------------------------------------------
\* Each step of the relay is a step of the store or leaves its variables alone.
LEMMA StoreSimulated == [Next]_vars => [StoreNext]_storeVars
<1> SUFFICES ASSUME [Next]_vars PROVE [StoreNext]_storeVars
  OBVIOUS
<1> USE DEF StoreNext
<1>1. ASSUME NEW a \in AgentConns, AgentConnect(a) \/ AgentClose(a) PROVE UNCHANGED storeVars
  BY <1>1 DEF AgentConnect, AgentClose
<1>2. ASSUME NEW a \in AgentConns, NEW t \in Tokens, AgentMessage(a, t) PROVE UNCHANGED storeVars
  BY <1>2 DEF AgentMessage
<1>3. ASSUME NEW c \in ClientConns, ClientConnect(c) \/ ClientAdmit(c) \/ ClientRefuse(c) \/ ClientClose(c)
      PROVE UNCHANGED storeVars
  BY <1>3 DEF ClientConnect, ClientAdmit, ClientRefuse, ClientClose
<1>4. ASSUME NEW c \in ClientConns, ClientLookup(c) PROVE StoreNext
  BY <1>4, RelayAssumption DEF ClientLookup
<1>5. ASSUME NEW c \in ClientConns, NEW d \in Devices, NEW t \in Tokens, ClientMessage(c, d, t)
      PROVE UNCHANGED storeVars
  BY <1>5 DEF ClientMessage
<1>6. ASSUME NEW d \in Devices, NEW t \in Tokens, RevokeStore(d, t) PROVE StoreNext
  BY <1>6 DEF RevokeStore
<1>7. ASSUME NEW t \in Tokens, RevokeDisconnect(t) PROVE UNCHANGED storeVars
  BY <1>7 DEF RevokeDisconnect
<1>8. ASSUME NEW d \in Devices, NEW key \in AgentKeys, NEW code \in Codes, PostPairingCode(d, key, code)
      PROVE StoreNext
  BY <1>8 DEF PostPairingCode
<1>9. ASSUME NEW p \in pairings, NEW key \in ClientKeys, NEW t \in Tokens, PostRedeem(p, key, t)
      PROVE StoreNext
  BY <1>9 DEF PostRedeem
<1>10. CASE ClockTick
  BY <1>10 DEF ClockTick
<1>11. CASE UNCHANGED vars
  BY <1>11 DEF vars
<1> QED BY <1>1, <1>2, <1>3, <1>4, <1>5, <1>6, <1>7, <1>8, <1>9, <1>10, <1>11 DEF Next

LEMMA RelayStoreInv == Spec => []StoreInv
<1>1. Init => StoreInv
  BY StoreInvInit DEF Init
<1>2. StoreInv /\ [Next]_vars => StoreInv'
  BY StoreSimulated, StoreInvStep
<1> QED BY <1>1, <1>2, PTL DEF Spec

-----------------------------------------------------------------------------
LEMMA RoutingInit == Init => RoutingInv
BY RelayAssumption, StoreInvInit
   DEF Init, RoutingInv, StoreInv, RelayTypeOK, Ready, Phase, ClientSock, AgentsInPlace,
       OpenAgentRegistered, ClientsAdmitted, ToldTruth

\* A connection that takes a device over closes the one before it.
LEMMA AgentConnectRouting ==
  ASSUME RoutingInv, StoreTypeOK', NEW a \in AgentConns, AgentConnect(a)
  PROVE RoutingInv'
<1> USE RelayAssumption DEF AgentConnect, RoutingInv
<1>1. RelayTypeOK'
  BY DEF RelayTypeOK, Ready, BroadcastRelayState, Envelope
<1>2. AgentsInPlace'
  BY DEF AgentsInPlace, RelayTypeOK
<1>3. OpenAgentRegistered'
  BY DEF OpenAgentRegistered, RelayTypeOK, AgentsInPlace
<1>4. ClientsAdmitted'
  BY DEF ClientsAdmitted
<1>5. ToldTruth'
  BY DEF ToldTruth, BroadcastRelayState, Online, RelayTypeOK, ClientsAdmitted
<1> QED BY <1>1, <1>2, <1>3, <1>4, <1>5

\* A late close event leaves the successor registered.
LEMMA AgentCloseRouting ==
  ASSUME RoutingInv, StoreTypeOK', NEW a \in AgentConns, AgentClose(a)
  PROVE RoutingInv'
<1> USE RelayAssumption DEF AgentClose, RoutingInv
<1>1. RelayTypeOK'
  BY DEF RelayTypeOK, Ready, BroadcastRelayState, Envelope
<1>2. AgentsInPlace'
  BY DEF AgentsInPlace, RelayTypeOK
<1>3. OpenAgentRegistered'
  BY DEF OpenAgentRegistered, RelayTypeOK, AgentsInPlace
<1>4. ClientsAdmitted'
  BY DEF ClientsAdmitted
<1>5. ToldTruth'
  BY DEF ToldTruth, BroadcastRelayState, Online, RelayTypeOK, ClientsAdmitted
<1> QED BY <1>1, <1>2, <1>3, <1>4, <1>5

\* The steps of a browser's connection touch neither the agents nor what was told,
\* but for the admission, which tells the truth of the moment.
LEMMA ClientRouting ==
  ASSUME RoutingInv, StoreTypeOK', NEW c \in ClientConns,
         ClientConnect(c) \/ ClientLookup(c) \/ ClientAdmit(c) \/ ClientRefuse(c) \/ ClientClose(c)
  PROVE RoutingInv'
<1> USE RelayAssumption DEF RoutingInv
<1>a. \A g \in grants : g.deviceId \in Devices
  BY DEF RelayTypeOK, StoreTypeOK, Grant
<1>b. ASSUME ClientLookup(c)
      PROVE /\ clientSock[c].phase = "lookup"
            /\ clientSock' \in [ClientConns -> ClientSock]
            /\ \A x \in ClientConns : x # c => clientSock'[x] = clientSock[x]
            /\ clientSock'[c].phase \in {"found", "missing"}
            /\ clientSock'[c].phase = "found" => clientSock'[c].scope \in Devices
            /\ UNCHANGED <<agents, clients, agentReady, told, revoking>> /\ sent' = {}
  <2> USE <1>a DEF ClientSock, Ready, Phase, RelayTypeOK
  <2>1. /\ clientSock[c].phase = "lookup"
        /\ UNCHANGED <<agents, clients, agentReady, told, revoking>> /\ sent' = {}
    BY <1>b DEF ClientLookup
  <2>2. ASSUME NEW g \in grants,
               clientSock' = [clientSock EXCEPT
                                ![c] = [ready |-> @.ready, phase |-> "found", scope |-> g.deviceId]]
        PROVE /\ clientSock' \in [ClientConns -> ClientSock]
              /\ \A x \in ClientConns : x # c => clientSock'[x] = clientSock[x]
              /\ clientSock'[c].phase = "found"
              /\ clientSock'[c].scope \in Devices
    BY <2>2
  <2>3. CASE clientSock' = [clientSock EXCEPT ![c].phase = "missing"]
    BY <2>1, <2>3
  <2> QED BY <1>b, <2>1, <2>2, <2>3 DEF ClientLookup
<1>1. RelayTypeOK'
  <2> USE DEF RelayTypeOK, Ready, Phase, ClientSock
  <2>1. CASE ClientConnect(c)
    BY <2>1 DEF ClientConnect
  <2>2. CASE ClientLookup(c)
    BY <2>2, <1>b
  <2>3. CASE ClientAdmit(c)
    BY <2>3 DEF ClientAdmit, Online
  <2>4. CASE ClientRefuse(c)
    <3>1. clientSock[c] \in ClientSock /\ Closing(clientSock[c].ready) \in Ready
      BY DEF Closing
    <3> QED BY <2>4, <3>1 DEF ClientRefuse
  <2>5. CASE ClientClose(c)
    BY <2>5 DEF ClientClose
  <2> QED BY <2>1, <2>2, <2>3, <2>4, <2>5
<1>2. AgentsInPlace' /\ OpenAgentRegistered'
  BY DEF ClientConnect, ClientLookup, ClientAdmit, ClientRefuse, ClientClose,
         AgentsInPlace, OpenAgentRegistered
<1>3. ClientsAdmitted'
  <2> USE DEF ClientsAdmitted, RelayTypeOK, ClientSock
  <2>1. CASE ClientConnect(c)
    BY <2>1 DEF ClientConnect
  <2>2. CASE ClientLookup(c)
    BY <2>2, <1>b
  <2>3. CASE ClientAdmit(c)
    BY <2>3 DEF ClientAdmit
  <2>4. CASE ClientRefuse(c)
    BY <2>4 DEF ClientRefuse
  <2>5. CASE ClientClose(c)
    BY <2>5 DEF ClientClose
  <2> QED BY <2>1, <2>2, <2>3, <2>4, <2>5
<1>4. ToldTruth'
  <2> USE DEF ToldTruth, Online, ClientsAdmitted, RelayTypeOK, ClientSock
  <2>1. CASE ClientConnect(c)
    BY <2>1 DEF ClientConnect
  <2>2. CASE ClientLookup(c)
    BY <2>2, <1>b
  <2>3. CASE ClientAdmit(c)
    BY <2>3 DEF ClientAdmit
  <2>4. CASE ClientRefuse(c)
    BY <2>4 DEF ClientRefuse, Closing
  <2>5. CASE ClientClose(c)
    BY <2>5 DEF ClientClose
  <2> QED BY <2>1, <2>2, <2>3, <2>4, <2>5
<1> QED BY <1>1, <1>2, <1>3, <1>4

\* Envelopes and HTTP requests leave the maps alone; a revocation closes sockets.
LEMMA OtherRouting ==
  ASSUME RoutingInv, StoreTypeOK',
         \/ \E a \in AgentConns, t \in Tokens : AgentMessage(a, t)
         \/ \E c \in ClientConns, d \in Devices, t \in Tokens : ClientMessage(c, d, t)
         \/ \E d \in Devices, t \in Tokens : RevokeStore(d, t)
         \/ \E t \in Tokens : RevokeDisconnect(t)
         \/ \E d \in Devices, key \in AgentKeys, code \in Codes : PostPairingCode(d, key, code)
         \/ \E p \in pairings, key \in ClientKeys, t \in Tokens : PostRedeem(p, key, t)
         \/ ClockTick
         \/ UNCHANGED vars
  PROVE RoutingInv'
<1> USE RelayAssumption DEF RoutingInv
<1>1. ASSUME NEW a \in AgentConns, NEW t \in Tokens, AgentMessage(a, t) PROVE RoutingInv'
  <2>1. sent' \subseteq Envelope
    BY <1>1 DEF AgentMessage, Envelope, RelayTypeOK
  <2> QED BY <1>1, <2>1 DEF AgentMessage, RelayTypeOK, AgentsInPlace, OpenAgentRegistered,
             ClientsAdmitted, ToldTruth, Online
<1>2. ASSUME NEW c \in ClientConns, NEW d \in Devices, NEW t \in Tokens, ClientMessage(c, d, t)
      PROVE RoutingInv'
  <2>1. sent' \subseteq Envelope
    BY <1>2 DEF ClientMessage, Envelope, RelayTypeOK, Online
  <2> QED BY <1>2, <2>1 DEF ClientMessage, RelayTypeOK, AgentsInPlace, OpenAgentRegistered,
             ClientsAdmitted, ToldTruth, Online
<1>3. ASSUME NEW d \in Devices, NEW t \in Tokens, RevokeStore(d, t) PROVE RoutingInv'
  BY <1>3 DEF RevokeStore, RelayTypeOK, AgentsInPlace, OpenAgentRegistered, ClientsAdmitted,
     ToldTruth, Online
<1>4. ASSUME NEW t \in Tokens, RevokeDisconnect(t) PROVE RoutingInv'
  BY <1>4 DEF RevokeDisconnect, Closing, RelayTypeOK, Ready, Phase, ClientSock, AgentsInPlace,
     OpenAgentRegistered, ClientsAdmitted, ToldTruth, Online
<1>5. ASSUME NEW d \in Devices, NEW key \in AgentKeys, NEW code \in Codes, PostPairingCode(d, key, code)
      PROVE RoutingInv'
  BY <1>5 DEF PostPairingCode, RelayTypeOK, AgentsInPlace, OpenAgentRegistered, ClientsAdmitted,
     ToldTruth, Online
<1>6. ASSUME NEW p \in pairings, NEW key \in ClientKeys, NEW t \in Tokens, PostRedeem(p, key, t)
      PROVE RoutingInv'
  BY <1>6 DEF PostRedeem, RelayTypeOK, AgentsInPlace, OpenAgentRegistered, ClientsAdmitted,
     ToldTruth, Online
<1>7. CASE ClockTick
  BY <1>7 DEF ClockTick, RelayTypeOK, AgentsInPlace, OpenAgentRegistered, ClientsAdmitted,
     ToldTruth, Online
<1>8. CASE UNCHANGED vars
  BY <1>8 DEF vars, connVars, RelayTypeOK, AgentsInPlace, OpenAgentRegistered, ClientsAdmitted,
     ToldTruth, Online
<1> QED BY <1>1, <1>2, <1>3, <1>4, <1>5, <1>6, <1>7, <1>8

LEMMA RoutingStep == RoutingInv /\ StoreTypeOK' /\ [Next]_vars => RoutingInv'
BY AgentConnectRouting, AgentCloseRouting, ClientRouting, OtherRouting DEF Next

\* The relay's routing tables are sound: one open connection per device, which is
\* the registered one, and every open browser was told the truth about its device.
THEOREM RoutingSound == Spec => [](RelayTypeOK /\ RoutingTrue)
<1>1. StoreInv => StoreTypeOK
  BY DEF StoreInv
<1>2. RoutingInv => RelayTypeOK /\ RoutingTrue
  BY DEF RoutingInv, RoutingTrue
<1> QED BY <1>1, <1>2, RelayStoreInv, RoutingInit, RoutingStep, PTL DEF Spec

-----------------------------------------------------------------------------
\* A grant survives every step but the revocation of its own token.
LEMMA GrantKept ==
  ASSUME StoreTypeOK, [Next]_vars, NEW t, NEW d, Granted(t, d),
         \A e \in Devices : ~RevokeStore(e, t)
  PROVE Granted(t, d)'
<1> USE DEF Granted
<1>1. ASSUME NEW u \in Tokens, GetGrantByAccessToken(u) PROVE Granted(t, d)'
  <2>1. PICK g \in grants : g.accessToken = t /\ g.deviceId = d
    OBVIOUS
  <2> DEFINE h == IF g.accessToken = u THEN [g EXCEPT !.lastUsedAt = now] ELSE g
  <2>2. h.accessToken = t /\ h.deviceId = d
    BY <2>1 DEF StoreTypeOK, Grant
  <2>3. h \in grants'
    BY <1>1 DEF GetGrantByAccessToken
  <2> QED BY <2>2, <2>3
<1>2. ASSUME NEW e \in Devices, NEW u \in Tokens, RevokeStore(e, u), u # t PROVE Granted(t, d)'
  BY <1>2 DEF RevokeStore, RevokeGrant
<1>3. CASE grants \subseteq grants'
  BY <1>3
<1>4. ASSUME NEW c \in ClientConns, ClientLookup(c) PROVE Granted(t, d)'
  BY <1>1, <1>4, RelayAssumption DEF ClientLookup
<1>5. ASSUME NEW p \in pairings, NEW key \in ClientKeys, NEW u \in Tokens, PostRedeem(p, key, u)
      PROVE Granted(t, d)'
  BY <1>3, <1>5 DEF PostRedeem, RedeemPairingCode
<1>6. ASSUME NEW e \in Devices, NEW key \in AgentKeys, NEW code \in Codes, PostPairingCode(e, key, code)
      PROVE Granted(t, d)'
  BY <1>6 DEF PostPairingCode, CreatePairingCode
<1>7. CASE ClockTick
  BY <1>7 DEF ClockTick, Tick
<1>8. CASE UNCHANGED storeVars
  BY <1>8 DEF storeVars
<1> QED BY <1>2, <1>4, <1>5, <1>6, <1>7, <1>8
        DEF Next, vars, AgentConnect, AgentClose, AgentMessage, ClientConnect, ClientAdmit,
            ClientRefuse, ClientClose, ClientMessage, RevokeDisconnect

\* The step that revokes: the browsers it will cut off are those of the token
\* that is now in `revoking', and no admission is under way.
LEMMA RevokeStoreStep ==
  ASSUME RevocationInv, ~AsyncStore, NEW d \in Devices, NEW t \in Tokens, RevokeStore(d, t)
  PROVE Continuations' /\ RevokedDisconnected' /\ NoGhostClient'
<1> USE DEF RevokeStore, RevocationInv
<1>1. \A c \in ClientConns : clientSock[c].phase \notin {"lookup", "found", "missing"}
  BY DEF Idle
<1>2. \A u, e : u # t /\ Granted(u, e) => Granted(u, e)'
  BY DEF RevokeGrant, Granted
<1>3. RevokedDisconnected'
  BY <1>2 DEF RevokedDisconnected
<1> QED BY <1>1, <1>3 DEF Continuations, NoGhostClient

\* The steps of an admission, which with such a store nothing can come between.
LEMMA AdmissionStep ==
  ASSUME RevocationInv, ~AsyncStore, [Next]_vars, NEW c \in ClientConns,
         ClientConnect(c) \/ ClientLookup(c) \/ ClientAdmit(c) \/ ClientRefuse(c) \/ ClientClose(c)
  PROVE Continuations' /\ RevokedDisconnected' /\ NoGhostClient'
<1> USE DEF RevocationInv
<1>0. /\ clientSock \in [ClientConns -> ClientSock] /\ clients \subseteq ClientConns
      /\ StoreTypeOK
  BY DEF RoutingInv, RelayTypeOK
<1>a. \A t, d : Granted(t, d) => Granted(t, d)'
  <2>1. \A t, e : ~RevokeStore(e, t)
    BY DEF RevokeStore, ClientConnect, ClientLookup, ClientAdmit, ClientRefuse, ClientClose, Idle,
           Continuations, RevokeGrant, GetGrantByAccessToken, RoutingInv, ClientsAdmitted
  <2> QED BY <1>0, <2>1, GrantKept
<1>1. CASE ClientConnect(c)
  BY <1>0, <1>1, <1>a DEF ClientConnect, Idle, Continuations, RevokedDisconnected, NoGhostClient, ClientSock
<1>2. CASE ClientLookup(c)
  <2>1. /\ clientSock[c].phase = "lookup" /\ clientSock[c].ready = "open" /\ revoking = {}
        /\ c \notin clients
    BY <1>2 DEF ClientLookup, Continuations, RoutingInv, ClientsAdmitted
  <2>2. /\ \A x \in ClientConns : x # c => clientSock'[x] = clientSock[x]
        /\ clientSock'[c].ready = "open"
        /\ clientSock'[c].phase = "found" => Granted(ClientToken[c], clientSock'[c].scope)
    <3>1. ASSUME NEW g \in grants, g.accessToken = ClientToken[c],
                 clientSock' = [clientSock EXCEPT
                                  ![c] = [ready |-> @.ready, phase |-> "found", scope |-> g.deviceId]]
          PROVE <2>2
      BY <1>0, <2>1, <3>1 DEF Granted
    <3>2. CASE clientSock' = [clientSock EXCEPT ![c].phase = "missing"]
      BY <1>0, <2>1, <3>2 DEF ClientSock
    <3> QED BY <1>2, <3>1, <3>2 DEF ClientLookup
  <2>3. UNCHANGED <<clients, revoking>>
    BY <1>2 DEF ClientLookup
  <2>4. Continuations'
    BY <1>a, <2>1, <2>2, <2>3 DEF Continuations
  <2>5. RevokedDisconnected' /\ NoGhostClient'
    BY <1>0, <1>a, <2>1, <2>2, <2>3 DEF RevokedDisconnected, NoGhostClient
  <2> QED BY <2>4, <2>5
<1>3. CASE ClientAdmit(c)
  BY <1>0, <1>3, <1>a DEF ClientAdmit, Continuations, RevokedDisconnected, NoGhostClient, ClientSock
<1>4. CASE ClientRefuse(c)
  BY <1>0, <1>4, <1>a DEF ClientRefuse, Closing, Continuations, RevokedDisconnected, NoGhostClient, ClientSock
<1>5. CASE ClientClose(c)
  BY <1>0, <1>5, <1>a DEF ClientClose, Idle, Continuations, RevokedDisconnected, NoGhostClient,
     ClientSock, RoutingInv, ClientsAdmitted
<1> QED BY <1>1, <1>2, <1>3, <1>4, <1>5

LEMMA RevokeDisconnectStep ==
  ASSUME RevocationInv, ~AsyncStore, NEW t \in Tokens, RevokeDisconnect(t)
  PROVE Continuations' /\ RevokedDisconnected' /\ NoGhostClient'
<1> USE DEF RevocationInv, RevokeDisconnect
<1>0. clientSock \in [ClientConns -> ClientSock] /\ clients \subseteq ClientConns
  BY DEF RoutingInv, RelayTypeOK
<1>1. \A c \in ClientConns :
        /\ clientSock'[c].phase = clientSock[c].phase /\ clientSock'[c].scope = clientSock[c].scope
        /\ clientSock'[c].ready \in {clientSock[c].ready, "closing"}
        /\ c \in clients /\ ClientToken[c] = t => clientSock'[c].ready # "open"
        /\ clientSock'[c].ready = "open" => clientSock[c].ready = "open"
  BY <1>0 DEF Closing, ClientSock
<1>2. Continuations'
  BY <1>1 DEF Continuations, Granted, storeVars
<1>3. RevokedDisconnected' /\ NoGhostClient'
  BY <1>0, <1>1 DEF RevokedDisconnected, NoGhostClient, Granted, storeVars
<1> QED BY <1>2, <1>3

\* The steps that touch neither a browser's connection nor a revocation.
LEMMA OtherRevocation ==
  ASSUME RevocationInv, ~AsyncStore, [Next]_vars, UNCHANGED <<clients, clientSock, revoking>>,
         \A d \in Devices, t \in Tokens : ~RevokeStore(d, t)
  PROVE Continuations' /\ RevokedDisconnected' /\ NoGhostClient'
<1> USE DEF RevocationInv
<1>1. \A t \in Tokens : \A d : Granted(t, d) => Granted(t, d)'
  BY GrantKept DEF RoutingInv, RelayTypeOK
<1>2. Continuations'
  BY <1>1, RelayAssumption DEF Continuations
<1>3. RevokedDisconnected' /\ NoGhostClient'
  BY <1>1, RelayAssumption DEF RevokedDisconnected, NoGhostClient, RoutingInv, RelayTypeOK
<1> QED BY <1>2, <1>3

LEMMA RevocationStep ==
  RevocationInv /\ RoutingInv' /\ StoreInv' /\ [Next]_vars => RevocationInv'
<1> SUFFICES ASSUME RevocationInv, RoutingInv', StoreInv', [Next]_vars, ~AsyncStore
             PROVE Continuations' /\ RevokedDisconnected' /\ NoGhostClient'
  BY DEF RevocationInv, Continuations
<1>1. ASSUME NEW c \in ClientConns,
             ClientConnect(c) \/ ClientLookup(c) \/ ClientAdmit(c) \/ ClientRefuse(c) \/ ClientClose(c)
      PROVE Continuations' /\ RevokedDisconnected' /\ NoGhostClient'
  BY <1>1, AdmissionStep
<1>2. ASSUME NEW d \in Devices, NEW t \in Tokens, RevokeStore(d, t)
      PROVE Continuations' /\ RevokedDisconnected' /\ NoGhostClient'
  BY <1>2, RevokeStoreStep
<1>3. ASSUME NEW t \in Tokens, RevokeDisconnect(t)
      PROVE Continuations' /\ RevokedDisconnected' /\ NoGhostClient'
  BY <1>3, RevokeDisconnectStep
<1>4. CASE /\ UNCHANGED <<clients, clientSock, revoking>>
           /\ \A d \in Devices, t \in Tokens : ~RevokeStore(d, t)
  BY <1>4, OtherRevocation
<1>5. ASSUME ~\E d \in Devices, t \in Tokens : RevokeStore(d, t),
             ~\E t \in Tokens : RevokeDisconnect(t),
             ~\E c \in ClientConns :
                ClientConnect(c) \/ ClientLookup(c) \/ ClientAdmit(c) \/ ClientRefuse(c) \/ ClientClose(c)
      PROVE UNCHANGED <<clients, clientSock, revoking>>
  BY <1>5 DEF Next, vars, connVars, AgentConnect, AgentClose, AgentMessage, ClientMessage,
     PostPairingCode, PostRedeem, ClockTick
<1> QED BY <1>1, <1>2, <1>3, <1>4, <1>5

\* With the memory and SQLite stores, whatever the interleaving of admissions,
\* revocations, closes and redemptions, no admitted browser keeps an open socket
\* after its grant was revoked, and none that is gone stays among the clients.
THEOREM RevocationCutsOff ==
  ASSUME ~AsyncStore
  PROVE Spec => []CutOff
<1>1. Init => RevocationInv
  BY RoutingInit, StoreInvInit
     DEF Init, RevocationInv, Continuations, RevokedDisconnected, NoGhostClient
<1>2. RevocationInv /\ [Next]_vars => RevocationInv'
  <2>1. StoreInv /\ [Next]_vars => StoreInv'
    BY StoreSimulated, StoreInvStep
  <2>2. StoreInv' => StoreTypeOK'
    BY DEF StoreInv
  <2>3. RevocationInv => RoutingInv /\ StoreInv
    BY DEF RevocationInv
  <2> QED BY <2>1, <2>2, <2>3, RoutingStep, RevocationStep
<1>3. RevocationInv => CutOff
  BY DEF RevocationInv, CutOff
<1> QED BY <1>1, <1>2, <1>3, PTL DEF Spec

-----------------------------------------------------------------------------
\* A grant with a browser key, and the scope of a browser that was found or
\* admitted, go back to a code issued for the device.
ScopesPaired ==
  /\ \A g \in grants : g.clientPublicKey # NoKey => <<g.accessToken, g.deviceId>> \in Paired
  /\ \A c \in ClientConns :
       clientSock[c].phase \in {"found", "admitted"} => <<ClientToken[c], clientSock[c].scope>> \in Paired

\* An admitted browser is listed until the close event of its socket.
AdmittedListed ==
  \A c \in ClientConns : clientSock[c].phase = "admitted" => c \in clients \/ clientSock[c].ready = "closed"

ScopeInv == RoutingInv /\ StoreInv /\ ScopesPaired /\ AdmittedListed /\ RoutedInScope

\* Where codes are unique, what a token was paired with never changes.
LEMMA PairingKept ==
  ASSUME UniqueCodes, StoreInv, [StoreNext]_storeVars
  PROVE Paired \subseteq Paired'
<1> SUFFICES ASSUME NEW td \in Paired PROVE td \in Paired'
  OBVIOUS
<1>0. td \in Tokens \X Devices
  BY DEF Paired
<1>1. PICK r \in redemptions, p \in pairings : r.accessToken = td[1] /\ r.code = p.code /\ p.deviceId = td[2]
  BY DEF Paired
<1>2. r \in redemptions'
  BY DEF StoreNext, CreatePairingCode, RedeemPairingCode, GetGrantByAccessToken, RevokeGrant, Tick, storeVars
<1>3. \E q \in pairings' : q.code = p.code /\ q.deviceId = p.deviceId
  <2>1. ASSUME NEW e \in Devices, NEW key \in AgentKeys \cup {NoKey}, NEW code \in Codes,
               CreatePairingCode(e, key, code)
        PROVE p \in pairings'
    BY <2>1 DEF CreatePairingCode
  <2>2. ASSUME NEW o \in pairings, NEW key \in ClientKeys \cup {NoKey}, NEW u \in Tokens,
               RedeemPairingCode(o, key, u)
        PROVE \E q \in pairings' : q.code = p.code /\ q.deviceId = p.deviceId
    <3> DEFINE marked == [o EXCEPT !.redeemed = TRUE]
    <3>1. marked.code = o.code /\ marked.deviceId = o.deviceId
      BY DEF StoreInv, StoreTypeOK, Pairing
    <3>2. pairings' = (pairings \ {o}) \cup {marked}
      BY <2>2 DEF RedeemPairingCode
    <3> QED BY <3>1, <3>2
  <2>3. CASE pairings' = pairings
    BY <2>3
  <2> QED BY <2>1, <2>2, <2>3 DEF StoreNext, GetGrantByAccessToken, RevokeGrant, Tick, storeVars
<1> QED BY <1>0, <1>1, <1>2, <1>3 DEF Paired

LEMMA GrantsPairedStep ==
  ASSUME UniqueCodes, ScopeInv, [StoreNext]_storeVars
  PROVE \A g \in grants' : g.clientPublicKey # NoKey => <<g.accessToken, g.deviceId>> \in Paired'
<1> USE DEF ScopeInv
<1>0. Paired \subseteq Paired'
  BY PairingKept
<1>1. ASSUME NEW p \in pairings, NEW key \in ClientKeys \cup {NoKey}, NEW t \in Tokens,
             RedeemPairingCode(p, key, t), NEW g \in grants', g.clientPublicKey # NoKey
      PROVE <<g.accessToken, g.deviceId>> \in Paired'
  <2> DEFINE marked == [p EXCEPT !.redeemed = TRUE]
             grant == [accessToken |-> t, deviceId |-> p.deviceId,
                       clientPublicKey |-> key, lastUsedAt |-> now]
             redemption == [code |-> p.code, accessToken |-> t]
  <2>1. marked \in pairings' /\ redemption \in redemptions' /\ grants' = grants \cup {grant}
    BY <1>1 DEF RedeemPairingCode
  <2>2. marked.code = p.code /\ marked.deviceId = p.deviceId
    BY DEF StoreInv, StoreTypeOK, Pairing
  <2>3. redemption.code = p.code /\ redemption.accessToken = t
        /\ grant.accessToken = t /\ grant.deviceId = p.deviceId
    OBVIOUS
  <2>4. <<t, p.deviceId>> \in Tokens \X Devices
    BY DEF StoreInv, StoreTypeOK, Pairing
  <2> HIDE DEF marked, grant, redemption
  <2>5. <<t, p.deviceId>> \in Paired'
    BY <2>1, <2>2, <2>3, <2>4 DEF Paired
  <2> QED BY <1>0, <1>1, <2>1, <2>3, <2>5 DEF ScopesPaired
<1>2. ASSUME NEW t \in Tokens, GetGrantByAccessToken(t), NEW h \in grants', h.clientPublicKey # NoKey
      PROVE <<h.accessToken, h.deviceId>> \in Paired'
  <2>1. PICK g \in grants : h = IF g.accessToken = t THEN [g EXCEPT !.lastUsedAt = now] ELSE g
    BY <1>2 DEF GetGrantByAccessToken
  <2>2. /\ h.accessToken = g.accessToken /\ h.deviceId = g.deviceId
        /\ h.clientPublicKey = g.clientPublicKey
    BY <2>1 DEF StoreInv, StoreTypeOK, Grant
  <2> QED BY <1>0, <1>2, <2>2 DEF ScopesPaired
<1>3. CASE grants' \subseteq grants
  BY <1>0, <1>3 DEF ScopesPaired
<1> QED BY <1>1, <1>2, <1>3 DEF StoreNext, CreatePairingCode, RevokeGrant, Tick, storeVars

\* A browser comes to be found by a grant with a key, so by one that was paired.
LEMMA ScopesPairedStep ==
  ASSUME UniqueCodes, ScopeInv, [Next]_vars
  PROVE ScopesPaired'
<1> DEFINE known(x) == clientSock[x].phase \in {"found", "admitted"}
<1> USE DEF ScopeInv
<1>0. [StoreNext]_storeVars
  BY StoreSimulated
<1>1. Paired \subseteq Paired'
  BY <1>0, PairingKept
<1>2. clientSock \in [ClientConns -> ClientSock]
  BY DEF RoutingInv, RelayTypeOK
<1>3. ASSUME NEW c \in ClientConns, ClientLookup(c), NEW x \in ClientConns, known(x)'
      PROVE <<ClientToken[x], clientSock'[x].scope>> \in Paired'
  <2>1. CASE clientSock' = [clientSock EXCEPT ![c].phase = "missing"]
    <3>1. x # c
      BY <1>2, <1>3, <2>1 DEF ClientSock
    <3> QED BY <1>1, <1>2, <1>3, <2>1, <3>1 DEF ScopesPaired
  <2>2. ASSUME NEW g \in grants, g.accessToken = ClientToken[c], g.clientPublicKey # NoKey,
               clientSock' = [clientSock EXCEPT
                                ![c] = [ready |-> @.ready, phase |-> "found", scope |-> g.deviceId]]
        PROVE <<ClientToken[x], clientSock'[x].scope>> \in Paired'
    <3>1. CASE x = c
      <4>1. clientSock'[x].scope = g.deviceId
        BY <1>2, <2>2, <3>1 DEF ClientSock
      <4> QED BY <1>1, <2>2, <3>1, <4>1 DEF ScopesPaired
    <3>2. CASE x # c
      <4>1. clientSock'[x] = clientSock[x]
        BY <1>2, <2>2, <3>2
      <4> QED BY <1>1, <1>3, <4>1 DEF ScopesPaired
    <3> QED BY <3>1, <3>2
  <2> QED BY <1>3, <2>1, <2>2 DEF ClientLookup
<1>4. ASSUME NEW c \in ClientConns, ClientConnect(c) \/ ClientAdmit(c) \/ ClientRefuse(c) \/ ClientClose(c),
             NEW x \in ClientConns, known(x)'
      PROVE known(x) /\ clientSock'[x].scope = clientSock[x].scope
  <2> USE <1>2, <1>4 DEF ClientSock
  <2>1. CASE ClientConnect(c)
    BY <2>1 DEF ClientConnect
  <2>2. CASE ClientAdmit(c)
    BY <2>2 DEF ClientAdmit
  <2>3. CASE ClientRefuse(c)
    BY <2>3 DEF ClientRefuse
  <2>4. CASE ClientClose(c)
    BY <2>4 DEF ClientClose
  <2> QED BY <2>1, <2>2, <2>3, <2>4
<1>5. ASSUME NEW t \in Tokens, RevokeDisconnect(t), NEW x \in ClientConns, known(x)'
      PROVE known(x) /\ clientSock'[x].scope = clientSock[x].scope
  BY <1>2, <1>5 DEF RevokeDisconnect, ClientSock
<1>6. ASSUME UNCHANGED clientSock, NEW x \in ClientConns, known(x)'
      PROVE known(x) /\ clientSock'[x].scope = clientSock[x].scope
  BY <1>6
<1>7. ASSUME NEW x \in ClientConns, known(x)', known(x) /\ clientSock'[x].scope = clientSock[x].scope
      PROVE <<ClientToken[x], clientSock'[x].scope>> \in Paired'
  BY <1>1, <1>7 DEF ScopesPaired
<1>8. ASSUME NEW x \in ClientConns, known(x)' PROVE <<ClientToken[x], clientSock'[x].scope>> \in Paired'
  <2> HIDE DEF known
  <2>1. CASE \E c \in ClientConns : ClientLookup(c)
    BY <1>3, <1>8, <2>1
  <2>2. CASE \E c \in ClientConns : ClientConnect(c) \/ ClientAdmit(c) \/ ClientRefuse(c) \/ ClientClose(c)
    BY <1>4, <1>7, <1>8, <2>2
  <2>3. CASE \E t \in Tokens : RevokeDisconnect(t)
    BY <1>5, <1>7, <1>8, <2>3
  <2>4. CASE UNCHANGED clientSock
    BY <1>6, <1>7, <1>8, <2>4
  <2> QED
    BY <2>1, <2>2, <2>3, <2>4
       DEF Next, vars, connVars, AgentConnect, AgentClose, AgentMessage, ClientMessage, RevokeStore,
           PostPairingCode, PostRedeem, ClockTick
<1> QED BY <1>0, <1>8, GrantsPairedStep DEF ScopesPaired

LEMMA ListedStep ==
  ASSUME ScopeInv, [Next]_vars
  PROVE AdmittedListed'
<1> USE DEF AdmittedListed
<1>1. clientSock \in [ClientConns -> ClientSock] /\ AdmittedListed
  BY DEF ScopeInv, RoutingInv, RelayTypeOK
<1>2. ASSUME NEW c \in ClientConns, ClientConnect(c) PROVE AdmittedListed'
  BY <1>1, <1>2 DEF ClientConnect, ClientSock
<1>3. ASSUME NEW c \in ClientConns, ClientLookup(c) PROVE AdmittedListed'
  BY <1>1, <1>3 DEF ClientLookup, ClientSock
<1>4. ASSUME NEW c \in ClientConns, ClientAdmit(c) PROVE AdmittedListed'
  BY <1>1, <1>4 DEF ClientAdmit, ClientSock
<1>5. ASSUME NEW c \in ClientConns, ClientRefuse(c) PROVE AdmittedListed'
  BY <1>1, <1>5 DEF ClientRefuse, ClientSock
<1>6. ASSUME NEW c \in ClientConns, ClientClose(c) PROVE AdmittedListed'
  BY <1>1, <1>6 DEF ClientClose, ClientSock
<1>7. ASSUME NEW t \in Tokens, RevokeDisconnect(t) PROVE AdmittedListed'
  BY <1>1, <1>7 DEF RevokeDisconnect, ClientSock, Closing
<1>8. CASE UNCHANGED <<clients, clientSock>>
  BY <1>1, <1>8
<1> QED BY <1>2, <1>3, <1>4, <1>5, <1>6, <1>7, <1>8
        DEF Next, vars, connVars, AgentConnect, AgentClose, AgentMessage, ClientMessage, RevokeStore,
            PostPairingCode, PostRedeem, ClockTick

\* Both directions of routing use the maps, so the envelope is in the scope they state.
LEMMA RoutedStep ==
  ASSUME UniqueCodes, ScopeInv, [Next]_vars
  PROVE RoutedInScope'
<1> USE RelayAssumption DEF ScopeInv
<1>0. Paired \subseteq Paired'
  BY StoreSimulated, PairingKept
<1>1. ASSUME NEW a \in AgentConns, NEW t \in Tokens, AgentMessage(a, t), NEW e \in sent'
      PROVE /\ <<e.token, e.deviceId>> \in Paired' /\ e.type = "secure.agent"
            /\ agents'[e.deviceId] = e.from /\ e.to \in clients' /\ ClientToken[e.to] = e.token
  <2>1. PICK c \in clients :
          /\ ClientToken[c] = t /\ clientSock[c].scope = AgentDevice[a]
          /\ e = [type |-> "secure.agent", to |-> c, from |-> a, deviceId |-> AgentDevice[a], token |-> t]
    BY <1>1 DEF AgentMessage
  <2>2. c \in ClientConns /\ clientSock[c].phase = "admitted"
    BY DEF RoutingInv, ClientsAdmitted, RelayTypeOK
  <2>3. <<t, AgentDevice[a]>> \in Paired'
    BY <1>0, <2>1, <2>2 DEF ScopesPaired
  <2>4. agents[AgentDevice[a]] = a /\ UNCHANGED <<agents, clients>>
    BY <1>1 DEF AgentMessage
  <2> QED BY <2>1, <2>3, <2>4
<1>2. ASSUME NEW c \in ClientConns, NEW d \in Devices, NEW t \in Tokens, ClientMessage(c, d, t), NEW e \in sent'
      PROVE /\ <<e.token, e.deviceId>> \in Paired' /\ e.type = "secure.client"
            /\ agents'[e.deviceId] = e.to /\ e.from \in clients' /\ ClientToken[e.from] = e.token
  <2>1. clientSock[c].phase = "admitted" /\ UNCHANGED <<agents, clients>>
    BY <1>2 DEF ClientMessage
  <2>2. <<ClientToken[c], clientSock[c].scope>> \in Paired'
    BY <1>0, <2>1 DEF ScopesPaired
  <2>3. c \in clients \/ clientSock[c].ready = "closed"
    BY <2>1 DEF AdmittedListed
  <2>4. /\ d = clientSock[c].scope /\ clientSock[c].ready \in {"open", "closing"}
        /\ e = [type |-> "secure.client", to |-> agents[d], from |-> c, deviceId |-> d,
                token |-> ClientToken[c]]
    BY <1>2 DEF ClientMessage
  <2> QED BY <2>1, <2>2, <2>3, <2>4
<1>3. CASE sent' = {}
  BY <1>3 DEF RoutedInScope
<1>4. CASE UNCHANGED vars
  BY <1>0, <1>4 DEF vars, connVars, RoutedInScope
<1>5. ASSUME NEW a \in AgentConns, NEW t \in Tokens, AgentMessage(a, t) PROVE RoutedInScope'
  BY <1>1, <1>5 DEF RoutedInScope
<1>6. ASSUME NEW c \in ClientConns, NEW d \in Devices, NEW t \in Tokens, ClientMessage(c, d, t)
      PROVE RoutedInScope'
  BY <1>2, <1>6 DEF RoutedInScope
<1> QED BY <1>3, <1>4, <1>5, <1>6
        DEF Next, AgentConnect, AgentClose, ClientConnect, ClientLookup, ClientAdmit, ClientRefuse,
            ClientClose, RevokeStore, RevokeDisconnect, PostPairingCode, PostRedeem, ClockTick

\* An envelope reaches only a browser, or comes only from one, whose token was made
\* from a code issued for the very device the envelope names (server.ts
\* handleAgentMessage, handleClientMessage), where codes are primary keys.
THEOREM RoutingInScope == ASSUME UniqueCodes PROVE Spec => []RoutedInScope
<1>1. Init => ScopeInv
  <2> SUFFICES ASSUME Init PROVE ScopeInv
    OBVIOUS
  <2>1. RoutingInv /\ StoreInv
    BY RoutingInit, StoreInvInit DEF Init
  <2>2. ScopesPaired
    BY StoreAssumption DEF Init, StoreInit, ScopesPaired
  <2>3. AdmittedListed /\ RoutedInScope
    BY DEF Init, AdmittedListed, RoutedInScope
  <2> QED BY <2>1, <2>2, <2>3 DEF ScopeInv
<1>2. ScopeInv /\ [Next]_vars => ScopeInv'
  <2> SUFFICES ASSUME ScopeInv, [Next]_vars PROVE ScopeInv'
    OBVIOUS
  <2>1. StoreInv'
    BY StoreSimulated, StoreInvStep DEF ScopeInv
  <2>2. RoutingInv'
    BY <2>1, RoutingStep DEF ScopeInv, StoreInv
  <2> QED BY <2>1, <2>2, ScopesPairedStep, ListedStep, RoutedStep DEF ScopeInv
<1>3. ScopeInv => RoutedInScope
  BY DEF ScopeInv
<1> QED BY <1>1, <1>2, <1>3, PTL DEF Spec
=============================================================================
