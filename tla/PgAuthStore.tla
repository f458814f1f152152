---------------------------- MODULE PgAuthStore ----------------------------
(***************************************************************************)
(* PostgresAuthStore of relay/src/auth-store.ts.  Every operation but one  *)
(* is a single statement, which the database runs as one step; redemption  *)
(* is a transaction of several queries on a connection of its own, so two  *)
(* redemptions of one code, an expiry, a revocation, a lost connection or  *)
(* a stopped relay can fall between any two of them.                       *)
(*                                                                         *)
(* Writes of an open transaction are not visible to others: they are the   *)
(* transaction's own `at' until Commit makes both of them at once.         *)
(***************************************************************************)
EXTENDS AuthStore

CONSTANT Requests   \* redeem requests in progress at the same time

VARIABLE txn        \* request -> its transaction

pgVars == <<pairings, grants, now, redemptions, txn>>

NoTxn == [at |-> "none"]

\* Mutant of Holds: the select is made without `for update'.
HoldsNothing(r, code) == FALSE

\* The row a transaction holds with `for update'.
Holds(r, code) == txn[r].at \in {"locked", "checked", "marked", "inserted"} /\ txn[r].row.code = code

PgInit == StoreInit /\ txn = [r \in Requests |-> NoTxn]

\* POST /api/pairings/redeem: a connection of the pool and `begin'.
Begin(r, code, key) ==
  /\ txn[r] = NoTxn
  /\ txn' = [txn EXCEPT ![r] = [at |-> "begun", code |-> code, key |-> key]]
  /\ UNCHANGED storeVars

\* select ... for update: waits for the row's holder, then reads the row as committed.
SelectForUpdate(r) ==
  /\ txn[r].at = "begun"
  /\ \E p \in pairings :
       /\ p.code = txn[r].code
       /\ \A q \in Requests : ~Holds(q, p.code)
       /\ txn' = [txn EXCEPT ![r] = [at |-> "locked", row |-> p, key |-> txn[r].key]]
  /\ UNCHANGED storeVars

\* The conditions are evaluated when the answer reaches the relay.
Check(r) ==
  /\ txn[r].at = "locked"
  /\ Redeemable(txn[r].row, txn[r].key)
  /\ txn' = [txn EXCEPT ![r].at = "checked"]
  /\ UNCHANGED storeVars

\* update relay_pairing_codes set redeemed_at = now()
MarkRedeemed(r) ==
  /\ txn[r].at = "checked"
  /\ txn' = [txn EXCEPT ![r].at = "marked"]
  /\ UNCHANGED storeVars

\* insert into relay_client_grants
InsertGrant(r, t) ==
  /\ txn[r].at = "marked"
  /\ t \notin SpentTokens
  /\ \A q \in Requests : txn[q].at = "inserted" => txn[q].token # t
  /\ txn' = [txn EXCEPT ![r] = [at |-> "inserted", row |-> txn[r].row, key |-> txn[r].key, token |-> t]]
  /\ UNCHANGED storeVars

Commit(r) ==
  /\ txn[r].at = "inserted"
  /\ LET p == txn[r].row
         t == txn[r].token
     IN  /\ pairings' = {q \in pairings : q.code # p.code} \cup {[p EXCEPT !.redeemed = TRUE]}
         /\ grants' = grants \cup {[accessToken |-> t, deviceId |-> p.deviceId,
                                    clientPublicKey |-> txn[r].key, lastUsedAt |-> now]}
         /\ redemptions' = redemptions \cup {[code |-> p.code, accessToken |-> t]}
  /\ txn' = [txn EXCEPT ![r] = NoTxn]
  /\ UNCHANGED now

\* Mutant of Refuse: a code that does not exist is not answered.
RefuseOnlyRows(r) ==
  /\ txn[r].at = "locked" /\ ~Redeemable(txn[r].row, txn[r].key)
  /\ txn' = [txn EXCEPT ![r] = NoTxn]
  /\ UNCHANGED storeVars

\* rollback: the row is missing or fails the conditions ...
Refuse(r) ==
  /\ \/ txn[r].at = "begun" /\ \A p \in pairings : p.code # txn[r].code
     \/ txn[r].at = "locked" /\ ~Redeemable(txn[r].row, txn[r].key)
  /\ txn' = [txn EXCEPT ![r] = NoTxn]
  /\ UNCHANGED storeVars

\* ... or a query fails, the connection is lost or the relay stops at any point.
Abort(r) ==
  /\ txn[r] # NoTxn
  /\ txn' = [txn EXCEPT ![r] = NoTxn]
  /\ UNCHANGED storeVars

RedeemStep(r) ==
  \/ SelectForUpdate(r)
  \/ Check(r)
  \/ MarkRedeemed(r)
  \/ \E t \in Tokens : InsertGrant(r, t)
  \/ Commit(r)
  \/ Refuse(r)

\* A delete or an update of one statement and the single-statement operations.
Statement ==
  /\ \/ \E d \in Devices, key \in AgentKeys \cup {NoKey}, code \in Codes : CreatePairingCode(d, key, code)
     \/ \E t \in Tokens : GetGrantByAccessToken(t)
     \/ \E d \in Devices, t \in Tokens : RevokeGrant(d, t)
     \/ Tick
  /\ UNCHANGED txn

PgNext ==
  \/ Statement
  \/ \E r \in Requests, code \in Codes, key \in ClientKeys : Begin(r, code, key)
  \/ \E r \in Requests : RedeemStep(r)
  \/ \E r \in Requests : Abort(r)

PgSpec == PgInit /\ [][PgNext]_pgVars

\* The database answers a query that waits for nothing, and hands a row lock
\* that is released again and again to each of its waiters in turn.
PgFairSpec ==
  /\ PgSpec
  /\ \A r \in Requests : WF_pgVars(RedeemStep(r)) /\ SF_pgVars(SelectForUpdate(r))

-----------------------------------------------------------------------------
\* A transaction's fields are there when its place says so.
TxnTypeOK ==
  txn \in [Requests ->
    {NoTxn}
    \cup [at : {"begun"}, code : Codes, key : ClientKeys]
    \cup [at : {"locked", "checked", "marked"}, row : Pairing, key : ClientKeys]
    \cup [at : {"inserted"}, row : Pairing, key : ClientKeys, token : Tokens]]

\* What a transaction read under the lock is still what is committed when it
\* writes: `for update' keeps a second redemption of the code out, so the
\* check of redeemed_at cannot be stale.
RowStable ==
  \A r \in Requests :
    txn[r].at \in {"locked", "checked", "marked", "inserted"} => txn[r].row \in pairings

\* Both: a transaction writes what it has, on a check that still holds.
TxnInv == TxnTypeOK /\ RowStable

\* The transaction of several queries keeps the promise of the store: a code is
\* redeemed once, marking and granting happen together or not at all.
PgKeepsLedger == Ledger!Spec

\* A redemption that was begun is answered: waiting for the lock never lasts.
RedemptionAnswered == \A r \in Requests : txn[r] # NoTxn ~> txn[r] = NoTxn
=============================================================================
