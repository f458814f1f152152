--------------------------- MODULE PairingLedger ---------------------------
(***************************************************************************)
(* What the relay's pairing store promises, whatever backend keeps it: a   *)
(* pairing code is issued for one device, is turned into at most one       *)
(* access token, that token is granted exactly the code's device, and a    *)
(* grant that was revoked never comes back.  The interface AuthStore of    *)
(* relay/src/auth-store.ts is this promise; AuthStore.tla (memory and      *)
(* SQLite) and PgAuthStore.tla (PostgreSQL transactions) are shown to keep *)
(* it.                                                                     *)
(***************************************************************************)
EXTENDS Integers

CONSTANTS Devices, Codes, Tokens

VARIABLES
  issued,     \* codes handed out: set of [code, deviceId]
  redeemed,   \* codes turned into tokens: set of [code, accessToken]
  granted     \* grants in force: set of [accessToken, deviceId]

ledger == <<issued, redeemed, granted>>

Issue(d, code) ==
  /\ \A p \in issued : p.code # code
  /\ issued' = issued \cup {[code |-> code, deviceId |-> d]}
  /\ UNCHANGED <<redeemed, granted>>

Redeem(p, t) ==
  /\ p \in issued
  /\ \A r \in redeemed : r.code # p.code /\ r.accessToken # t
  /\ \A g \in granted : g.accessToken # t
  /\ redeemed' = redeemed \cup {[code |-> p.code, accessToken |-> t]}
  /\ granted' = granted \cup {[accessToken |-> t, deviceId |-> p.deviceId]}
  /\ UNCHANGED issued

Revoke(g) ==
  /\ g \in granted
  /\ granted' = granted \ {g}
  /\ UNCHANGED <<issued, redeemed>>

Init ==
  /\ issued = {}
  /\ redeemed = {}
  /\ granted \in SUBSET [accessToken : Tokens, deviceId : Devices]

Next ==
  \/ \E d \in Devices, code \in Codes : Issue(d, code)
  \/ \E p \in issued, t \in Tokens : Redeem(p, t)
  \/ \E g \in granted : Revoke(g)

Spec == Init /\ [][Next]_ledger
=============================================================================
