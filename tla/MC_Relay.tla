------------------------------ MODULE MC_Relay ------------------------------
EXTENDS Relay, TLC

CONSTANTS phone, laptop, t1, t2, t3, a1, a2, a3, b1, b2

\* Two connections of the laptop's agent, one of another device's; two browsers
\* with tokens of their own; t3 is a grant left by a relay without key columns.
MCAgentDevice == (a1 :> laptop) @@ (a2 :> laptop) @@ (a3 :> phone)
MCClientToken == (b1 :> t1) @@ (b2 :> t2)
MCLegacyGrants == {}
MCLegacyToken == (b1 :> t1) @@ (b2 :> t3)
MCLegacyRow == {[accessToken |-> t3, deviceId |-> laptop, clientPublicKey |-> NoKey, lastUsedAt |-> 0]}
=============================================================================
