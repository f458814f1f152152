------------------------ MODULE AppConnection_proofs ------------------------
(***************************************************************************)
(* One connection, whose phase the page tells, for any number of sockets,  *)
(* timers and acts; and, if older sockets close before younger ones, no    *)
(* timer beside the one in the ref, no page that waits for nobody, and no  *)
(* binding lost that was not revoked.                                      *)
(***************************************************************************)
EXTENDS AppConnection, SequenceTheorems, WellFoundedInduction, TLAPS

\* What may still come of a socket in each state.
Fits(e, state) ==
  \/ state = "gone" /\ e = <<>>
  \/ state = "connecting" /\ \/ e = <<>> \/ e = <<"open">>
                              \/ e = <<"open", "AUTH_FAILED", "close">>
                              \/ e = <<"open", "AUTH_REVOKED", "close">>
  \/ state = "open" /\ (e = <<>> \/ e = <<"AUTH_FAILED", "close">> \/ e = <<"AUTH_REVOKED", "close">>)
  \/ state # "gone" /\ e = <<"close">>

\* What tells of a revocation.
Revoking == {<<"open", "AUTH_REVOKED", "close">>, <<"AUTH_REVOKED", "close">>}

\* The events of a socket as the handlers and the relay find them: what comes
\* first tells the state and what is left.
LEMMA EventsCome ==
  ASSUME NEW e, NEW st \in {"gone", "connecting", "open", "closing"}, Fits(e, st)
  PROVE  /\ e \in Seq(Events)
         /\ e # <<>> /\ Head(e) = "open" =>
              st = "connecting" /\ Fits(Tail(e), "open") /\ (Tail(e) \in Revoking <=> e \in Revoking)
         /\ e # <<>> /\ Head(e) = "AUTH_FAILED" => st = "open" /\ Tail(e) = <<"close">>
         /\ e # <<>> /\ Head(e) = "AUTH_REVOKED" => st = "open" /\ Tail(e) = <<"close">> /\ e \in Revoking
         /\ e # <<>> /\ Head(e) = "close" => st # "gone"
<1>1. CASE e = <<>>
  BY <1>1 DEF Fits
<1>2. CASE st = "connecting" /\ e = <<"open">>
  BY <1>2 DEF Fits, Revoking, Events
<1>3. CASE st = "connecting" /\ e = <<"open", "AUTH_FAILED", "close">>
  <2>1. Tail(e) = <<"AUTH_FAILED", "close">> /\ Head(e) = "open" /\ e \in Seq(Events)
    BY <1>3 DEF Events
  <2>2. e \notin Revoking /\ <<"AUTH_FAILED", "close">> \notin Revoking
    BY <1>3 DEF Revoking
  <2> QED BY <1>3, <2>1, <2>2 DEF Fits
<1>4. CASE st = "connecting" /\ e = <<"open", "AUTH_REVOKED", "close">>
  <2>1. Tail(e) = <<"AUTH_REVOKED", "close">> /\ Head(e) = "open" /\ e \in Seq(Events)
    BY <1>4 DEF Events
  <2> QED BY <1>4, <2>1 DEF Fits, Revoking
<1>5. CASE st = "open" /\ e = <<"AUTH_FAILED", "close">>
  BY <1>5 DEF Events
<1>6. CASE st = "open" /\ e = <<"AUTH_REVOKED", "close">>
  BY <1>6 DEF Events, Revoking
<1>7. CASE st # "gone" /\ e = <<"close">>
  BY <1>7 DEF Events
<1> QED BY <1>1, <1>2, <1>3, <1>4, <1>5, <1>6, <1>7 DEF Fits

\* What is written to a socket's events keeps them possible.
LEMMA EventsWritten ==
  /\ Fits(<<>>, "gone") /\ Fits(<<>>, "connecting")
  /\ Fits(<<"open">>, "connecting") /\ Fits(<<"open", "AUTH_FAILED", "close">>, "connecting")
  /\ \A st \in {"connecting", "open", "closing"} : Fits(<<"close">>, st)
  /\ {<<>>, <<"open">>, <<"open", "AUTH_FAILED", "close">>, <<"close">>} \cap Revoking = {}
<1>1. /\ Fits(<<>>, "gone") /\ Fits(<<>>, "connecting")
      /\ Fits(<<"open">>, "connecting") /\ Fits(<<"open", "AUTH_FAILED", "close">>, "connecting")
      /\ \A st \in {"connecting", "open", "closing"} : Fits(<<"close">>, st)
  BY DEF Fits
<1>2. {<<>>, <<"open">>, <<"open", "AUTH_FAILED", "close">>, <<"close">>} \cap Revoking = {}
  BY DEF Revoking
<1> QED BY <1>1, <1>2

\* Two events behind one.
LEMMA ConcatThree ==
  ASSUME NEW S, NEW a \in Seq(S), NEW b \in Seq(S), NEW c \in Seq(S),
         Len(a) = 1, Len(b) = 2, Len(c) = 3, c[1] = a[1], c[2] = b[1], c[3] = b[2]
  PROVE  a \o b = c
<1>1. /\ a \o b \in Seq(S) /\ Len(a \o b) = Len(a) + Len(b)
      /\ \A i \in 1..Len(a) + Len(b) : (a \o b)[i] = IF i <= Len(a) THEN a[i] ELSE b[i - Len(a)]
  BY ConcatProperties
<1>2. (a \o b)[1] = a[1] /\ (a \o b)[2] = b[1] /\ (a \o b)[3] = b[2]
  BY <1>1
<1>3. \A i \in 1..3 : (a \o b)[i] = c[i]
  <2>1. \A i \in 1..3 : i = 1 \/ i = 2 \/ i = 3
    OBVIOUS
  <2> QED BY <1>2, <2>1
<1> QED BY <1>1, <1>3, SeqEqual

\* A revocation is written behind what is possible for a socket the relay serves.
LEMMA RevocationWritten ==
  ASSUME NEW st \in {"connecting", "open"}, NEW e, Fits(e, st),
         ~(e # <<>> /\ e[Len(e)] = "close"), st = "open" \/ e # <<>>
  PROVE  Fits(e \o <<"AUTH_REVOKED", "close">>, st)
<1>1. CASE st = "open"
  <2>1. e = <<>> BY <1>1 DEF Fits
  <2> QED BY <1>1, <2>1 DEF Fits
<1>2. CASE st = "connecting"
  <2>1. e = <<"open">> BY <1>2 DEF Fits
  <2>2. /\ <<"open">> \in Seq(Events) /\ <<"AUTH_REVOKED", "close">> \in Seq(Events)
        /\ <<"open", "AUTH_REVOKED", "close">> \in Seq(Events)
    BY DEF Events
  <2>3. e \o <<"AUTH_REVOKED", "close">> = <<"open", "AUTH_REVOKED", "close">>
    BY <2>1, <2>2, ConcatThree
  <2> QED BY <1>2, <2>3 DEF Fits
<1> QED BY <1>1, <1>2

-----------------------------------------------------------------------------
EventsFit == \A s \in Sockets : Fits(net[s].events, net[s].state)

PageInv == AppInv /\ EventsFit

\* Its part about the connection, with the sockets as a parameter.
NetOK(n) == n \in [Sockets -> SocketRecord] /\ \A s \in Sockets : Fits(n[s].events, n[s].state)
Alive(n, s) == n[s].state \in {"connecting", "open"}
TimersOK(t) == t \in [Timers -> [set : BOOLEAN, seen : MaybeToken]]
ConnOK ==
  /\ manual \in BOOLEAN /\ phase \in {"idle", "connecting", "reconnecting", "connected"}
  /\ socket \in Sockets \cup {None} /\ timerRef \in Timers \cup {None}
  /\ NetOK(net) /\ TimersOK(timer)
  /\ PhaseTruth /\ OnlyOneOpen

\* The rest of its types.
RestOK ==
  /\ token \in MaybeToken /\ stored \in MaybeToken
  /\ shown \in [phase : {"idle", "connecting", "reconnecting", "connected"}, token : MaybeToken]
  /\ hasKeys \in BOOLEAN /\ left \in BOOLEAN
  /\ redeem \in [stage : {"none", "asked", "paired"}, token : MaybeToken]
  /\ granted \subseteq Tokens /\ grants \subseteq granted
  /\ losses \in 0..MaxLosses /\ acts \in 0..MaxActs

\* The two parts are the whole.
LEMMA PageInvParts == PageInv <=> ConnOK /\ RestOK
BY DEF PageInv, AppInv, AppTypeOK, EventsFit, ConnOK, RestOK, NetOK, TimersOK

\* No socket is number 0.
LEMMA SocketsNumbered == Sockets \subseteq Nat /\ None \notin Sockets /\ Timers \subseteq Nat /\ None \notin Timers
BY AppConstants DEF Sockets, Timers, None

\* A set of numbers has a least one.
LEMMA HasLeast ==
  ASSUME NEW T, T \subseteq Nat, T # {}
  PROVE  \E s \in T : \A r \in T : s <= r
<1>1. PICK Less : IsWellFoundedOn(Less, Nat) /\ \A r, s \in Nat : r < s => <<r, s>> \in Less
  <2>1. \A r, s \in Nat : r < s => <<r, s>> \in OpToRel(<, Nat)
    BY DEF OpToRel
  <2> QED BY <2>1, NatLessThanWellFounded, Zenon
<1>2. PICK s \in T : \A r \in T : <<r, s>> \notin Less
  <2>1. IsWellFoundedOn(Less, Nat)
    BY <1>1
  <2> QED BY <2>1, WFMin, Zenon
<1>3. \A r \in T : ~(r < s)
  BY <1>1, <1>2
<1> QED BY <1>3

\* connect() takes a socket that is free.
LEMMA LeastFree == Free # {} => (CHOOSE s \in Free : \A r \in Free : s <= r) \in Free
BY SocketsNumbered, HasLeast DEF Free

\* Closing a socket keeps what may come of all of them, and no socket but the
\* closed one changes.
LEMMA ClosedFits ==
  ASSUME NEW n, NetOK(n), NEW r \in Sockets \cup {None}
  PROVE  /\ NetOK(Closed(n, r))
         /\ \A s \in Sockets : Alive(Closed(n, r), s) => Alive(n, s) /\ s # r
         /\ \A s \in Sockets : (Closed(n, r)[s].state = "gone") = (n[s].state = "gone")
         /\ \A s \in Sockets \ {r} : Closed(n, r)[s] = n[s]
<1>1. CASE r # None /\ n[r].state \in {"connecting", "open"}
  <2>1. <<"close">> \in Seq(Events) /\ Fits(<<"close">>, "closing")
    BY DEF Events, Fits
  <2> DEFINE rec == [n[r] EXCEPT !.state = "closing", !.events = <<"close">>]
  <2>2. r \in Sockets /\ n[r] \in SocketRecord
    BY <1>1 DEF NetOK
  <2>3. rec \in SocketRecord /\ rec.state = "closing" /\ rec.events = <<"close">>
    BY <2>1, <2>2 DEF SocketRecord
  <2>4. Closed(n, r) = [n EXCEPT ![r] = rec]
    BY <1>1 DEF Closed
  <2> HIDE DEF rec
  <2>5. Closed(n, r)[r] = rec /\ \A s \in Sockets \ {r} : Closed(n, r)[s] = n[s]
    BY <2>2, <2>4 DEF NetOK
  <2>6. Closed(n, r) \in [Sockets -> SocketRecord]
    BY <2>2, <2>3, <2>4 DEF NetOK
  <2> QED BY <1>1, <2>1, <2>2, <2>3, <2>5, <2>6 DEF NetOK, Alive
<1>2. CASE ~(r # None /\ n[r].state \in {"connecting", "open"})
  BY <1>2, SocketsNumbered DEF Closed, NetOK, Alive
<1> QED BY <1>1, <1>2

\* After disconnect() no socket is at work.
LEMMA Disconnected ==
  ASSUME ConnOK, NEW n, NetOK(n), \A s \in Sockets : Alive(n, s) => s = socket,
         NEW t, TimersOK(t), Disconnect(n, t)
  PROVE  ConnOK' /\ \A s \in Sockets : ~Alive(net', s)
<1>1. NetOK(net') /\ \A s \in Sockets : ~Alive(net', s)
  BY ClosedFits DEF Disconnect, ConnOK
<1>2. manual' = TRUE /\ phase' = "idle" /\ socket' = None /\ timerRef' = None /\ TimersOK(timer')
  BY DEF Disconnect
<1> QED BY <1>1, <1>2 DEF ConnOK, PhaseTruth, OnlyOneOpen, Live, Alive, NetOK

\* connect() leaves the new socket as the only one at work.
LEMMA Opened ==
  ASSUME ConnOK, NEW reset \in BOOLEAN, NEW use \in MaybeToken, NEW seen \in MaybeToken,
         NEW t, TimersOK(t), OpenSocket(reset, use, seen, t)
  PROVE  /\ ConnOK'
         /\ socket' \in Free
         /\ net'[socket'] = [state |-> "connecting", url |-> use, seen |-> seen, quiet |-> FALSE,
                            events |-> <<>>, older |-> IF InOrder THEN Sockets \ Free ELSE {}]
         /\ \A s \in Sockets \ {socket'} : net'[s] = Closed(net, socket)[s] /\ ~Alive(net', s)
<1> DEFINE new == CHOOSE s \in Free : \A r \in Free : s <= r
           rec == [state |-> "connecting", url |-> use, seen |-> seen, quiet |-> FALSE,
                   events |-> <<>>, older |-> IF InOrder THEN Sockets \ Free ELSE {}]
<1>1. new \in Free /\ new \in Sockets
  BY LeastFree DEF OpenSocket, Free
<1>2. socket' = new /\ net' = [Closed(net, socket) EXCEPT ![new] = rec]
  BY DEF OpenSocket
<1>3. rec \in SocketRecord /\ Fits(rec.events, rec.state)
  BY DEF SocketRecord, Fits
<1> HIDE DEF new, rec
<1>4. /\ NetOK(Closed(net, socket))
      /\ \A s \in Sockets : Alive(Closed(net, socket), s) => Alive(net, s) /\ s # socket
  BY ClosedFits DEF ConnOK
<1>5. net'[new] = rec /\ \A s \in Sockets \ {new} : net'[s] = Closed(net, socket)[s] /\ ~Alive(net', s)
  BY <1>1, <1>2, <1>4 DEF NetOK, Alive, ConnOK, OnlyOneOpen, Live
<1>6. NetOK(net')
  BY <1>1, <1>2, <1>3, <1>4, <1>5 DEF NetOK
<1>7. /\ manual' \in BOOLEAN /\ TimersOK(timer') /\ timerRef' = None
      /\ phase' \in {"connecting", "reconnecting"}
  BY DEF OpenSocket, ConnOK
<1>8. net'[new].state = "connecting"
  BY <1>5 DEF rec
<1>9. ConnOK'
  BY <1>1, <1>2, <1>5, <1>6, <1>7, <1>8 DEF ConnOK, PhaseTruth, OnlyOneOpen, Live, Alive
<1> QED BY <1>1, <1>2, <1>5, <1>9 DEF rec

\* Either way of connect() does.
LEMMA Connects ==
  ASSUME ConnOK, token \in MaybeToken, NEW reset \in BOOLEAN, NEW seen \in MaybeToken,
         NEW t, TimersOK(t), Connect(reset, seen, t)
  PROVE  ConnOK' /\ token' \in {token, NoToken}
<1>1. NetOK(net) /\ \A s \in Sockets : Alive(net, s) => s = socket
  BY DEF ConnOK, OnlyOneOpen, Live, Alive
<1>2. CASE seen # NoToken /\ ~hasKeys
  BY <1>1, <1>2, Disconnected DEF Connect, ResetSecureBinding
<1>3. CASE ~(seen # NoToken /\ ~hasKeys)
  BY <1>3, Opened DEF Connect
<1> QED BY <1>2, <1>3

-----------------------------------------------------------------------------
\* It is so at first.
LEMMA PageInvInit == Init => PageInv
<1> SUFFICES ASSUME Init PROVE ConnOK /\ RestOK
  BY PageInvParts
<1>1. Gone \in SocketRecord /\ Fits(Gone.events, Gone.state) /\ Gone.state = "gone"
  BY DEF Gone, SocketRecord, Fits, MaybeToken
<1>2. NotSet \in [set : BOOLEAN, seen : MaybeToken]
  BY DEF NotSet, MaybeToken
<1>3. net = [s \in Sockets |-> Gone] /\ timer = [i \in Timers |-> NotSet]
      /\ phase = "idle" /\ manual = FALSE /\ socket = None /\ timerRef = None
  BY DEF Init, Blank
<1>4. ConnOK
  BY <1>1, <1>2, <1>3 DEF ConnOK, NetOK, TimersOK, PhaseTruth, OnlyOneOpen, Live
<1>5. Unrendered \in [phase : {"idle", "connecting", "reconnecting", "connected"}, token : MaybeToken]
      /\ NoPairing \in [stage : {"none", "asked", "paired"}, token : MaybeToken]
  BY DEF Unrendered, NoPairing, MaybeToken
<1>6. losses \in 0..MaxLosses /\ acts \in 0..MaxActs
  BY AppConstants DEF Init
<1>7. RestOK
  BY <1>5, <1>6 DEF Init, RestOK, MaybeToken
<1> QED BY <1>4, <1>7

\* The timer in the ref is cleared, the others keep what they see.
LEMMA ClearedTimers == ConnOK => TimersOK(Cleared)
BY DEF ConnOK, TimersOK, Cleared, NotSet, MaybeToken

\* What the relay and the network do to the sockets.
LEMMA RelayKeepsPage ==
  ASSUME ConnOK, RestOK,
         NEW s \in Sockets, NEW t,
         Answer(s) \/ Lose(s) \/ Revoke(t)
  PROVE  ConnOK' /\ RestOK'
<1>1. /\ net \in [Sockets -> SocketRecord] /\ \A r \in Sockets : Fits(net[r].events, net[r].state)
  BY DEF ConnOK, NetOK
<1>2. /\ net' \in [Sockets -> SocketRecord] /\ \A r \in Sockets : Fits(net'[r].events, net'[r].state)
      /\ \A r \in Sockets : net'[r].state = net[r].state
  <2>1. CASE Answer(s)
    <3>1. PICK e \in {<<"open">>, <<"open", "AUTH_FAILED", "close">>} : net' = [net EXCEPT ![s].events = e]
      BY <2>1 DEF Answer
    <3>2. net[s].state = "connecting" /\ Fits(e, "connecting") /\ e \in Seq(Events)
      BY <2>1, EventsWritten, EventsCome DEF Answer
    <3> QED BY <1>1, <3>1, <3>2 DEF SocketRecord
  <2>2. CASE Lose(s)
    <3>1. net' = [net EXCEPT ![s].events = <<"close">>] /\ net[s].state \in {"connecting", "open"}
      BY <2>2 DEF Lose, Live
    <3>2. Fits(<<"close">>, net[s].state) /\ <<"close">> \in Seq(Events)
      BY <3>1, EventsWritten DEF Events
    <3> QED BY <1>1, <3>1, <3>2 DEF SocketRecord
  <2>3. CASE Revoke(t)
    <3> DEFINE ev(x) == IF Serving(x) /\ net[x].url = t
                        THEN net[x].events \o <<"AUTH_REVOKED", "close">> ELSE net[x].events
    <3>1. net' = [r \in Sockets |-> [net[r] EXCEPT !.events = ev(r)]]
      BY <1>1, <2>3 DEF Revoke, SocketRecord
    <3>2. \A r \in Sockets : Fits(ev(r), net[r].state)
      BY <1>1, RevocationWritten DEF Serving, Live, Ends
    <3>3. \A r \in Sockets : ev(r) \in Seq(Events)
      BY <1>1, <3>2, EventsCome DEF SocketRecord
    <3> HIDE DEF ev
    <3>4. \A r \in Sockets : net[r] \in SocketRecord
      BY <1>1
    <3>5. ASSUME NEW r \in Sockets
          PROVE  net'[r] \in SocketRecord /\ net'[r].state = net[r].state /\ net'[r].events = ev(r)
      <4>1. net'[r] = [net[r] EXCEPT !.events = ev(r)]
        BY <3>1
      <4> QED BY <4>1, <3>3, <3>4 DEF SocketRecord
    <3> QED BY <3>1, <3>2, <3>5
  <2> QED BY <2>1, <2>2, <2>3
<1>3. UNCHANGED <<phase, manual, socket, timer, timerRef, binding, screen, granted, redeem, left, acts>>
  BY DEF Answer, Lose, Revoke, relay
<1>4. ConnOK'
  BY <1>2, <1>3 DEF ConnOK, NetOK, TimersOK, PhaseTruth, OnlyOneOpen, Live
<1>5. grants' \subseteq granted' /\ losses' \in 0..MaxLosses
  BY AppConstants, <1>3 DEF Answer, Lose, Revoke, RestOK, relay
<1> QED BY <1>3, <1>4, <1>5 DEF RestOK, binding, screen

\* A socket marked quiet is otherwise as it was.
LEMMA QuietFits ==
  ASSUME NEW n, NetOK(n), NEW s \in Sockets
  PROVE  /\ NetOK([n EXCEPT ![s].quiet = TRUE])
         /\ \A r \in Sockets : [n EXCEPT ![s].quiet = TRUE][r].state = n[r].state
<1> DEFINE m == [n EXCEPT ![s].quiet = TRUE]
           rec == [n[s] EXCEPT !.quiet = TRUE]
<1>1. m = [n EXCEPT ![s] = rec] /\ n \in [Sockets -> SocketRecord]
  BY DEF NetOK
<1>2. rec \in SocketRecord /\ rec.state = n[s].state /\ rec.events = n[s].events
  <2>1. n[s] \in SocketRecord
    BY <1>1
  <2> QED BY <2>1 DEF SocketRecord
<1> HIDE DEF rec
<1>3. m[s] = rec /\ \A r \in Sockets \ {s} : m[r] = n[r]
  BY <1>1
<1>4. m \in [Sockets -> SocketRecord]
  BY <1>1, <1>2
<1> HIDE DEF m
<1>5. \A r \in Sockets : m[r].events = n[r].events /\ m[r].state = n[r].state
  BY <1>2, <1>3
<1> QED BY <1>4, <1>5 DEF m, NetOK

\* An event that comes fits the state of its socket.
LEMMA EventComes ==
  ASSUME ConnOK, NEW s \in Sockets, NEW event, Comes(s, event)
  PROVE  /\ net[s] \in SocketRecord /\ Tail(net[s].events) \in Seq(Events)
         /\ event = "open" => net[s].state = "connecting" /\ Fits(Tail(net[s].events), "open") /\ s = socket
         /\ event \in {"AUTH_FAILED", "AUTH_REVOKED"} => net[s].state = "open" /\ s = socket
         /\ event = "AUTH_REVOKED" => net[s].events \in Revoking
         /\ event = "close" => net[s].state # "gone"
<1>1. net[s] \in SocketRecord /\ Fits(net[s].events, net[s].state)
  BY DEF ConnOK, NetOK
<1>2. net[s].state \in {"gone", "connecting", "open", "closing"} /\ net[s].events \in Seq(Events)
  BY <1>1 DEF SocketRecord
<1>3. net[s].events # <<>> /\ Head(net[s].events) = event
  BY DEF Comes
<1>4. net[s].state \in {"connecting", "open"} => s = socket
  BY DEF ConnOK, OnlyOneOpen, Live
<1>5. Tail(net[s].events) \in Seq(Events)
  BY <1>2, <1>3
<1>6. /\ event = "open" => net[s].state = "connecting" /\ Fits(Tail(net[s].events), "open")
      /\ event = "AUTH_FAILED" => net[s].state = "open"
      /\ event = "AUTH_REVOKED" => net[s].state = "open" /\ net[s].events \in Revoking
      /\ event = "close" => net[s].state # "gone"
  BY <1>1, <1>2, <1>3, EventsCome
<1> QED BY <1>1, <1>4, <1>5, <1>6

\* The listeners of a socket.
LEMMA ListenersKeepPage ==
  ASSUME ConnOK, RestOK, NEW s \in Sockets, Listen(s)
  PROVE  ConnOK' /\ RestOK'
<1>1. NetOK(net) /\ net \in [Sockets -> SocketRecord] /\ s # None
  BY SocketsNumbered DEF ConnOK, NetOK
<1>2. CASE SocketOpened(s)
  <2>1. net[s].state = "connecting" /\ Fits(Tail(net[s].events), "open") /\ s = socket
        /\ Tail(net[s].events) \in Seq(Events)
    BY <1>2, EventComes DEF SocketOpened
  <2>2. net' = [net EXCEPT ![s] = [net[s] EXCEPT !.events = Tail(net[s].events), !.state = "open"]]
    BY <1>1, <1>2 DEF SocketOpened, Taken
  <2>3. NetOK(net') /\ net'[s].state = "open" /\ \A r \in Sockets \ {s} : net'[r] = net[r]
    BY <1>1, <2>1, <2>2 DEF NetOK, SocketRecord
  <2>4. ConnOK'
    BY <1>1, <1>2, <2>1, <2>3 DEF SocketOpened, ConnOK, PhaseTruth, OnlyOneOpen, Live
  <2> QED BY <1>2, <2>4 DEF SocketOpened, RestOK, binding, screen, relay
<1>3. CASE AuthFailed(s)
  <2> DEFINE n == [net EXCEPT ![s].quiet = TRUE]
  <2>1. s = socket
    BY <1>3, EventComes DEF AuthFailed
  <2>2. NetOK(n) /\ \A r \in Sockets : Alive(n, r) => r = s
    BY <1>1, <2>1, QuietFits DEF ConnOK, OnlyOneOpen, Live, Alive
  <2>3. net' = Closed(n, s) /\ manual' = TRUE /\ timer' = Cleared /\ timerRef' = None /\ phase' = "idle"
        /\ UNCHANGED <<socket, binding, screen, relay, redeem, left, losses, acts>>
    BY <1>3, <2>1 DEF AuthFailed
  <2> HIDE DEF n
  <2>4. NetOK(net') /\ \A r \in Sockets : ~Alive(net', r)
    BY <2>2, <2>3, ClosedFits
  <2>5. ConnOK'
    BY <2>3, <2>4, ClearedTimers DEF ConnOK, PhaseTruth, OnlyOneOpen, Live, Alive
  <2> QED BY <2>3, <2>5 DEF RestOK, binding, screen, relay
<1>4. CASE AuthRevoked(s)
  <2> DEFINE n == [net EXCEPT ![s].quiet = TRUE]
  <2>1. s = socket
    BY <1>4, EventComes DEF AuthRevoked
  <2>2. NetOK(n) /\ \A r \in Sockets : Alive(n, r) => r = socket
    BY <1>1, <2>1, QuietFits DEF ConnOK, OnlyOneOpen, Live, Alive
  <2>3. Disconnect(n, Cleared) /\ token' = NoToken
        /\ UNCHANGED <<hasKeys, screen, relay, redeem, left, losses, acts>>
    BY <1>4, <2>1 DEF AuthRevoked, ResetSecureBinding
  <2> HIDE DEF n
  <2>4. ConnOK'
    BY <2>2, <2>3, ClearedTimers, Disconnected
  <2> QED BY <2>3, <2>4 DEF RestOK, screen, relay, MaybeToken
<1>5. CASE SocketClosed(s)
  <2>1. net[s].state # "gone"
    BY <1>5, EventComes DEF SocketClosed
  <2>2. /\ net' = [r \in Sockets |-> IF r = s THEN Gone ELSE [net[r] EXCEPT !.older = @ \ {s}]]
        /\ socket' = IF socket = s THEN None ELSE socket
        /\ UNCHANGED <<manual, binding, screen, relay, redeem, left, losses, acts>>
    BY <1>5 DEF SocketClosed
  <2>3. Gone \in SocketRecord /\ Fits(Gone.events, Gone.state) /\ Gone.state = "gone"
    BY DEF Gone, SocketRecord, Fits, MaybeToken
  <2>4. net'[s] = Gone /\ \A r \in Sockets \ {s} : net'[r].state = net[r].state
    BY <1>1, <2>2 DEF SocketRecord
  <2>5. NetOK(net')
    BY <1>1, <2>2, <2>3 DEF NetOK, SocketRecord
  <2>6. OnlyOneOpen'
    BY <2>2, <2>3, <2>4 DEF ConnOK, OnlyOneOpen, Live
  <2>7. /\ socket \notin {None, s} => UNCHANGED <<phase, timer, timerRef>>
        /\ socket \in {None, s} => phase' \in {"idle", "reconnecting"}
        /\ TimersOK(timer') /\ timerRef' \in Timers \cup {None}
    <3>1. net[s].seen \in MaybeToken /\ TimersOK(timer) /\ timerRef \in Timers \cup {None}
      BY <1>1 DEF ConnOK, SocketRecord
    <3>2. ASSUME ScheduleReconnect(net[s].seen)
          PROVE  TimersOK(timer') /\ timerRef' \in Timers /\ phase' = "reconnecting"
      BY <3>1, <3>2 DEF ScheduleReconnect, TimersOK, Set
    <3> QED BY <1>5, <3>1, <3>2 DEF SocketClosed
  <2>8. PhaseTruth' /\ phase' \in {"idle", "connecting", "reconnecting", "connected"}
    BY <2>2, <2>4, <2>7 DEF ConnOK, PhaseTruth
  <2>9. ConnOK'
    BY <2>2, <2>5, <2>6, <2>7, <2>8 DEF ConnOK
  <2> QED BY <2>2, <2>9 DEF RestOK, binding, screen, relay
<1> QED BY <1>2, <1>3, <1>4, <1>5 DEF Listen

\* Timers, renders, and what the user and the pairing do.
LEMMA PageKeepsPage ==
  ASSUME ConnOK, RestOK, NEW i,
         \/ (i \in Timers /\ FireTimer(i)) \/ Render \/ RedeemAnswered \/ Paired
         \/ PressConnect \/ PressDisconnect \/ ClearBinding \/ Reload \/ RedeemPairingCode
  PROVE  ConnOK' /\ RestOK'
<1>1. NetOK(net) /\ \A s \in Sockets : Alive(net, s) => s = socket
  BY DEF ConnOK, OnlyOneOpen, Live, Alive
<1>2. token \in MaybeToken /\ stored \in MaybeToken /\ NoToken \in MaybeToken /\ TimersOK(Cleared)
  BY ClearedTimers DEF RestOK, MaybeToken
<1>3. Act => acts' \in 0..MaxActs
  BY AppConstants DEF Act, RestOK
<1>4. CASE i \in Timers /\ FireTimer(i)
  <2>1. timer[i].seen \in MaybeToken /\ TimersOK([timer EXCEPT ![i] = NotSet])
    BY <1>2, <1>4 DEF ConnOK, TimersOK, NotSet
  <2>2. ConnOK' /\ token' \in {token, NoToken}
    BY <1>2, <1>4, <2>1, Connects DEF FireTimer
  <2> QED BY <1>2, <1>4, <2>2 DEF FireTimer, RestOK, screen, relay
<1>5. CASE Render
  <2>1. CASE phase = "connected" /\ PhaseChanged /\ token = NoToken
    <3>1. Disconnect(net, Cleared) /\ token' = NoToken
      BY <1>5, <2>1 DEF Render, ResetSecureBinding
    <3>2. ConnOK'
      BY <1>1, <1>2, <3>1, Disconnected
    <3> QED BY <1>2, <1>5, <3>1, <3>2 DEF Render, RestOK, relay, ConnOK
  <2>2. CASE ~(phase = "connected" /\ PhaseChanged /\ token = NoToken) /\ AutoConnect
    <3>1. OpenSocket(FALSE, token, token, Cleared) /\ token' = token
      BY <1>5, <2>2 DEF Render
    <3>2. ConnOK'
      BY <1>2, <3>1, Opened
    <3> QED BY <1>2, <1>5, <3>1, <3>2 DEF Render, RestOK, relay, ConnOK
  <2>3. CASE ~(phase = "connected" /\ PhaseChanged /\ token = NoToken) /\ ~AutoConnect
    <3>1. UNCHANGED <<conn, token>>
      BY <1>5, <2>3 DEF Render
    <3>2. ConnOK'
      BY <3>1 DEF conn, ConnOK, PhaseTruth, OnlyOneOpen, Live, NetOK, TimersOK
    <3> QED BY <1>2, <1>5, <3>1, <3>2 DEF Render, RestOK, relay, ConnOK
  <2> QED BY <2>1, <2>2, <2>3
<1>6. CASE RedeemAnswered
  <2>1. ConnOK'
    BY <1>6 DEF RedeemAnswered, conn, ConnOK, PhaseTruth, OnlyOneOpen, Live, NetOK, TimersOK
  <2>2. /\ redeem' \in [stage : {"none", "asked", "paired"}, token : MaybeToken]
        /\ granted' \subseteq Tokens /\ grants' \subseteq granted'
    BY <1>2, <1>6 DEF RedeemAnswered, NoPairing, RestOK, MaybeToken, relay
  <2> QED BY <1>6, <2>1, <2>2 DEF RedeemAnswered, RestOK, binding, screen
<1>7. CASE Paired
  <2>1. redeem.token \in MaybeToken
    BY DEF RestOK
  <2>2. ConnOK'
    BY <1>2, <1>7, <2>1, Opened DEF Paired
  <2>3. NoPairing \in [stage : {"none", "asked", "paired"}, token : MaybeToken]
    BY <1>2 DEF NoPairing
  <2> QED BY <1>7, <2>1, <2>2, <2>3 DEF Paired, RestOK, screen, relay
<1>8. CASE PressConnect
  <2>1. ConnOK' /\ token' \in {token, NoToken}
    BY <1>2, <1>8, Connects DEF PressConnect
  <2> QED BY <1>2, <1>3, <1>8, <2>1 DEF PressConnect, RestOK, screen, relay
<1>9. CASE PressDisconnect
  <2>1. ConnOK'
    BY <1>1, <1>2, <1>9, Disconnected DEF PressDisconnect
  <2> QED BY <1>3, <1>9, <2>1 DEF PressDisconnect, RestOK, binding, screen, relay
<1>10. CASE ClearBinding
  <2>1. ConnOK'
    BY <1>1, <1>2, <1>10, Disconnected DEF ClearBinding, ResetSecureBinding
  <2> QED BY <1>2, <1>3, <1>10, <2>1 DEF ClearBinding, ResetSecureBinding, RestOK, screen, relay
<1>11. CASE Reload
  <2>1. Gone \in SocketRecord /\ Fits(Gone.events, Gone.state) /\ Gone.state = "gone"
    BY <1>2 DEF Gone, SocketRecord, Fits
  <2>2. NotSet \in [set : BOOLEAN, seen : MaybeToken]
    BY <1>2 DEF NotSet
  <2>3. net' = [s \in Sockets |-> Gone] /\ timer' = [j \in Timers |-> NotSet]
        /\ phase' = "idle" /\ manual' = FALSE /\ socket' = None /\ timerRef' = None
    BY <1>11 DEF Reload, Blank
  <2>4. ConnOK'
    BY <2>1, <2>2, <2>3 DEF ConnOK, NetOK, TimersOK, PhaseTruth, OnlyOneOpen, Live
  <2>5. Unrendered \in [phase : {"idle", "connecting", "reconnecting", "connected"}, token : MaybeToken]
        /\ NoPairing \in [stage : {"none", "asked", "paired"}, token : MaybeToken]
    BY <1>2 DEF Unrendered, NoPairing
  <2> QED BY <1>2, <1>3, <1>11, <2>4, <2>5 DEF Reload, RestOK, relay
<1>12. CASE RedeemPairingCode
  <2>1. ConnOK'
    BY <1>12 DEF RedeemPairingCode, conn, ConnOK, PhaseTruth, OnlyOneOpen, Live, NetOK, TimersOK
  <2>2. redeem' \in [stage : {"none", "asked", "paired"}, token : MaybeToken]
    BY <1>2, <1>12 DEF RedeemPairingCode
  <2> QED BY <1>3, <1>12, <2>1, <2>2 DEF RedeemPairingCode, RestOK, binding, screen, relay
<1> QED BY <1>4, <1>5, <1>6, <1>7, <1>8, <1>9, <1>10, <1>11, <1>12

\* Every step keeps it.
LEMMA PageInvNext == PageInv /\ [Next]_vars => PageInv'
<1> SUFFICES ASSUME ConnOK, RestOK, [Next]_vars PROVE ConnOK' /\ RestOK'
  <2>1. PageInv' <=> ConnOK' /\ RestOK'
    BY DEF PageInv, AppInv, AppTypeOK, EventsFit, ConnOK, RestOK, NetOK, TimersOK
  <2> QED BY <2>1, PageInvParts
<1>1. CASE UNCHANGED vars
  BY <1>1 DEF vars, conn, binding, screen, relay, ConnOK, RestOK, PhaseTruth, OnlyOneOpen, Live, NetOK, TimersOK
<1>2. ASSUME NEW s \in Sockets, NEW t, Answer(s) \/ Lose(s) \/ Revoke(t) PROVE ConnOK' /\ RestOK'
  BY <1>2, RelayKeepsPage
<1>3. ASSUME NEW s \in Sockets, Listen(s) PROVE ConnOK' /\ RestOK'
  BY <1>3, ListenersKeepPage
<1>4. ASSUME NEW i, \/ (i \in Timers /\ FireTimer(i)) \/ Render \/ RedeemAnswered \/ Paired
                    \/ PressConnect \/ PressDisconnect \/ ClearBinding \/ Reload \/ RedeemPairingCode
      PROVE  ConnOK' /\ RestOK'
  BY <1>4, PageKeepsPage
<1>5. \E s \in Sockets : TRUE
  BY AppConstants DEF Sockets
<1> QED BY <1>1, <1>2, <1>3, <1>4, <1>5 DEF Next, Listen

\* The phase on the page is true of its only connection, for any number of
\* sockets, timers, losses and acts, in whatever order sockets close.
THEOREM OnePageOneConnection == AppSpec => []AppInv
<1>1. Init => PageInv
  BY PageInvInit
<1>2. PageInv /\ [Next]_vars => PageInv'
  BY PageInvNext
<1>3. PageInv => AppInv
  BY DEF PageInv
<1> QED BY <1>1, <1>2, <1>3, PTL DEF AppSpec

-----------------------------------------------------------------------------
AllGone == \A s \in Sockets : net[s].state = "gone"

\* The socket in the ref is the youngest; unless told to stay off it is at work.
Youngest ==
  /\ socket # None => \A r \in Sockets \ {socket} : net[r].state # "gone" => r \in net[socket].older
  /\ ~manual => IF socket = None THEN AllGone ELSE Live(socket) /\ ~net[socket].quiet

\* A timer is the one in the ref, and there is nothing beside it.
OneTimer ==
  \A i \in Timers : timer[i].set => i = timerRef /\ ~manual /\ socket = None /\ AllGone

\* A pairing is made by a page without a token, and no token takes another's place.
PairsUnpaired ==
  /\ redeem # NoPairing => token = NoToken /\ shown.token = NoToken
  /\ token # NoToken => shown.token \in {token, NoToken}

OrderInv == PageInv /\ Youngest /\ OneTimer /\ PairsUnpaired /\ NotForgotten

\* Its part about the connection, and timers that are all off.
OrderOK == Youngest /\ OneTimer /\ NotForgotten
NoTimers(t) == \A i \in Timers : ~t[i].set

\* With one timer, to clear the one in the ref or to fire is to have none.
LEMMA NoneLeft ==
  ASSUME ConnOK, OneTimer
  PROVE  /\ NoTimers(Cleared)
         /\ \A i \in Timers : timer[i].set => NoTimers([timer EXCEPT ![i] = NotSet])
BY DEF ConnOK, OneTimer, NoTimers, Cleared, NotSet, TimersOK

\* A page that was told to stay off is in order.
LEMMA DisconnectedOrder ==
  ASSUME NEW n, NEW t, NoTimers(t), Disconnect(n, t)
  PROVE  OrderOK'
BY DEF Disconnect, OrderOK, Youngest, OneTimer, NotForgotten, NoTimers

\* And one that has just opened a socket, the youngest.
LEMMA OpenedOrder ==
  ASSUME ConnOK, InOrder, NEW reset \in BOOLEAN, NEW use \in MaybeToken, NEW seen \in MaybeToken,
         NEW t, TimersOK(t), NoTimers(t), OpenSocket(reset, use, seen, t)
  PROVE  OrderOK'
<1>1. /\ socket' \in Free /\ socket' \in Sockets /\ socket' # None
      /\ net'[socket'].state = "connecting" /\ net'[socket'].quiet = FALSE
      /\ net'[socket'].older = Sockets \ Free
      /\ \A s \in Sockets \ {socket'} : net'[s] = Closed(net, socket)[s]
  <2>1. /\ socket' \in Free
        /\ net'[socket'] = [state |-> "connecting", url |-> use, seen |-> seen, quiet |-> FALSE,
                           events |-> <<>>, older |-> Sockets \ Free]
        /\ \A s \in Sockets \ {socket'} : net'[s] = Closed(net, socket)[s]
    BY Opened
  <2>2. socket' \in Sockets /\ socket' # None
    BY <2>1, SocketsNumbered DEF Free
  <2> QED BY <2>1, <2>2
<1>2. \A s \in Sockets : (Closed(net, socket)[s].state = "gone") = (net[s].state = "gone")
  BY ClosedFits DEF ConnOK
<1>3. Youngest'
  BY <1>1, <1>2 DEF Youngest, Live, Free
<1>4. OneTimer' /\ NotForgotten'
  BY <1>1 DEF OneTimer, NotForgotten, NoTimers, OpenSocket
<1> QED BY <1>3, <1>4 DEF OrderOK

\* Either way of connect() keeps the order.
LEMMA ConnectsOrder ==
  ASSUME ConnOK, InOrder, NEW reset \in BOOLEAN, NEW seen \in MaybeToken,
         NEW t, TimersOK(t), NoTimers(t), Connect(reset, seen, t)
  PROVE  OrderOK'
BY OpenedOrder, DisconnectedOrder DEF Connect, ResetSecureBinding

\* It is in order at first.
LEMMA OrderInvInit == Init => OrderInv
<1> SUFFICES ASSUME Init PROVE OrderInv
  OBVIOUS
<1>1. PageInv
  BY PageInvInit
<1>2. Gone.state = "gone" /\ NotSet.set = FALSE
  BY DEF Gone, NotSet
<1>3. AllGone /\ \A i \in Timers : ~timer[i].set
  BY <1>2 DEF Init, Blank, AllGone
<1>4. PairsUnpaired
  BY DEF Init, PairsUnpaired, Unrendered
<1>5. Youngest /\ OneTimer
  BY <1>3 DEF Init, Blank, Youngest, OneTimer
<1>6. NotForgotten
  BY DEF Init, Blank, NotForgotten, Unrendered, Rendered
<1> QED BY <1>1, <1>4, <1>5, <1>6 DEF OrderInv

\* The relay and the network open, close and forget no socket of the page.
LEMMA RelayKeepsOrder ==
  ASSUME ConnOK, OrderOK, PairsUnpaired, NEW s \in Sockets, NEW t,
         Answer(s) \/ Lose(s) \/ Revoke(t)
  PROVE  OrderOK' /\ PairsUnpaired'
<1>1. net \in [Sockets -> SocketRecord]
  BY DEF ConnOK, NetOK
<1>2. \A r \in Sockets : /\ net'[r].state = net[r].state /\ net'[r].older = net[r].older
                         /\ net'[r].quiet = net[r].quiet
  <2>1. CASE Answer(s)
    BY <1>1, <2>1 DEF Answer, SocketRecord
  <2>2. CASE Lose(s)
    BY <1>1, <2>2 DEF Lose, SocketRecord
  <2>3. CASE Revoke(t)
    BY <1>1, <2>3 DEF Revoke, SocketRecord
  <2> QED BY <2>1, <2>2, <2>3
<1>3. UNCHANGED <<phase, manual, socket, timer, timerRef, token, shown, redeem>>
  BY DEF Answer, Lose, Revoke, binding, screen
<1>4. Youngest'
  BY <1>2, <1>3, <1>1 DEF OrderOK, Youngest, AllGone, Live, ConnOK
<1>5. OneTimer'
  BY <1>2, <1>3 DEF OrderOK, OneTimer, AllGone
<1>6. NotForgotten' /\ PairsUnpaired'
  BY <1>3 DEF OrderOK, NotForgotten, Rendered, PairsUnpaired
<1> QED BY <1>4, <1>5, <1>6 DEF OrderOK

\* Nor do the listeners; the last of them to hear of the youngest socket sets
\* the only timer.
LEMMA ListenersKeepOrder ==
  ASSUME ConnOK, OrderOK, PairsUnpaired, NEW s \in Sockets, Listen(s)
  PROVE  OrderOK' /\ PairsUnpaired'
<1>1. net \in [Sockets -> SocketRecord] /\ net[s] \in SocketRecord /\ s # None /\ NoTimers(Cleared)
  BY NoneLeft, SocketsNumbered DEF ConnOK, NetOK, OrderOK
<1>2. CASE SocketOpened(s)
  <2>1. net[s].state = "connecting" /\ s = socket
    BY <1>2, EventComes DEF SocketOpened
  <2>2. net' = [net EXCEPT ![s] = [net[s] EXCEPT !.events = Tail(net[s].events), !.state = "open"]]
    BY <1>1, <1>2 DEF SocketOpened, Taken
  <2>3. /\ net'[s].state = "open" /\ net'[s].older = net[s].older /\ net'[s].quiet = net[s].quiet
        /\ \A r \in Sockets \ {s} : net'[r] = net[r]
    BY <1>1, <2>2 DEF SocketRecord
  <2>4. UNCHANGED <<manual, socket, timer, timerRef, token, shown, redeem>> /\ phase' = "connected"
    BY <1>2, <2>1 DEF SocketOpened, binding, screen
  <2>5. Youngest'
    BY <1>1, <2>1, <2>3, <2>4 DEF OrderOK, Youngest, Live
  <2>6. OneTimer'
    BY <1>1, <2>1, <2>4 DEF OrderOK, OneTimer
  <2>7. NotForgotten' /\ PairsUnpaired'
    BY <1>1, <2>1, <2>4 DEF OrderOK, NotForgotten, PairsUnpaired
  <2> QED BY <2>5, <2>6, <2>7 DEF OrderOK
<1>3. CASE AuthFailed(s)
  <2> DEFINE n == [net EXCEPT ![s].quiet = TRUE]
  <2>1. s = socket
    BY <1>3, EventComes DEF AuthFailed
  <2>2. net' = Closed(n, s) /\ manual' = TRUE /\ timer' = Cleared /\ phase' = "idle"
        /\ UNCHANGED <<socket, token, shown, redeem>>
    BY <1>3, <2>1 DEF AuthFailed, binding, screen
  <2>3. NetOK(n) /\ \A r \in Sockets \ {s} : n[r] = net[r]
    BY <1>1, QuietFits DEF ConnOK
  <2>4. n[s].older = net[s].older
    BY <1>1 DEF SocketRecord
  <2> HIDE DEF n
  <2>5. \A r \in Sockets \ {s} : net'[r] = net[r]
    BY <2>2, <2>3, ClosedFits
  <2>6. net'[s].older = net[s].older
    BY <2>2, <2>3, <2>4 DEF Closed, NetOK, SocketRecord
  <2>7. Youngest'
    BY <2>1, <2>2, <2>5, <2>6 DEF OrderOK, Youngest
  <2>8. OneTimer' /\ NotForgotten' /\ PairsUnpaired'
    BY <1>1, <2>2 DEF OneTimer, NoTimers, NotForgotten, PairsUnpaired
  <2> QED BY <2>7, <2>8 DEF OrderOK
<1>4. CASE AuthRevoked(s)
  <2>1. s = socket
    BY <1>4, EventComes DEF AuthRevoked
  <2>2. Disconnect([net EXCEPT ![s].quiet = TRUE], Cleared) /\ token' = NoToken
        /\ UNCHANGED <<shown, redeem>>
    BY <1>4, <2>1 DEF AuthRevoked, ResetSecureBinding, screen
  <2> QED BY <1>1, <2>2, DisconnectedOrder DEF PairsUnpaired
<1>5. CASE SocketClosed(s)
  <2>1. net[s].state # "gone" /\ net[s].older = {}
    BY <1>5, EventComes DEF SocketClosed
  <2>2. /\ net' = [r \in Sockets |-> IF r = s THEN Gone ELSE [net[r] EXCEPT !.older = @ \ {s}]]
        /\ socket' = IF socket = s THEN None ELSE socket
        /\ UNCHANGED <<manual, token, shown, redeem>>
    BY <1>5 DEF SocketClosed, binding, screen
  <2>3. net'[s].state = "gone"
    BY <2>2 DEF Gone
  <2>4. \A r \in Sockets \ {s} : /\ net'[r].state = net[r].state /\ net'[r].quiet = net[r].quiet
                                 /\ net'[r].older = net[r].older \ {s}
    BY <1>1, <2>2 DEF SocketRecord
  <2>5. NoTimers(timer)
    BY <2>1 DEF OrderOK, OneTimer, Youngest, AllGone, NoTimers
  <2>6. PairsUnpaired'
    BY <2>2 DEF PairsUnpaired
  <2>7. CASE socket \notin {None, s}
    <3>1. UNCHANGED <<phase, timer, timerRef, socket>>
      BY <1>5, <2>2, <2>7 DEF SocketClosed
    <3>2. Youngest'
      BY <2>2, <2>3, <2>4, <2>7, <3>1 DEF OrderOK, Youngest, Live, ConnOK
    <3>3. OneTimer' /\ NotForgotten'
      BY <2>5, <2>7, <3>1 DEF OneTimer, NotForgotten, NoTimers
    <3> QED BY <2>6, <3>2, <3>3 DEF OrderOK
  <2>8. CASE socket \in {None, s} /\ manual
    <3>1. socket' = None /\ phase' = "idle" /\ manual' /\ UNCHANGED timer
      BY <1>5, <2>2, <2>8 DEF SocketClosed
    <3> QED BY <2>5, <2>6, <3>1 DEF OrderOK, Youngest, OneTimer, NotForgotten, NoTimers
  <2>9. CASE socket \in {None, s} /\ ~manual
    <3>1. socket = s /\ ~net[s].quiet
      BY <1>1, <2>1, <2>9 DEF OrderOK, Youngest, AllGone
    <3>2. AllGone'
      BY <1>1, <2>1, <2>3, <2>4, <3>1 DEF OrderOK, Youngest, AllGone
    <3>3. socket' = None /\ ScheduleReconnect(net[s].seen) /\ ~manual'
      BY <1>5, <2>2, <2>9, <3>1 DEF SocketClosed
    <3>4. PICK i \in Timers : timer' = [timer EXCEPT ![i] = Set(net[s].seen)] /\ timerRef' = i
      BY <3>3 DEF ScheduleReconnect
    <3>5. \A k \in Timers : timer'[k].set <=> k = i
      BY <2>5, <3>4 DEF ConnOK, TimersOK, Set, NoTimers
    <3> QED BY <2>6, <3>2, <3>3, <3>4, <3>5 DEF OrderOK, Youngest, OneTimer, NotForgotten
  <2> QED BY <2>7, <2>8, <2>9 DEF ConnOK
<1> QED BY <1>2, <1>3, <1>4, <1>5 DEF Listen

\* Nor do timers, renders, and what the user and the pairing do: a render that
\* finds a page without socket and timer connects it.
LEMMA PageKeepsOrder ==
  ASSUME ConnOK, RestOK, OrderOK, PairsUnpaired, InOrder, NEW i,
         \/ (i \in Timers /\ FireTimer(i)) \/ Render \/ RedeemAnswered \/ Paired
         \/ PressConnect \/ PressDisconnect \/ ClearBinding \/ Reload \/ RedeemPairingCode
  PROVE  OrderOK' /\ PairsUnpaired'
<1>1. /\ NoTimers(Cleared) /\ TimersOK(Cleared)
      /\ \A k \in Timers : timer[k].set => NoTimers([timer EXCEPT ![k] = NotSet])
  BY NoneLeft, ClearedTimers DEF OrderOK
<1>2. token \in MaybeToken /\ NoToken \in MaybeToken
  BY DEF RestOK, MaybeToken
<1>3. CASE i \in Timers /\ FireTimer(i)
  <2>1. timer[i].seen \in MaybeToken /\ TimersOK([timer EXCEPT ![i] = NotSet])
        /\ NoTimers([timer EXCEPT ![i] = NotSet])
    BY <1>1, <1>2, <1>3 DEF FireTimer, ConnOK, TimersOK, NotSet
  <2>2. OrderOK'
    BY <1>3, <2>1, ConnectsOrder DEF FireTimer
  <2>3. token' \in {token, NoToken} /\ UNCHANGED <<shown, redeem>>
    BY <1>3 DEF FireTimer, Connect, ResetSecureBinding, screen
  <2> QED BY <2>2, <2>3 DEF PairsUnpaired
<1>4. CASE Render
  <2>1. shown' = [phase |-> phase, token |-> token] /\ token' \in {token, NoToken} /\ redeem' = redeem
    BY <1>4 DEF Render, ResetSecureBinding, conn
  <2>2. PairsUnpaired'
    BY <2>1 DEF PairsUnpaired
  <2>3. CASE phase = "connected" /\ PhaseChanged /\ token = NoToken
    <3>1. Disconnect(net, Cleared)
      BY <1>4, <2>3 DEF Render, ResetSecureBinding
    <3> QED BY <1>1, <2>2, <3>1, DisconnectedOrder
  <2>4. CASE ~(phase = "connected" /\ PhaseChanged /\ token = NoToken) /\ AutoConnect
    <3>1. OpenSocket(FALSE, token, token, Cleared)
      BY <1>4, <2>4 DEF Render
    <3> QED BY <1>1, <1>2, <2>2, <3>1, OpenedOrder
  <2>5. CASE ~(phase = "connected" /\ PhaseChanged /\ token = NoToken) /\ ~AutoConnect
    <3>1. UNCHANGED <<phase, manual, socket, net, timer, timerRef, token>>
      BY <1>4, <2>5 DEF Render, conn
    <3>2. Youngest' /\ OneTimer'
      BY <3>1 DEF OrderOK, Youngest, OneTimer, AllGone, Live
    <3>3. ASSUME token # NoToken, ~manual, socket = None PROVE \E k \in Timers : timer[k].set
      <4>1. CASE phase \in {"connecting", "reconnecting"}
        BY <3>3, <4>1 DEF OrderOK, NotForgotten
      <4>2. CASE phase \notin {"connecting", "reconnecting"}
        <5>1. phase = "idle"
          BY <3>3, <4>2 DEF ConnOK, PhaseTruth
        <5>2. PhaseChanged \/ BindingChanged
          BY <1>4, <3>3 DEF Render, Rendered, PhaseChanged, BindingChanged, PairsUnpaired, RestOK
        <5> QED BY <2>5, <3>3, <5>1, <5>2 DEF AutoConnect
      <4> QED BY <4>1, <4>2
    <3>4. NotForgotten'
      BY <3>1, <3>3 DEF OrderOK, NotForgotten
    <3> QED BY <2>2, <3>2, <3>4 DEF OrderOK
  <2> QED BY <2>3, <2>4, <2>5
<1>5. CASE RedeemAnswered \/ RedeemPairingCode
  <2>1. UNCHANGED <<phase, manual, socket, net, timer, timerRef, token, shown>>
    BY <1>5 DEF RedeemAnswered, RedeemPairingCode, conn, binding, screen
  <2>2. OrderOK'
    BY <2>1 DEF OrderOK, Youngest, OneTimer, AllGone, Live, NotForgotten, Rendered
  <2>3. redeem' # NoPairing => token = NoToken /\ shown.token = NoToken
    BY <1>5 DEF RedeemAnswered, RedeemPairingCode, Act, Rendered, PairsUnpaired, NoPairing
  <2> QED BY <2>1, <2>2, <2>3 DEF PairsUnpaired
<1>6. CASE Paired
  <2>1. redeem.token \in MaybeToken /\ redeem # NoPairing
    BY <1>6 DEF RestOK, Paired, NoPairing
  <2>2. OrderOK'
    BY <1>1, <1>2, <1>6, <2>1, OpenedOrder DEF Paired
  <2>3. redeem' = NoPairing /\ shown'.token = NoToken
    BY <1>6, <2>1 DEF Paired, screen, PairsUnpaired
  <2> QED BY <2>2, <2>3 DEF PairsUnpaired
<1>7. CASE PressConnect
  <2>1. OrderOK'
    BY <1>1, <1>2, <1>7, ConnectsOrder DEF PressConnect
  <2>2. token' \in {token, NoToken} /\ UNCHANGED <<shown, redeem>>
    BY <1>7 DEF PressConnect, Connect, ResetSecureBinding, screen
  <2> QED BY <2>1, <2>2 DEF PairsUnpaired
<1>8. CASE PressDisconnect \/ ClearBinding
  <2>1. Disconnect(net, Cleared) /\ token' \in {token, NoToken} /\ UNCHANGED <<shown, redeem>>
    BY <1>8 DEF PressDisconnect, ClearBinding, ResetSecureBinding, binding, screen
  <2> QED BY <1>1, <2>1, DisconnectedOrder DEF PairsUnpaired
<1>9. CASE Reload
  <2>1. Gone.state = "gone" /\ NotSet.set = FALSE
    BY DEF Gone, NotSet
  <2>2. /\ net' = [s \in Sockets |-> Gone] /\ timer' = [k \in Timers |-> NotSet]
        /\ phase' = "idle" /\ socket' = None
        /\ shown' = [phase |-> "idle", token |-> NoToken] /\ redeem' = NoPairing
    BY <1>9 DEF Reload, Blank, Unrendered
  <2>3. AllGone' /\ \A k \in Timers : ~timer'[k].set
    BY <2>1, <2>2 DEF AllGone
  <2> QED BY <2>2, <2>3 DEF OrderOK, Youngest, OneTimer, NotForgotten, Rendered, PairsUnpaired
<1> QED BY <1>3, <1>4, <1>5, <1>6, <1>7, <1>8, <1>9

\* Every step keeps the order.
LEMMA OrderInvNext == InOrder /\ OrderInv /\ [Next]_vars => OrderInv'
<1> SUFFICES ASSUME InOrder, OrderInv, [Next]_vars PROVE OrderInv'
  OBVIOUS
<1>1. ConnOK /\ RestOK /\ OrderOK /\ PairsUnpaired
  BY PageInvParts DEF OrderInv, OrderOK
<1>2. PageInv'
  BY PageInvNext DEF OrderInv
<1>3. CASE UNCHANGED vars
  <2>1. UNCHANGED <<phase, manual, socket, net, timer, timerRef, token, shown, redeem>>
    BY <1>3 DEF vars, conn, binding, screen
  <2>2. Youngest' /\ OneTimer'
    BY <1>1, <2>1 DEF OrderOK, Youngest, OneTimer, AllGone, Live
  <2>3. NotForgotten' /\ PairsUnpaired'
    BY <1>1, <2>1 DEF OrderOK, NotForgotten, Rendered, PairsUnpaired
  <2> QED BY <1>2, <2>2, <2>3 DEF OrderInv
<1>4. ASSUME NEW s \in Sockets, NEW t, Answer(s) \/ Lose(s) \/ Revoke(t) PROVE OrderOK' /\ PairsUnpaired'
  BY <1>1, <1>4, RelayKeepsOrder
<1>5. ASSUME NEW s \in Sockets, Listen(s) PROVE OrderOK' /\ PairsUnpaired'
  BY <1>1, <1>5, ListenersKeepOrder
<1>6. ASSUME NEW i, \/ (i \in Timers /\ FireTimer(i)) \/ Render \/ RedeemAnswered \/ Paired
                    \/ PressConnect \/ PressDisconnect \/ ClearBinding \/ Reload \/ RedeemPairingCode
      PROVE  OrderOK' /\ PairsUnpaired'
  BY <1>1, <1>6, PageKeepsOrder
<1>7. \E s \in Sockets : TRUE
  BY AppConstants DEF Sockets
<1>8. CASE Next
  <2>1. OrderOK' /\ PairsUnpaired'
    BY <1>4, <1>5, <1>6, <1>7, <1>8 DEF Next, Listen
  <2> QED BY <1>2, <2>1 DEF OrderInv, OrderOK
<1> QED BY <1>3, <1>8

\* Once reconnecting was stopped no timer will connect again, if the close
\* events of sockets come in the order in which the sockets were opened.
THEOREM StoppedStaysOff == ASSUME InOrder PROVE AppSpec => []StaysOff
<1>1. Init => OrderInv
  BY OrderInvInit
<1>2. OrderInv /\ [Next]_vars => OrderInv'
  BY OrderInvNext
<1>3. OrderInv => StaysOff
  BY DEF OrderInv, OneTimer, StaysOff
<1> QED BY <1>1, <1>2, <1>3, PTL DEF AppSpec

\* And no page waits for nobody: one that is to be connected has a socket, a
\* timer, or a render to come.
THEOREM NobodyForgotten == ASSUME InOrder PROVE AppSpec => []NotForgotten
<1>1. Init => OrderInv
  BY OrderInvInit
<1>2. OrderInv /\ [Next]_vars => OrderInv'
  BY OrderInvNext
<1>3. OrderInv => NotForgotten
  BY DEF OrderInv
<1> QED BY <1>1, <1>2, <1>3, PTL DEF AppSpec

-----------------------------------------------------------------------------
\* What connects sees the binding or none, and a page that sees one has its keys.
SeesBinding ==
  /\ \A s \in Sockets : Live(s) => net[s].url \in {token, NoToken} /\ net[s].seen \in {token, NoToken}
  /\ \A s \in Sockets : Live(s) /\ net[s].seen # NoToken => hasKeys
  /\ \A i \in Timers : timer[i].set => timer[i].seen \in {token, NoToken}
  /\ \A i \in Timers : timer[i].set /\ timer[i].seen # NoToken => hasKeys
  /\ token # NoToken /\ shown.token # NoToken => hasKeys

\* A socket is told of a revocation after its grant is gone.
RevokedTold == \A s \in Sockets : net[s].events \in Revoking => net[s].url \in granted \ grants

\* localStorage has what was shown, or the page has just been loaded from it.
StoredFits ==
  stored # shown.token =>
    token = stored /\ socket = None /\ redeem = NoPairing /\ AllGone /\ \A i \in Timers : ~timer[i].set

BindingInv == OrderInv /\ SeesBinding /\ RevokedTold /\ StoredFits

\* A page at work shows what it has stored.
LEMMA ShowsStored ==
  ASSUME StoredFits
  PROVE  /\ \A s \in Sockets : net[s].state # "gone" => stored = shown.token
         /\ \A i \in Timers : timer[i].set => stored = shown.token
         /\ redeem # NoPairing => stored = shown.token
         /\ Rendered => stored = shown.token /\ token = stored
BY DEF StoredFits, AllGone, Rendered

\* Closing a socket tells none of a revocation.
LEMMA ClosedTold ==
  ASSUME NEW n, NetOK(n), NEW r \in Sockets \cup {None}
  PROVE  \A s \in Sockets : /\ Closed(n, r)[s].url = n[s].url
                            /\ Closed(n, r)[s].events \in Revoking => n[s].events \in Revoking
<1>1. <<"close">> \notin Revoking /\ n \in [Sockets -> SocketRecord]
  BY EventsWritten DEF NetOK
<1>2. CASE r # None /\ n[r].state \in {"connecting", "open"}
  <2>1. Closed(n, r) = [n EXCEPT ![r] = [n[r] EXCEPT !.state = "closing", !.events = <<"close">>]]
    BY <1>2 DEF Closed
  <2>2. n[r] \in SocketRecord
    BY <1>1, <1>2
  <2>3. /\ Closed(n, r)[r].url = n[r].url /\ Closed(n, r)[r].events = <<"close">>
        /\ \A s \in Sockets \ {r} : Closed(n, r)[s] = n[s]
    BY <1>1, <1>2, <2>1, <2>2 DEF SocketRecord
  <2> QED BY <1>1, <2>3
<1>3. CASE ~(r # None /\ n[r].state \in {"connecting", "open"})
  BY <1>3 DEF Closed
<1> QED BY <1>2, <1>3

\* disconnect() leaves nothing that would connect.
LEMMA DisconnectedBinding ==
  ASSUME ConnOK, RevokedTold, NEW n, NetOK(n), \A s \in Sockets : Alive(n, s) => s = socket,
         \A s \in Sockets : n[s].url = net[s].url /\ n[s].events = net[s].events,
         NEW t, NoTimers(t), Disconnect(n, t), UNCHANGED relay,
         token' # NoToken /\ shown'.token # NoToken => hasKeys'
  PROVE  SeesBinding' /\ RevokedTold'
<1>1. net' = Closed(n, socket) /\ timer' = t /\ socket \in Sockets \cup {None}
  BY DEF Disconnect, ConnOK
<1>2. \A s \in Sockets : ~Alive(net', s)
  BY <1>1, ClosedFits
<1>3. SeesBinding'
  BY <1>1, <1>2 DEF SeesBinding, Live, Alive, NoTimers
<1>4. \A s \in Sockets : net'[s].url = net[s].url /\ (net'[s].events \in Revoking => net[s].events \in Revoking)
  BY <1>1, ClosedTold
<1> QED BY <1>3, <1>4 DEF RevokedTold, relay

\* The new socket of connect() sees what its render saw.
LEMMA OpenedBinding ==
  ASSUME ConnOK, RevokedTold, NEW reset \in BOOLEAN, NEW use \in MaybeToken, NEW seen \in MaybeToken,
         NEW t, TimersOK(t), NoTimers(t), OpenSocket(reset, use, seen, t), UNCHANGED relay,
         use \in {token', NoToken}, seen \in {token', NoToken}, seen # NoToken => hasKeys',
         token' # NoToken /\ shown'.token # NoToken => hasKeys'
  PROVE  SeesBinding' /\ RevokedTold'
<1>1. /\ socket' \in Sockets
      /\ net'[socket'].url = use /\ net'[socket'].seen = seen /\ net'[socket'].events = <<>>
      /\ \A s \in Sockets \ {socket'} : net'[s] = Closed(net, socket)[s] /\ ~Alive(net', s)
  <2>1. /\ socket' \in Free
        /\ net'[socket'] = [state |-> "connecting", url |-> use, seen |-> seen, quiet |-> FALSE,
                           events |-> <<>>, older |-> IF InOrder THEN Sockets \ Free ELSE {}]
        /\ \A s \in Sockets \ {socket'} : net'[s] = Closed(net, socket)[s] /\ ~Alive(net', s)
    BY Opened
  <2> QED BY <2>1 DEF Free
<1>2. timer' = t
  BY DEF OpenSocket
<1>3. SeesBinding'
  BY <1>1, <1>2 DEF SeesBinding, Live, Alive, NoTimers
<1>4. <<>> \notin Revoking /\ NetOK(net) /\ socket \in Sockets \cup {None}
  BY EventsWritten DEF ConnOK
<1>5. \A s \in Sockets \ {socket'} :
        net'[s].url = net[s].url /\ (net'[s].events \in Revoking => net[s].events \in Revoking)
  BY <1>1, <1>4, ClosedTold
<1> QED BY <1>1, <1>3, <1>4, <1>5 DEF RevokedTold, relay

\* Either way of connect(); with the keys there it is never the one that resets.
LEMMA ConnectsBinding ==
  ASSUME ConnOK, RevokedTold, NEW reset \in BOOLEAN, NEW seen \in MaybeToken, seen \in {token, NoToken},
         NEW t, TimersOK(t), NoTimers(t), Connect(reset, seen, t), UNCHANGED <<relay, hasKeys, shown>>,
         seen # NoToken => hasKeys, token # NoToken /\ shown.token # NoToken => hasKeys
  PROVE  SeesBinding' /\ RevokedTold' /\ token' = token
<1>1. OpenSocket(reset, seen, seen, t) /\ token' = token
  BY DEF Connect
<1>2. UNCHANGED relay /\ hasKeys' = hasKeys /\ shown' = shown
  OBVIOUS
<1> QED BY <1>1, <1>2, OpenedBinding

\* It is so at first.
LEMMA BindingInvInit == Init => BindingInv
<1> SUFFICES ASSUME Init PROVE BindingInv
  OBVIOUS
<1>1. OrderInv
  BY OrderInvInit
<1>2. Gone.state = "gone" /\ Gone.events = <<>> /\ NotSet.set = FALSE /\ <<>> \notin Revoking
  BY EventsWritten DEF Gone, NotSet
<1>3. /\ \A s \in Sockets : net[s].state = "gone" /\ net[s].events \notin Revoking
      /\ \A i \in Timers : ~timer[i].set
  BY <1>2 DEF Init, Blank
<1>4. SeesBinding /\ RevokedTold
  BY <1>3 DEF Init, Unrendered, SeesBinding, RevokedTold, Live
<1>5. StoredFits
  BY <1>3 DEF Init, Blank, StoredFits, AllGone
<1> QED BY <1>1, <1>4, <1>5 DEF BindingInv

\* Only a revocation writes one to a socket's events.
LEMMA RelayKeepsBinding ==
  ASSUME ConnOK, RestOK, BindingInv, NEW s \in Sockets, NEW t,
         Answer(s) \/ Lose(s) \/ Revoke(t)
  PROVE  SeesBinding' /\ RevokedTold' /\ StoredFits' /\ token' = token
<1>1. net \in [Sockets -> SocketRecord] /\ SeesBinding /\ RevokedTold /\ StoredFits
  BY DEF ConnOK, NetOK, BindingInv
<1>2. /\ \A r \in Sockets : /\ net'[r].state = net[r].state /\ net'[r].url = net[r].url
                             /\ net'[r].seen = net[r].seen
      /\ \A r \in Sockets : net'[r].events \in Revoking =>
            net[r].events \in Revoking \/ (Revoke(t) /\ net[r].url = t)
  <2>1. CASE Answer(s)
    <3>1. PICK e \in {<<"open">>, <<"open", "AUTH_FAILED", "close">>} :
            net' = [net EXCEPT ![s] = [net[s] EXCEPT !.events = e]]
      BY <2>1 DEF Answer
    <3>2. e \notin Revoking /\ net[s] \in SocketRecord
      BY <1>1, EventsWritten
    <3>3. net'[s] = [net[s] EXCEPT !.events = e] /\ \A r \in Sockets \ {s} : net'[r] = net[r]
      BY <1>1, <3>1
    <3>4. /\ net'[s].state = net[s].state /\ net'[s].url = net[s].url /\ net'[s].seen = net[s].seen
          /\ net'[s].events \notin Revoking
      BY <3>2, <3>3 DEF SocketRecord
    <3> QED BY <3>3, <3>4
  <2>2. CASE Lose(s)
    <3>1. net' = [net EXCEPT ![s] = [net[s] EXCEPT !.events = <<"close">>]]
      BY <2>2 DEF Lose
    <3>2. <<"close">> \notin Revoking /\ net[s] \in SocketRecord
      BY <1>1, EventsWritten
    <3>3. net'[s] = [net[s] EXCEPT !.events = <<"close">>] /\ \A r \in Sockets \ {s} : net'[r] = net[r]
      BY <1>1, <3>1
    <3>4. /\ net'[s].state = net[s].state /\ net'[s].url = net[s].url /\ net'[s].seen = net[s].seen
          /\ net'[s].events \notin Revoking
      BY <3>2, <3>3 DEF SocketRecord
    <3> QED BY <3>3, <3>4
  <2>3. CASE Revoke(t)
    <3>1. ASSUME NEW r \in Sockets
          PROVE  /\ net'[r].state = net[r].state /\ net'[r].url = net[r].url /\ net'[r].seen = net[r].seen
                 /\ net'[r].events # net[r].events => net[r].url = t
      <4>1. net[r] \in SocketRecord
        BY <1>1
      <4>2. net'[r] = IF Serving(r) /\ net[r].url = t
                      THEN [net[r] EXCEPT !.events = @ \o <<"AUTH_REVOKED", "close">>] ELSE net[r]
        BY <2>3 DEF Revoke
      <4> QED BY <4>1, <4>2 DEF SocketRecord
    <3>2. \A r \in Sockets : net'[r].events = net[r].events \/ (Revoke(t) /\ net[r].url = t)
      BY <2>3, <3>1
    <3>3. \A r \in Sockets : net'[r].events \in Revoking =>
            net[r].events \in Revoking \/ (Revoke(t) /\ net[r].url = t)
      BY <3>2
    <3> QED BY <3>1, <3>3
  <2> QED BY <2>1, <2>2, <2>3
<1>3. UNCHANGED <<socket, timer, timerRef, token, shown, stored, hasKeys, redeem, granted>>
  BY DEF Answer, Lose, Revoke, binding, screen, relay
<1>4. SeesBinding'
  BY <1>1, <1>2, <1>3 DEF SeesBinding, Live
<1>5. grants' \subseteq grants /\ (Revoke(t) => t \in granted \ grants')
  BY DEF Answer, Lose, Revoke, relay, RestOK
<1>6. RevokedTold'
  BY <1>1, <1>2, <1>3, <1>5 DEF RevokedTold
<1>7. StoredFits'
  BY <1>1, <1>2, <1>3 DEF StoredFits, AllGone
<1> QED BY <1>3, <1>4, <1>6, <1>7

\* The listeners: the binding goes only with a socket that was told its grant is
\* revoked, and that grant is the binding's.
LEMMA ListenersKeepBinding ==
  ASSUME ConnOK, RestOK, BindingInv, NEW s \in Sockets, Listen(s)
  PROVE  /\ SeesBinding' /\ RevokedTold' /\ StoredFits'
         /\ token' = token \/ token \notin grants
<1>1. /\ net \in [Sockets -> SocketRecord] /\ net[s] \in SocketRecord /\ NetOK(net)
      /\ SeesBinding /\ RevokedTold /\ StoredFits /\ NoTimers(Cleared) /\ Fits(net[s].events, net[s].state)
  BY NoneLeft DEF ConnOK, NetOK, BindingInv, OrderInv
<1>2. UNCHANGED <<hasKeys, shown, stored, granted, grants, redeem>>
  BY DEF Listen, SocketOpened, AuthFailed, AuthRevoked, SocketClosed, binding, screen, relay
<1>3. stored = shown.token /\ StoredFits'
  <2>1. net[s].state # "gone"
    BY EventComes DEF Listen, SocketOpened, AuthFailed, AuthRevoked, SocketClosed
  <2> QED BY <1>1, <1>2, <2>1, ShowsStored DEF StoredFits
<1>4. CASE SocketOpened(s)
  <2>1. /\ net[s].state = "connecting" /\ Comes(s, "open")
        /\ net' = [net EXCEPT ![s] = [net[s] EXCEPT !.events = Tail(net[s].events), !.state = "open"]]
    BY <1>1, <1>4, EventComes DEF SocketOpened, Taken
  <2>2. Tail(net[s].events) \in Revoking <=> net[s].events \in Revoking
    BY <1>1, <2>1, EventsCome DEF Comes
  <2>3. /\ net'[s].state = "open" /\ net'[s].url = net[s].url /\ net'[s].seen = net[s].seen
        /\ net'[s].events = Tail(net[s].events)
        /\ \A r \in Sockets \ {s} : net'[r] = net[r]
    BY <1>1, <2>1 DEF SocketRecord
  <2>4. UNCHANGED <<timer, token>>
    BY <1>4 DEF SocketOpened, binding
  <2>5. SeesBinding'
    BY <1>1, <1>2, <2>1, <2>3, <2>4 DEF SeesBinding, Live
  <2>6. RevokedTold'
    BY <1>1, <1>2, <2>2, <2>3 DEF RevokedTold
  <2> QED BY <1>3, <2>4, <2>5, <2>6
<1>5. CASE AuthFailed(s)
  <2> DEFINE n == [net EXCEPT ![s].quiet = TRUE]
  <2>1. s = socket
    BY <1>5, EventComes DEF AuthFailed
  <2>2. net' = Closed(n, s) /\ timer' = Cleared /\ token' = token
    BY <1>5, <2>1 DEF AuthFailed, binding
  <2>3. NetOK(n) /\ \A r \in Sockets : Alive(n, r) => r = s
    BY <1>1, <2>1, QuietFits DEF ConnOK, OnlyOneOpen, Live, Alive
  <2>4. \A r \in Sockets : n[r].url = net[r].url /\ n[r].events = net[r].events
    BY <1>1 DEF SocketRecord
  <2> HIDE DEF n
  <2>5. \A r \in Sockets : ~Alive(net', r)
    BY <2>2, <2>3, ClosedFits
  <2>6. SeesBinding'
    BY <1>1, <1>2, <2>2, <2>5 DEF SeesBinding, Live, Alive, NoTimers
  <2>7. RevokedTold'
    BY <1>1, <1>2, <2>2, <2>3, <2>4, ClosedTold DEF RevokedTold
  <2> QED BY <1>3, <2>2, <2>6, <2>7
<1>6. CASE AuthRevoked(s)
  <2> DEFINE n == [net EXCEPT ![s].quiet = TRUE]
  <2>1. s = socket /\ net[s].events \in Revoking /\ net[s].state = "open"
    BY <1>6, EventComes DEF AuthRevoked
  <2>2. Disconnect(n, Cleared) /\ token' = NoToken
    BY <1>6, <2>1 DEF AuthRevoked, ResetSecureBinding
  <2>3. NetOK(n) /\ \A r \in Sockets : Alive(n, r) => r = socket
    BY <1>1, <2>1, QuietFits DEF ConnOK, OnlyOneOpen, Live, Alive
  <2>4. \A r \in Sockets : n[r].url = net[r].url /\ n[r].events = net[r].events
    BY <1>1 DEF SocketRecord
  <2> HIDE DEF n
  <2>5. SeesBinding' /\ RevokedTold'
    BY <1>1, <1>2, <2>2, <2>3, <2>4, DisconnectedBinding DEF relay
  <2>6. token \notin grants
    BY AppConstants, <1>1, <2>1 DEF RevokedTold, SeesBinding, Live, RestOK, MaybeToken
  <2> QED BY <1>3, <2>5, <2>6
<1>7. CASE SocketClosed(s)
  <2>1. /\ net' = [r \in Sockets |-> IF r = s THEN Gone ELSE [net[r] EXCEPT !.older = @ \ {s}]]
        /\ UNCHANGED <<manual, token>>
    BY <1>7 DEF SocketClosed, binding
  <2>2. net'[s].state = "gone" /\ net'[s].events \notin Revoking
    BY <2>1, EventsWritten DEF Gone
  <2>3. \A r \in Sockets \ {s} : /\ net'[r].state = net[r].state /\ net'[r].url = net[r].url
                                 /\ net'[r].seen = net[r].seen /\ net'[r].events = net[r].events
    BY <1>1, <2>1 DEF SocketRecord
  <2>4. RevokedTold'
    BY <1>1, <1>2, <2>2, <2>3 DEF RevokedTold
  <2>5. ASSUME NEW i \in Timers, timer'[i] # timer[i]
        PROVE  Live(s) /\ timer'[i] = Set(net[s].seen)
    <3>1. ~manual /\ ScheduleReconnect(net[s].seen) /\ socket \in {None, s}
      BY <1>7, <2>5 DEF SocketClosed
    <3>2. Live(s)
      <4>1. net[s].state # "gone"
        BY <1>7, EventComes DEF SocketClosed
      <4> QED BY <3>1, <4>1 DEF BindingInv, OrderInv, Youngest, AllGone
    <3>3. timer \in [Timers -> [set : BOOLEAN, seen : MaybeToken]]
      BY DEF ConnOK, TimersOK
    <3>4. PICK k \in Timers : timer' = [timer EXCEPT ![k] = Set(net[s].seen)]
      BY <3>1 DEF ScheduleReconnect
    <3>5. timer'[i] = Set(net[s].seen)
      BY <2>5, <3>3, <3>4
    <3> QED BY <3>2, <3>5
  <2>6. SeesBinding'
    BY <1>1, <1>2, <2>1, <2>2, <2>3, <2>5 DEF SeesBinding, Live, Set
  <2> QED BY <1>3, <2>1, <2>4, <2>6
<1> QED BY <1>4, <1>5, <1>6, <1>7 DEF Listen

\* Timers, renders, and what the user and the pairing do: no connect() finds a
\* token without keys, and a page that is loaded again has stored what it shows.
LEMMA PageKeepsBinding ==
  ASSUME ConnOK, RestOK, BindingInv, NEW i,
         \/ (i \in Timers /\ FireTimer(i)) \/ Render \/ RedeemAnswered \/ Paired
         \/ PressConnect \/ PressDisconnect \/ ClearBinding \/ Reload \/ RedeemPairingCode
  PROVE  /\ SeesBinding' /\ RevokedTold' /\ StoredFits'
         /\ token # NoToken /\ token' = NoToken => left'
<1>1. /\ NoTimers(Cleared) /\ TimersOK(Cleared)
      /\ \A k \in Timers : timer[k].set => NoTimers([timer EXCEPT ![k] = NotSet])
      /\ SeesBinding /\ RevokedTold /\ StoredFits /\ PairsUnpaired
      /\ NetOK(net) /\ \A s \in Sockets : Alive(net, s) => s = socket
  BY NoneLeft, ClearedTimers DEF BindingInv, OrderInv, ConnOK, OnlyOneOpen, Live, Alive
<1>2. token \in MaybeToken /\ NoToken \in MaybeToken
  BY DEF RestOK, MaybeToken
<1>3. token # NoToken /\ shown.token # NoToken => hasKeys
  BY <1>1 DEF SeesBinding
<1>4. stored = shown.token /\ UNCHANGED screen => StoredFits'
  BY DEF screen, StoredFits
<1>5. CASE i \in Timers /\ FireTimer(i)
  <2>1. TimersOK([timer EXCEPT ![i] = NotSet]) /\ NoTimers([timer EXCEPT ![i] = NotSet])
        /\ timer[i].set /\ timer[i].seen \in MaybeToken
    BY <1>1, <1>2, <1>5 DEF FireTimer, ConnOK, TimersOK, NotSet
  <2>2. timer[i].seen \in {token, NoToken} /\ (timer[i].seen # NoToken => hasKeys)
    BY <1>1, <1>5, <2>1 DEF SeesBinding
  <2>3. UNCHANGED <<relay, hasKeys, shown>> /\ UNCHANGED screen
        /\ Connect(FALSE, timer[i].seen, [timer EXCEPT ![i] = NotSet])
    BY <1>5 DEF FireTimer, screen
  <2>4. SeesBinding' /\ RevokedTold' /\ token' = token
    BY <1>1, <1>3, <2>1, <2>2, <2>3, ConnectsBinding
  <2>5. StoredFits'
    BY <1>1, <1>4, <1>5, <2>1, <2>3, ShowsStored
  <2> QED BY <2>4, <2>5
<1>6. CASE Render
  <2>1. shown' = [phase |-> phase, token |-> token] /\ stored' = token /\ hasKeys' = (token # NoToken)
        /\ UNCHANGED relay
    BY <1>6 DEF Render
  <2>2. StoredFits'
    BY <2>1 DEF StoredFits
  <2>3. CASE phase = "connected" /\ PhaseChanged /\ token = NoToken
    <3>1. Disconnect(net, Cleared) /\ token' = NoToken
      BY <1>6, <2>3 DEF Render, ResetSecureBinding
    <3>2. SeesBinding' /\ RevokedTold'
      BY <1>1, <2>1, <3>1, DisconnectedBinding
    <3> QED BY <2>2, <2>3, <3>2
  <2>4. CASE ~(phase = "connected" /\ PhaseChanged /\ token = NoToken) /\ AutoConnect
    <3>1. OpenSocket(FALSE, token, token, Cleared) /\ token' = token
      BY <1>6, <2>4 DEF Render
    <3>2. SeesBinding' /\ RevokedTold'
      BY <1>1, <1>2, <2>1, <3>1, OpenedBinding
    <3> QED BY <2>2, <3>1, <3>2
  <2>5. CASE ~(phase = "connected" /\ PhaseChanged /\ token = NoToken) /\ ~AutoConnect
    <3>1. UNCHANGED <<net, timer, token>>
      BY <1>6, <2>5 DEF Render, conn
    <3>2. SeesBinding'
      BY <1>1, <2>1, <3>1 DEF SeesBinding, Live
    <3>3. RevokedTold'
      BY <1>1, <2>1, <3>1 DEF RevokedTold, relay
    <3> QED BY <2>2, <3>1, <3>2, <3>3
  <2> QED BY <2>3, <2>4, <2>5
<1>7. CASE RedeemAnswered \/ RedeemPairingCode
  <2>1. UNCHANGED <<socket, net, timer, token, hasKeys, shown, stored>> /\ UNCHANGED screen
    BY <1>7 DEF RedeemAnswered, RedeemPairingCode, conn, binding, screen
  <2>2. SeesBinding'
    BY <1>1, <2>1 DEF SeesBinding, Live
  <2>3. granted \ grants \subseteq granted' \ grants'
    BY <1>7 DEF RedeemAnswered, RedeemPairingCode, relay
  <2>4. RevokedTold'
    BY <1>1, <2>1, <2>3 DEF RevokedTold
  <2>5. stored = shown.token
    BY <1>1, <1>7, ShowsStored DEF RedeemAnswered, RedeemPairingCode, Act, NoPairing
  <2> QED BY <1>4, <2>1, <2>2, <2>4, <2>5
<1>8. CASE Paired
  <2>1. redeem.token \in MaybeToken /\ redeem # NoPairing
    BY <1>8 DEF RestOK, Paired, NoPairing
  <2>2. token = NoToken /\ stored = shown.token
    BY <1>1, <2>1, ShowsStored DEF PairsUnpaired
  <2>3. OpenSocket(TRUE, redeem.token, NoToken, Cleared) /\ UNCHANGED relay /\ hasKeys' = TRUE
        /\ token' = redeem.token /\ UNCHANGED screen
    BY <1>8 DEF Paired
  <2>4. SeesBinding' /\ RevokedTold'
    BY <1>1, <1>2, <2>1, <2>3, OpenedBinding
  <2> QED BY <1>4, <2>2, <2>3, <2>4
<1>9. CASE PressConnect
  <2>1. Rendered /\ Connect(TRUE, token, Cleared) /\ UNCHANGED <<relay, hasKeys, shown>> /\ UNCHANGED screen
    BY <1>9 DEF PressConnect, Act, screen
  <2>2. token # NoToken => hasKeys
    BY <1>3, <2>1 DEF Rendered
  <2>3. SeesBinding' /\ RevokedTold' /\ token' = token
    BY <1>1, <1>2, <1>3, <2>1, <2>2, ConnectsBinding
  <2> QED BY <1>1, <1>4, <2>1, <2>3, ShowsStored
<1>10. CASE PressDisconnect \/ ClearBinding
  <2>1. /\ Rendered /\ Disconnect(net, Cleared) /\ UNCHANGED <<relay, hasKeys, shown>> /\ UNCHANGED screen
        /\ token' = token \/ token' = NoToken
        /\ left'
    BY <1>10 DEF PressDisconnect, ClearBinding, ResetSecureBinding, Act, binding, screen
  <2>2. token' # NoToken /\ shown'.token # NoToken => hasKeys'
    BY <1>3, <2>1
  <2>3. SeesBinding' /\ RevokedTold'
    BY <1>1, <2>1, <2>2, DisconnectedBinding
  <2> QED BY <1>1, <1>4, <2>1, <2>3, ShowsStored
<1>11. CASE Reload
  <2>1. Gone.state = "gone" /\ Gone.events = <<>> /\ NotSet.set = FALSE /\ <<>> \notin Revoking
    BY EventsWritten DEF Gone, NotSet
  <2>2. /\ net' = [s \in Sockets |-> Gone] /\ timer' = [k \in Timers |-> NotSet]
        /\ socket' = None /\ redeem' = NoPairing
        /\ shown'.token = NoToken /\ token' = stored /\ stored' = stored /\ Rendered
    BY <1>11 DEF Reload, Blank, Unrendered, Act
  <2>3. /\ \A s \in Sockets : net'[s].state = "gone" /\ net'[s].events \notin Revoking
        /\ \A k \in Timers : ~timer'[k].set
    BY <2>1, <2>2
  <2>4. SeesBinding' /\ RevokedTold' /\ StoredFits'
    BY <2>2, <2>3 DEF SeesBinding, RevokedTold, StoredFits, Live, AllGone
  <2>5. token' = token
    BY <1>1, <2>2, ShowsStored
  <2> QED BY <2>4, <2>5
<1> QED BY <1>5, <1>6, <1>7, <1>8, <1>9, <1>10, <1>11

\* Every step keeps all of it and gives up no binding in force but by the user.
LEMMA BindingInvNext ==
  ASSUME InOrder, BindingInv, [Next]_vars
  PROVE  BindingInv' /\ (token # NoToken /\ token' = NoToken => left' \/ token \notin grants)
<1> DEFINE Kept == /\ SeesBinding' /\ RevokedTold' /\ StoredFits'
                   /\ token # NoToken /\ token' = NoToken => left' \/ token \notin grants
<1>1. ConnOK /\ RestOK
  BY PageInvParts DEF BindingInv, OrderInv
<1>2. OrderInv'
  BY OrderInvNext DEF BindingInv
<1>3. CASE UNCHANGED vars
  <2>1. UNCHANGED <<token, hasKeys, shown, stored, socket, net, timer, redeem, granted, grants>>
    BY <1>3 DEF vars, conn, binding, screen, relay
  <2>2. SeesBinding'
    BY <2>1 DEF BindingInv, SeesBinding, Live
  <2>3. RevokedTold' /\ StoredFits'
    BY <2>1 DEF BindingInv, RevokedTold, StoredFits, AllGone
  <2> QED BY <1>2, <2>1, <2>2, <2>3 DEF BindingInv
<1>4. ASSUME NEW s \in Sockets, NEW t, Answer(s) \/ Lose(s) \/ Revoke(t) PROVE Kept
  BY <1>1, <1>4, RelayKeepsBinding
<1>5. ASSUME NEW s \in Sockets, Listen(s) PROVE Kept
  BY <1>1, <1>5, ListenersKeepBinding
<1>6. ASSUME NEW i, \/ (i \in Timers /\ FireTimer(i)) \/ Render \/ RedeemAnswered \/ Paired
                    \/ PressConnect \/ PressDisconnect \/ ClearBinding \/ Reload \/ RedeemPairingCode
      PROVE  Kept
  BY <1>1, <1>6, PageKeepsBinding
<1>7. \E s \in Sockets : TRUE
  BY AppConstants DEF Sockets
<1>8. CASE Next
  <2> HIDE DEF Kept
  <2>1. Kept
    BY <1>4, <1>5, <1>6, <1>7, <1>8 DEF Next, Listen
  <2> QED BY <1>2, <2>1 DEF Kept, BindingInv
<1> QED BY <1>3, <1>8

\* No order of events makes the page give up a binding in force: only its user
\* does.
THEOREM BindingKept == ASSUME InOrder PROVE AppSpec => LostOnlyIfRevoked
<1>1. Init => BindingInv
  BY BindingInvInit
<1>2. BindingInv /\ [Next]_vars => BindingInv'
  BY BindingInvNext
<1>3. BindingInv /\ [Next]_vars =>
        [token # NoToken /\ token' = NoToken => left' \/ token \notin grants]_vars
  BY BindingInvNext
<1> QED BY <1>1, <1>2, <1>3, PTL DEF AppSpec, LostOnlyIfRevoked
=============================================================================
