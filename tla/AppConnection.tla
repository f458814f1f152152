--------------------------- MODULE AppConnection ---------------------------
(***************************************************************************)
(* The browser's connection: app/src/App.tsx between a page load and the   *)
(* relay.  A listener or timer belongs to the render whose connect() made  *)
(* it and sees that render's token for ever: `seen` below.  State set in   *)
(* an event is on the page only after the next Render.                     *)
(***************************************************************************)
EXTENDS Naturals, Sequences

CONSTANTS
    Tokens,       \* access tokens the relay can grant
    NoToken,      \* the empty string of an unpaired page
    MaxSockets,   \* bound: sockets whose close event the page has not seen
    MaxTimers,    \* bound: reconnect timers neither fired nor cleared
    MaxLosses,    \* bound: connections lost
    MaxActs,      \* bound: what the user does
    InOrder       \* an older socket's close event comes before a younger one's

ASSUME AppConstants ==
    /\ NoToken \notin Tokens
    /\ MaxSockets \in Nat \ {0} /\ MaxTimers \in Nat \ {0}
    /\ MaxLosses \in Nat /\ MaxActs \in Nat
    /\ InOrder \in BOOLEAN

Sockets == 1..MaxSockets
Timers == 1..MaxTimers
MaybeToken == Tokens \cup {NoToken}
None == 0                  \* null in socketRef and reconnectTimerRef
NotSet == [set |-> FALSE, seen |-> NoToken]
Set(seen) == [set |-> TRUE, seen |-> seen]
NoPairing == [stage |-> "none", token |-> NoToken]

VARIABLES
    token,      \* clientToken: the binding, with its keys
    shown,      \* what the last render saw: [phase, token]
    hasKeys,    \* clientKeyPairRef and agentPublicKeyRef are set
    stored,     \* the token in localStorage
    phase,      \* connectionPhase
    manual,     \* manuallyDisconnectedRef
    socket,     \* socketRef
    net,        \* the WebSockets: [state, url, seen, quiet, events, older]
    timer,      \* the timers, and what the connect() they call sees
    timerRef,   \* reconnectTimerRef
    redeem,     \* the pairing under way and the token it got
    granted,    \* tokens the relay has issued
    grants,     \* tokens in force
    left,       \* history: the user disconnected or cleared the binding last
    losses, acts

conn == <<phase, manual, socket, net, timer, timerRef>>
binding == <<token, hasKeys>>
screen == <<shown, stored>>
relay == <<granted, grants>>
vars == <<conn, binding, screen, relay, redeem, left, losses, acts>>

Gone == [state |-> "gone", url |-> NoToken, seen |-> NoToken, quiet |-> FALSE,
         events |-> <<>>, older |-> {}]

\* The refs and state a page starts with.
Blank(ph, man, ref, socks, tms, tref) ==
    /\ ph = "idle" /\ man = FALSE
    /\ ref = None /\ socks = [s \in Sockets |-> Gone]
    /\ tms = [i \in Timers |-> NotSet] /\ tref = None
Unrendered == [phase |-> "idle", token |-> NoToken]

Init ==
    /\ stored \in MaybeToken
    /\ token = stored /\ hasKeys = FALSE /\ shown = Unrendered
    /\ Blank(phase, manual, socket, net, timer, timerRef)
    /\ redeem = NoPairing
    /\ granted = {stored} \ {NoToken} /\ grants = granted
    /\ left = FALSE /\ losses = 0 /\ acts = 0

-----------------------------------------------------------------------------
(***************************************************************************)
(* What the handlers share.                                                *)
(***************************************************************************)

Live(s) == net[s].state \in {"connecting", "open"}

\* WebSocket.close(): of its events only the close event still comes.
Closed(n, s) ==
    IF s # None /\ n[s].state \in {"connecting", "open"}
    THEN [n EXCEPT ![s].state = "closing", ![s].events = <<"close">>]
    ELSE n

\* Mutant of Cleared: the ref is emptied, the timer goes on.
Uncleared == timer

\* clearTimeout(reconnectTimerRef.current)
Cleared == [i \in Timers |-> IF i = timerRef THEN NotSet ELSE timer[i]]

\* disconnect() of a page with the sockets n and, the one in the ref cleared,
\* the timers t.
Disconnect(n, t) ==
    /\ manual' = TRUE /\ timer' = t /\ timerRef' = None
    /\ net' = Closed(n, socket) /\ socket' = None
    /\ phase' = "idle"

\* The key refs follow with the next render.
ResetSecureBinding(n, t) == Disconnect(n, t) /\ token' = NoToken

Free == {s \in Sockets : net[s].state = "gone"}

\* Mutant of OpenSocket: the socket before it is left open.
OpenBeside(reset, use, seen, t) ==
    /\ Free # {}
    /\ manual' = IF reset THEN FALSE ELSE manual
    /\ timer' = t /\ timerRef' = None
    /\ phase' = IF reset THEN "connecting" ELSE "reconnecting"
    /\ \E new \in Free :
          /\ socket' = new
          /\ net' = [net EXCEPT ![new] = [Gone EXCEPT !.state = "connecting", !.url = use, !.seen = seen]]

\* The part of connect() that opens a socket for the token `use`.
OpenSocket(reset, use, seen, t) ==
    /\ Free # {}
    /\ manual' = IF reset THEN FALSE ELSE manual
    /\ timer' = t /\ timerRef' = None
    /\ phase' = IF reset THEN "connecting" ELSE "reconnecting"
    /\ LET new == CHOOSE s \in Free : \A r \in Free : s <= r
       IN /\ socket' = new
          /\ net' = [Closed(net, socket) EXCEPT ![new] =
                        [state |-> "connecting", url |-> use, seen |-> seen, quiet |-> FALSE,
                         events |-> <<>>, older |-> IF InOrder THEN Sockets \ Free ELSE {}]]

\* connect(reset) of a render that sees the token `seen`.
Connect(reset, seen, t) ==
    IF seen # NoToken /\ ~hasKeys
    THEN ResetSecureBinding(net, t)
    ELSE OpenSocket(reset, seen, seen, t) /\ token' = token

-----------------------------------------------------------------------------
(***************************************************************************)
(* The relay and the network.                                              *)
(***************************************************************************)

Ends(s) == net[s].events # <<>> /\ net[s].events[Len(net[s].events)] = "close"

\* The relay has admitted s and knows of nothing that ended it.
Serving(s) == /\ Live(s) /\ ~Ends(s)
              /\ net[s].state = "open" \/ net[s].events # <<>>

Answer(s) ==
    /\ net[s].state = "connecting" /\ net[s].events = <<>>
    /\ net' = [net EXCEPT ![s].events =
                  IF net[s].url \in grants THEN <<"open">> ELSE <<"open", "AUTH_FAILED", "close">>]
    /\ UNCHANGED <<phase, manual, socket, timer, timerRef, binding, screen, relay, redeem, left, losses, acts>>

Revoke(t) ==
    /\ t \in grants
    /\ grants' = grants \ {t}
    /\ net' = [s \in Sockets |->
                  IF Serving(s) /\ net[s].url = t
                  THEN [net[s] EXCEPT !.events = @ \o <<"AUTH_REVOKED", "close">>]
                  ELSE net[s]]
    /\ UNCHANGED <<phase, manual, socket, timer, timerRef, binding, screen, granted, redeem, left, losses, acts>>

\* A connection, or the attempt to make one, fails.
Lose(s) ==
    /\ losses < MaxLosses /\ Live(s) /\ ~Ends(s)
    /\ losses' = losses + 1
    /\ net' = [net EXCEPT ![s].events = <<"close">>]
    /\ UNCHANGED <<phase, manual, socket, timer, timerRef, binding, screen, relay, redeem, left, acts>>

-----------------------------------------------------------------------------
(***************************************************************************)
(* The listeners of a socket.                                              *)
(***************************************************************************)

Comes(s, event) == net[s].events # <<>> /\ Head(net[s].events) = event

Taken(s) == [net EXCEPT ![s].events = Tail(@)]

SocketOpened(s) ==
    /\ Comes(s, "open")
    /\ net' = [Taken(s) EXCEPT ![s].state = "open"]
    /\ phase' = IF socket = s THEN "connected" ELSE phase
    /\ UNCHANGED <<manual, socket, timer, timerRef, binding, screen, relay, redeem, left, losses, acts>>

\* Mutant of AuthFailed: the binding is lost as it is for AUTH_REVOKED.
AuthFailedResets(s) ==
    /\ Comes(s, "AUTH_FAILED")
    /\ ResetSecureBinding([net EXCEPT ![s].quiet = TRUE], Cleared)
    /\ UNCHANGED <<hasKeys, screen, relay, redeem, left, losses, acts>>

\* A refused token stops the reconnects and keeps the binding.
AuthFailed(s) ==
    /\ Comes(s, "AUTH_FAILED")
    /\ IF socket = s
       THEN /\ manual' = TRUE /\ timer' = Cleared /\ timerRef' = None
            /\ phase' = "idle"
            /\ net' = Closed([net EXCEPT ![s].quiet = TRUE], s)
       ELSE net' = Taken(s) /\ UNCHANGED <<manual, timer, timerRef, phase>>
    /\ UNCHANGED <<socket, binding, screen, relay, redeem, left, losses, acts>>

\* A revoked one loses the binding.
AuthRevoked(s) ==
    /\ Comes(s, "AUTH_REVOKED")
    /\ IF socket = s
       THEN ResetSecureBinding([net EXCEPT ![s].quiet = TRUE], Cleared)
       ELSE net' = Taken(s) /\ UNCHANGED <<manual, timer, timerRef, phase, socket, token>>
    /\ UNCHANGED <<hasKeys, screen, relay, redeem, left, losses, acts>>

\* scheduleReconnect() of a render that sees `seen`.
ScheduleReconnect(seen) ==
    /\ phase' = "reconnecting"
    /\ \E i \in Timers : /\ ~timer[i].set
                         /\ \A j \in Timers : ~timer[j].set => i <= j
                         /\ timer' = [timer EXCEPT ![i] = Set(seen)]
                         /\ timerRef' = i

\* Mutant of SocketClosed: a first attempt that fails is not tried again.
SocketClosedOnce(s) ==
    /\ Comes(s, "close") /\ net[s].older = {}
    /\ net' = [r \in Sockets |-> IF r = s THEN Gone ELSE [net[r] EXCEPT !.older = @ \ {s}]]
    /\ socket' = IF socket = s THEN None ELSE socket
    /\ IF socket \notin {None, s} \/ phase = "connecting" THEN UNCHANGED <<phase, timer, timerRef>>
       ELSE IF net[s].quiet \/ manual THEN phase' = "idle" /\ UNCHANGED <<timer, timerRef>>
       ELSE ScheduleReconnect(net[s].seen)
    /\ UNCHANGED <<manual, binding, screen, relay, redeem, left, losses, acts>>

SocketClosed(s) ==
    /\ Comes(s, "close") /\ net[s].older = {}
    /\ net' = [r \in Sockets |-> IF r = s THEN Gone ELSE [net[r] EXCEPT !.older = @ \ {s}]]
    /\ socket' = IF socket = s THEN None ELSE socket
    /\ IF socket \notin {None, s} THEN UNCHANGED <<phase, timer, timerRef>>
       ELSE IF net[s].quiet \/ manual THEN phase' = "idle" /\ UNCHANGED <<timer, timerRef>>
       ELSE ScheduleReconnect(net[s].seen)
    /\ UNCHANGED <<manual, binding, screen, relay, redeem, left, losses, acts>>

\* Mutant of FireTimer: the connect() of the very first render.
FireTimerStale(i) ==
    /\ timer[i].set
    /\ Connect(FALSE, NoToken, [timer EXCEPT ![i] = NotSet])
    /\ UNCHANGED <<hasKeys, screen, relay, redeem, left, losses, acts>>

\* The timer calls connect(false).  It forgets the timer in the ref, which
\* need not be itself.
FireTimer(i) ==
    /\ timer[i].set
    /\ Connect(FALSE, timer[i].seen, [timer EXCEPT ![i] = NotSet])
    /\ UNCHANGED <<hasKeys, screen, relay, redeem, left, losses, acts>>

-----------------------------------------------------------------------------
(***************************************************************************)
(* Rendering.  The effects run with what it sees: the refs, localStorage,  *)
(* the first request of a connection, the automatic connect.               *)
(***************************************************************************)

Rendered == shown = [phase |-> phase, token |-> token]

\* connectionPhase or hasSecureBinding differs from the last render.
PhaseChanged == shown.phase # phase
BindingChanged == (shown.token = NoToken) # (token = NoToken)

AutoConnect ==
    /\ token # NoToken /\ (PhaseChanged \/ BindingChanged)
    /\ socket = None /\ phase = "idle" /\ ~manual

Render ==
    /\ ~Rendered
    /\ shown' = [phase |-> phase, token |-> token]
    /\ stored' = token
    /\ hasKeys' = (token # NoToken)
    /\ IF phase = "connected" /\ PhaseChanged /\ token = NoToken
       THEN ResetSecureBinding(net, Cleared)
       ELSE IF AutoConnect THEN OpenSocket(FALSE, token, token, Cleared) /\ token' = token
       ELSE UNCHANGED <<conn, token>>
    /\ UNCHANGED <<relay, redeem, left, losses, acts>>

-----------------------------------------------------------------------------
(***************************************************************************)
(* The user, who sees what was rendered.                                   *)
(***************************************************************************)

Act == Rendered /\ acts < MaxActs /\ acts' = acts + 1

PressConnect ==
    /\ Act /\ phase # "connecting"
    /\ Connect(TRUE, token, Cleared)
    /\ left' = FALSE
    /\ UNCHANGED <<hasKeys, screen, relay, redeem, losses>>

PressDisconnect ==
    /\ Act /\ phase # "idle"
    /\ Disconnect(net, Cleared)
    /\ left' = TRUE
    /\ UNCHANGED <<binding, screen, relay, redeem, losses>>

ClearBinding ==
    /\ Act
    /\ ResetSecureBinding(net, Cleared)
    /\ left' = TRUE
    /\ UNCHANGED <<hasKeys, screen, relay, redeem, losses>>

Reload ==
    /\ Act
    /\ token' = stored /\ hasKeys' = FALSE /\ shown' = Unrendered
    /\ Blank(phase', manual', socket', net', timer', timerRef')
    /\ redeem' = NoPairing /\ left' = FALSE
    /\ UNCHANGED <<stored, relay, losses>>

\* The pairing form is shown to an unpaired page only: its connect() sees none.
RedeemPairingCode ==
    /\ Act /\ token = NoToken /\ redeem = NoPairing
    /\ redeem' = [stage |-> "asked", token |-> NoToken]
    /\ UNCHANGED <<conn, binding, screen, relay, left, losses>>

\* The relay redeems the code, or refuses it.
RedeemAnswered ==
    /\ redeem.stage = "asked"
    /\ \/ \E t \in Tokens \ granted :
             /\ granted' = granted \cup {t} /\ grants' = grants \cup {t}
             /\ redeem' = [stage |-> "paired", token |-> t]
       \/ redeem' = NoPairing /\ UNCHANGED relay
    /\ UNCHANGED <<conn, binding, screen, left, losses, acts>>

Paired ==
    /\ redeem.stage = "paired"
    /\ token' = redeem.token /\ hasKeys' = TRUE
    /\ OpenSocket(TRUE, redeem.token, NoToken, Cleared)
    /\ redeem' = NoPairing /\ left' = FALSE
    /\ UNCHANGED <<screen, relay, losses, acts>>

-----------------------------------------------------------------------------
Next ==
    \/ \E s \in Sockets : \/ Answer(s) \/ Lose(s) \/ SocketOpened(s)
                          \/ AuthFailed(s) \/ AuthRevoked(s) \/ SocketClosed(s)
    \/ \E t \in Tokens : Revoke(t)
    \/ \E i \in Timers : FireTimer(i)
    \/ Render \/ RedeemAnswered \/ Paired
    \/ PressConnect \/ PressDisconnect \/ ClearBinding \/ Reload \/ RedeemPairingCode

AppSpec == Init /\ [][Next]_vars

Listen(s) == SocketOpened(s) \/ AuthFailed(s) \/ AuthRevoked(s) \/ SocketClosed(s)

\* React renders, sockets are answered or fail, events and timers come, a
\* pairing is answered.  Nothing makes the user act or a connection fail.
AppFairSpec ==
    /\ AppSpec
    /\ WF_vars(Render) /\ WF_vars(RedeemAnswered) /\ WF_vars(Paired)
    /\ \A s \in Sockets : WF_vars(Answer(s)) /\ WF_vars(Listen(s))
    /\ \A i \in Timers : WF_vars(FireTimer(i))

-----------------------------------------------------------------------------
(***************************************************************************)
(* Properties.                                                             *)
(***************************************************************************)

Events == {"open", "AUTH_FAILED", "AUTH_REVOKED", "close"}
SocketRecord == [state : {"gone", "connecting", "open", "closing"}, url : MaybeToken,
                 seen : MaybeToken, quiet : BOOLEAN, events : Seq(Events), older : SUBSET Sockets]

\* The page says "connected" exactly while the socket it uses is open.
PhaseTruth == phase = "connected" <=> socket # None /\ net[socket].state = "open"

\* Every ref and state variable of the page has its type, and the phase shown is
\* the socket's.
AppTypeOK ==
    /\ token \in MaybeToken /\ stored \in MaybeToken
    /\ shown \in [phase : {"idle", "connecting", "reconnecting", "connected"}, token : MaybeToken]
    /\ hasKeys \in BOOLEAN /\ manual \in BOOLEAN /\ left \in BOOLEAN
    /\ phase \in {"idle", "connecting", "reconnecting", "connected"}
    /\ socket \in Sockets \cup {None} /\ timerRef \in Timers \cup {None}
    /\ net \in [Sockets -> SocketRecord]
    /\ timer \in [Timers -> [set : BOOLEAN, seen : MaybeToken]]
    /\ redeem \in [stage : {"none", "asked", "paired"}, token : MaybeToken]
    /\ granted \subseteq Tokens /\ grants \subseteq granted
    /\ losses \in 0..MaxLosses /\ acts \in 0..MaxActs
    /\ PhaseTruth

\* Every socket the page no longer uses has been closed: the relay serves one
\* page over one connection.
OnlyOneOpen == \A s \in Sockets : Live(s) => s = socket

\* Both: the phase on the page is true of the only connection.
AppInv == AppTypeOK /\ OnlyOneOpen

\* A page that nothing told to stay off has a socket, a timer or a render to
\* come that will make one: no order of events leaves it waiting for nobody.
NotForgotten ==
    /\ phase \in {"connecting", "reconnecting"} =>
          socket # None \/ \E i \in Timers : timer[i].set
    /\ token # NoToken /\ ~manual =>
          socket # None \/ ~Rendered \/ \E i \in Timers : timer[i].set

\* Once reconnecting was stopped no timer is left that would connect again.
StaysOff == manual => \A i \in Timers : ~timer[i].set

\* The page gives its binding up only for a grant that was revoked, or because
\* its user said so.
LostOnlyIfRevoked ==
    [][token # NoToken /\ token' = NoToken => left' \/ token \notin grants]_vars

Connected == phase = "connected" /\ socket # None /\ net[socket].url = token

\* What will connect next sees the token of the binding.
Fresh == /\ socket # None => net[socket].seen = token
         /\ \A i \in Timers : timer[i].set => timer[i].seen = token

\* A lost connection comes back for as long as the grant is in force and the
\* user does not leave, if connect() was called by a render of this binding.
Reconnects ==
    token \in grants /\ ~left /\ ~manual /\ Fresh ~> Connected \/ left \/ token \notin grants

\* The same without that condition: after a pairing on this very page, too.
StaysReachable ==
    token \in grants /\ ~left ~> Connected \/ left \/ token \notin grants
=============================================================================
