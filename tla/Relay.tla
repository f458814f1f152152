------------------------------- MODULE Relay -------------------------------
(***************************************************************************)
(* relay/src/server.ts: the relay's connections.  Agents register one per  *)
(* device, browsers are admitted with the access token of a grant, and the *)
(* relay routes encrypted envelopes between the two.  The grants are those *)
(* of AuthStore, whose operations the HTTP and WebSocket handlers call.    *)
(*                                                                         *)
(* A handler runs to its next await.  Admission and revocation each await  *)
(* the store: with the memory and SQLite stores the rest of the handler is *)
(* a microtask, which nothing can come before, with PostgreSQL it is a     *)
(* later event (AsyncStore).                                               *)
(***************************************************************************)
EXTENDS AuthStore

CONSTANTS
  AgentConns,   \* WebSocket connections agents open, one after another
  ClientConns,  \* WebSocket connections browsers open
  AgentDevice,  \* the deviceId each agent connection names in its URL
  ClientToken,  \* the token each browser connection brings in its URL
  NoConn,       \* no connection registered
  NoDevice,     \* the scope of a connection that has none yet
  AsyncStore    \* TRUE when the store answers in a later event

ASSUME RelayAssumption ==
  /\ AsyncStore \in BOOLEAN
  /\ AgentDevice \in [AgentConns -> Devices]
  /\ ClientToken \in [ClientConns -> Tokens]
  /\ NoConn \notin AgentConns
  /\ NoDevice \notin Devices

VARIABLES
  agents,       \* Map deviceId -> agent connection
  clients,      \* the Set of admitted browser connections
  agentReady,   \* agent connection -> state of its socket
  clientSock,   \* browser connection -> [ready, phase, scope]
  told,         \* browser connection -> was its device online in the last relay.state?
  revoking,     \* tokens deleted from the store whose clients are not yet disconnected
  sent          \* the envelopes the last step put on a socket

connVars == <<agents, clients, agentReady, clientSock, told, revoking, sent>>
vars == <<storeVars, connVars>>

Ready == {"none", "open", "closing", "closed"}
Phase == {"none", "lookup", "found", "missing", "admitted", "refused"}
ClientSock == [ready : Ready, phase : Phase, scope : Devices \cup {NoDevice}]
Envelope == [type : {"secure.agent"}, to : ClientConns, from : AgentConns, deviceId : Devices, token : Tokens]
       \cup [type : {"secure.client"}, to : AgentConns, from : ClientConns, deviceId : Devices, token : Tokens]

\* socket.close() on a socket in a given state.
Closing(ready) == IF ready = "open" THEN "closing" ELSE ready

Online(d) == agents[d] # NoConn

\* No continuation is due: the event loop may take the next event.
Idle ==
  AsyncStore \/ (revoking = {} /\ \A c \in ClientConns : clientSock[c].phase \notin {"lookup", "found", "missing"})

Init ==
  /\ StoreInit
  /\ agents = [d \in Devices |-> NoConn]
  /\ clients = {}
  /\ agentReady = [a \in AgentConns |-> "none"]
  /\ clientSock = [c \in ClientConns |-> [ready |-> "none", phase |-> "none", scope |-> NoDevice]]
  /\ told = [c \in ClientConns |-> FALSE]
  /\ revoking = {}
  /\ sent = {}

\* broadcastRelayState: every admitted browser whose socket is open is told
\* which of its devices (serializeForClient filters by scope) have an agent.
BroadcastRelayState ==
  told' = [c \in ClientConns |->
             IF c \in clients /\ clientSock[c].ready = "open"
             THEN agents'[clientSock[c].scope] # NoConn ELSE told[c]]

-----------------------------------------------------------------------------
\* role=agent: the newest connection of a device takes over from the one before.
AgentConnect(a) ==
  LET d == AgentDevice[a] IN
  /\ Idle
  /\ agentReady[a] = "none"
  /\ agentReady' = [x \in AgentConns |->
       CASE x = a         -> "open"
         [] x = agents[d] -> "closing"
         [] OTHER         -> agentReady[x]]
  /\ agents' = [agents EXCEPT ![d] = a]
  /\ BroadcastRelayState
  /\ sent' = {}
  /\ UNCHANGED <<storeVars, clients, clientSock, revoking>>

\* Mutant of AgentClose: the device's entry is deleted whoever holds it.
AgentCloseAny(a) ==
  /\ Idle
  /\ agentReady[a] \in {"open", "closing"}
  /\ agentReady' = [agentReady EXCEPT ![a] = "closed"]
  /\ agents' = [agents EXCEPT ![AgentDevice[a]] = NoConn]
  /\ BroadcastRelayState
  /\ sent' = {}
  /\ UNCHANGED <<storeVars, clients, clientSock, revoking>>

\* The close event of an agent's socket, which may come long after it was replaced.
AgentClose(a) ==
  LET d == AgentDevice[a] IN
  /\ Idle
  /\ agentReady[a] \in {"open", "closing"}
  /\ agentReady' = [agentReady EXCEPT ![a] = "closed"]
  /\ agents' = IF agents[d] = a THEN [agents EXCEPT ![d] = NoConn] ELSE agents
  /\ BroadcastRelayState
  /\ sent' = {}
  /\ UNCHANGED <<storeVars, clients, clientSock, revoking>>

\* A secure.agent envelope, which names the agent's own device, for the holder of
\* token t: dropped when the sender is not the device's agent any more, else sent
\* to the browsers it is meant for.
AgentMessage(a, t) ==
  LET d == AgentDevice[a] IN
  /\ Idle
  /\ agentReady[a] \in {"open", "closing"}
  /\ agents[d] = a
  /\ sent' = {[type |-> "secure.agent", to |-> c, from |-> a, deviceId |-> d, token |-> t] :
                c \in {x \in clients : /\ clientSock[x].ready = "open"
                                       /\ ClientToken[x] = t
                                       /\ clientSock[x].scope = d}}
  /\ UNCHANGED <<storeVars, agents, clients, agentReady, clientSock, told, revoking>>

-----------------------------------------------------------------------------
\* role=client, up to the await of getGrantByAccessToken.
ClientConnect(c) ==
  /\ Idle
  /\ clientSock[c].ready = "none"
  /\ clientSock' = [clientSock EXCEPT ![c].ready = "open", ![c].phase = "lookup"]
  /\ sent' = {}
  /\ UNCHANGED <<storeVars, agents, clients, agentReady, told, revoking>>

\* The store looks the token up.  The answer is what it saw then; a grant
\* without a browser key is refused like no grant.
ClientLookup(c) ==
  LET t == ClientToken[c]
      usable == {g \in grants : g.accessToken = t /\ g.clientPublicKey # NoKey}
  IN
  /\ clientSock[c].phase = "lookup"
  /\ GetGrantByAccessToken(t)
  /\ \/ \E g \in usable :
          clientSock' = [clientSock EXCEPT
                           ![c] = [ready |-> @.ready, phase |-> "found", scope |-> g.deviceId]]
     \/ /\ usable = {}
        /\ clientSock' = [clientSock EXCEPT ![c].phase = "missing"]
  /\ sent' = {}
  /\ UNCHANGED <<agents, clients, agentReady, told, revoking>>

\* The continuation with a grant: added to the clients and told the state of its
\* device whatever became of the socket meanwhile (a send on a closed one is void);
\* the message and close handlers are registered only now.
ClientAdmit(c) ==
  /\ clientSock[c].phase = "found"
  /\ clients' = clients \cup {c}
  /\ clientSock' = [clientSock EXCEPT ![c].phase = "admitted"]
  /\ told' = [told EXCEPT ![c] = Online(clientSock[c].scope)]
  /\ sent' = {}
  /\ UNCHANGED <<storeVars, agents, agentReady, revoking>>

\* The continuation without one: AUTH_FAILED and close.
ClientRefuse(c) ==
  /\ clientSock[c].phase = "missing"
  /\ clientSock' = [clientSock EXCEPT ![c].phase = "refused",
                      ![c].ready = Closing(@)]
  /\ sent' = {}
  /\ UNCHANGED <<storeVars, agents, clients, agentReady, told, revoking>>

\* The close event of a browser's socket reaches only a handler that is registered.
ClientClose(c) ==
  /\ Idle
  /\ clientSock[c].ready \in {"open", "closing"}
  /\ clientSock' = [clientSock EXCEPT ![c].ready = "closed"]
  /\ clients' = IF clientSock[c].phase = "admitted" THEN clients \ {c} ELSE clients
  /\ sent' = {}
  /\ UNCHANGED <<storeVars, agents, agentReady, told, revoking>>

\* Mutant of ClientMessage: the device it names is not compared with its scope.
ClientMessageAnywhere(c, d, t) ==
  /\ Idle
  /\ clientSock[c].phase = "admitted"
  /\ clientSock[c].ready \in {"open", "closing"}
  /\ sent' = IF t = ClientToken[c] /\ Online(d) /\ agentReady[agents[d]] = "open"
             THEN {[type |-> "secure.client", to |-> agents[d], from |-> c, deviceId |-> d,
                    token |-> ClientToken[c]]}
             ELSE {}
  /\ UNCHANGED <<storeVars, agents, clients, agentReady, clientSock, told, revoking>>

\* A secure.client envelope that names device d and claims token t: forwarded with
\* the connection's own token, or answered with an error and forwarded to nobody.
ClientMessage(c, d, t) ==
  LET a == agents[d]
      allowed == d = clientSock[c].scope /\ t = ClientToken[c] /\ Online(d)
  IN
  /\ Idle
  /\ clientSock[c].phase = "admitted"
  /\ clientSock[c].ready \in {"open", "closing"}
  /\ sent' = IF allowed /\ agentReady[a] = "open"
             THEN {[type |-> "secure.client", to |-> a, from |-> c, deviceId |-> d,
                    token |-> ClientToken[c]]}
             ELSE {}
  /\ UNCHANGED <<storeVars, agents, clients, agentReady, clientSock, told, revoking>>

-----------------------------------------------------------------------------
\* DELETE /api/devices/:deviceId/grants/:accessToken, up to the store's answer ...
RevokeStore(d, t) ==
  /\ Idle
  /\ RevokeGrant(d, t)
  /\ revoking' = revoking \cup {t}
  /\ sent' = {}
  /\ UNCHANGED <<agents, clients, agentReady, clientSock, told>>

\* Mutant of RevokeDisconnect: nobody is disconnected.
RevokeOnly(t) ==
  /\ t \in revoking
  /\ revoking' = revoking \ {t}
  /\ sent' = {}
  /\ UNCHANGED <<storeVars, agents, clients, agentReady, clientSock, told>>

\* ... and after it: disconnectClientsByAccessToken.
RevokeDisconnect(t) ==
  /\ t \in revoking
  /\ revoking' = revoking \ {t}
  /\ clientSock' = [c \in ClientConns |->
       IF c \in clients /\ ClientToken[c] = t
       THEN [clientSock[c] EXCEPT !.ready = Closing(@)] ELSE clientSock[c]]
  /\ sent' = {}
  /\ UNCHANGED <<storeVars, agents, clients, agentReady, told>>

\* POST /api/pairing-codes: only for a device whose agent is connected, though a
\* store of its own events may write the code when the agent has just gone.
PostPairingCode(d, key, code) ==
  /\ Idle
  /\ AsyncStore \/ Online(d)
  /\ CreatePairingCode(d, key, code)
  /\ sent' = {}
  /\ UNCHANGED <<agents, clients, agentReady, clientSock, told, revoking>>

\* POST /api/pairings/redeem
PostRedeem(p, key, t) ==
  /\ Idle
  /\ RedeemPairingCode(p, key, t)
  /\ sent' = {}
  /\ UNCHANGED <<agents, clients, agentReady, clientSock, told, revoking>>

ClockTick == Idle /\ Tick /\ sent' = {} /\ UNCHANGED <<agents, clients, agentReady, clientSock, told, revoking>>

Next ==
  \/ \E a \in AgentConns : AgentConnect(a)
  \/ \E a \in AgentConns : AgentClose(a)
  \/ \E a \in AgentConns, t \in Tokens : AgentMessage(a, t)
  \/ \E c \in ClientConns : ClientConnect(c)
  \/ \E c \in ClientConns : ClientLookup(c)
  \/ \E c \in ClientConns : ClientAdmit(c)
  \/ \E c \in ClientConns : ClientRefuse(c)
  \/ \E c \in ClientConns : ClientClose(c)
  \/ \E c \in ClientConns, d \in Devices, t \in Tokens : ClientMessage(c, d, t)
  \/ \E d \in Devices, t \in Tokens : RevokeStore(d, t)
  \/ \E t \in Tokens : RevokeDisconnect(t)
  \/ \E d \in Devices, key \in AgentKeys, code \in Codes : PostPairingCode(d, key, code)
  \/ \E p \in pairings, key \in ClientKeys, t \in Tokens : PostRedeem(p, key, t)
  \/ ClockTick

Spec == Init /\ [][Next]_vars

-----------------------------------------------------------------------------
\* The maps hold connections of the right kind.
RelayTypeOK ==
  /\ StoreTypeOK
  /\ agents \in [Devices -> AgentConns \cup {NoConn}]
  /\ clients \subseteq ClientConns
  /\ agentReady \in [AgentConns -> Ready]
  /\ clientSock \in [ClientConns -> ClientSock]
  /\ told \in [ClientConns -> BOOLEAN]
  /\ revoking \subseteq Tokens
  /\ sent \subseteq Envelope

Granted(t, d) == \E g \in grants : g.accessToken = t /\ g.deviceId = d

\* docs/security-design.md: "grant 撤销后，relay 会主动断开对应 client 连接".
\* No admitted browser keeps an open socket once the revocation of its grant is
\* done: a revocation may fall before, between or after the steps of admission.
RevokedDisconnected ==
  \A c \in clients :
    clientSock[c].ready = "open" =>
      Granted(ClientToken[c], clientSock[c].scope) \/ ClientToken[c] \in revoking

\* An agent connection that is still open is the one its device is routed to: a
\* replaced connection's late close event does not unregister its successor.
OpenAgentRegistered ==
  \A a \in AgentConns : agentReady[a] = "open" <=> agents[AgentDevice[a]] = a

\* What a browser was last told of its device is what the relay routes by, also
\* when the agent came, went or was replaced while the browser was being admitted.
ToldTruth ==
  \A c \in clients : clientSock[c].ready = "open" => told[c] = Online(clientSock[c].scope)

\* A browser whose socket is gone is not kept in the set of clients.
NoGhostClient == \A c \in clients : clientSock[c].ready # "closed"

\* Where messages for a device go and what its browsers were told of it agree with the
\* connections that are open.
RoutingTrue == OpenAgentRegistered /\ ToldTruth

\* What is gone or revoked is cut off.
CutOff == RevokedDisconnected /\ NoGhostClient

\* The tokens that came out of a pairing code, with the device whose agent asked for it.
Paired ==
  {td \in Tokens \X Devices :
     \E r \in redemptions, p \in pairings :
       r.accessToken = td[1] /\ r.code = p.code /\ p.deviceId = td[2]}

\* An envelope travels only between the registered agent of a device and an admitted
\* browser whose token was made from a code issued for that device.
RoutedInScope ==
  \A e \in sent :
    /\ <<e.token, e.deviceId>> \in Paired
    /\ e.type = "secure.agent" =>
         /\ agents[e.deviceId] = e.from
         /\ e.to \in clients /\ ClientToken[e.to] = e.token
    /\ e.type = "secure.client" =>
         /\ agents[e.deviceId] = e.to
         /\ e.from \in clients /\ ClientToken[e.from] = e.token
=============================================================================
