--------------------------- MODULE SecureChannel ---------------------------
(***************************************************************************)
(* Who holds which key: the device key in its file, in the daemon and in   *)
(* the pairing codes (agent/src/state-store.ts, cli.ts), and the daemon's  *)
(* cache of the browsers' keys, refreshed from the relay by several tasks  *)
(* at once (agent/src/daemon.ts).  A task runs from one await to the next. *)
(* A browser stands for its access token and its own key pair.             *)
(***************************************************************************)
EXTENDS Naturals, FiniteSets

CONSTANTS
    Browsers,     \* access tokens of one device
    Keys,         \* device keys that can be generated
    NoKey,
    Shells,       \* terminals: `termpilot agent --pair`, `termpilot pair`
    Handlers,     \* tasks nobody waits for: message handlers, refreshes on connecting
    Loop,         \* the task of the sync loop
    MaxPairings,  \* bound: pairing commands
    MaxEvents     \* bound: connections made, refreshes that fail, daemons stopped, key files lost

ASSUME ChannelConstants ==
    /\ NoKey \notin Keys /\ Loop \notin Handlers
    /\ MaxPairings \in Nat /\ MaxEvents \in Nat

Tasks == Handlers \cup {Loop}

VARIABLES
    keyFile,    \* device-key.json
    daemon,     \* [at, key]: deviceKeyPair
    shell,      \* [at, key]
    codes,      \* the relay: device keys of the codes not yet redeemed
    agentKey,   \* the device key each browser was given
    grants,     \* the relay: tokens in force
    cache,      \* grantPublicKeys
    due,        \* the last refresh is GRANT_REFRESH_INTERVAL_MS ago
    task,       \* [at, next, who, left, owed, answer]
    request,    \* each browser's request: none, sent, dropped
    used,       \* keys generated so far
    raced,      \* history: two keys were generated at once, or `pair` was typed without one
    lost,       \* history: the file was lost
    failed,     \* history: a refresh failed
    older,      \* history: whom the broadcast owes and an older answer took out of the cache
    pairings, events

keys == <<keyFile, daemon, shell, codes, used, raced, lost>>
counts == <<older, failed, pairings, events>>
vars == <<keyFile, daemon, shell, codes, agentKey, grants, cache, due, task, request,
          used, raced, lost, older, failed, pairings, events>>

Idle == [at |-> "idle", next |-> "none", who |-> {}, left |-> {}, owed |-> {}, answer |-> {}]
AtRest == [at |-> "none", key |-> NoKey]

ChannelInit ==
    /\ keyFile = NoKey /\ used = {} /\ raced = FALSE /\ lost = FALSE
    /\ daemon = [at |-> "off", key |-> NoKey]
    /\ shell = [c \in Shells |-> AtRest]
    /\ codes = {} /\ grants = {} /\ agentKey = [b \in Browsers |-> NoKey]
    /\ cache = {} /\ due = TRUE
    /\ task = [t \in Tasks |-> Idle] /\ request = [b \in Browsers |-> "none"]
    /\ older = {} /\ failed = FALSE /\ pairings = 0 /\ events = 0

-----------------------------------------------------------------------------
(***************************************************************************)
(* getOrCreateDeviceKeyPairAsync(): read the file, else generate and write. *)
(***************************************************************************)

Generating == {c \in Shells : shell[c].at = "generate"}

\* A key is about to be generated while another is.
Races == raced \/ Generating # {} \/ daemon.at = "generate"

\* generateE2EEKeyPair(): never one there was.
NewKey == CHOOSE k \in Keys : k \notin used

\* Mutant of DaemonReadKey: every daemon has a key of its own.
DaemonNewKey ==
    /\ daemon.at = "start"
    /\ daemon' = [daemon EXCEPT !.at = "generate"]
    /\ UNCHANGED <<keyFile, shell, codes, used, raced, lost, agentKey, grants, cache, due, task, request, counts>>

DaemonReadKey ==
    /\ daemon.at = "start"
    /\ IF keyFile # NoKey
       THEN daemon' = [at |-> "refresh", key |-> keyFile] /\ UNCHANGED raced
       ELSE daemon' = [daemon EXCEPT !.at = "generate"] /\ raced' = Races
    /\ UNCHANGED <<keyFile, shell, codes, used, lost, agentKey, grants, cache, due, task, request, counts>>

DaemonWriteKey ==
    /\ daemon.at = "generate"
    /\ used # Keys /\ used' = used \cup {NewKey} /\ keyFile' = NewKey
    /\ daemon' = [at |-> "refresh", key |-> NewKey]
    /\ UNCHANGED <<shell, codes, raced, lost, agentKey, grants, cache, due, task, request, counts>>

ReadKey(c) ==
    /\ shell[c].at = "key"
    /\ IF keyFile # NoKey
       THEN shell' = [shell EXCEPT ![c].at = "ask", ![c].key = keyFile] /\ UNCHANGED raced
       ELSE shell' = [shell EXCEPT ![c].at = "generate"] /\ raced' = Races
    /\ UNCHANGED <<keyFile, daemon, codes, used, lost, agentKey, grants, cache, due, task, request, counts>>

WriteKey(c) ==
    /\ shell[c].at = "generate"
    /\ used # Keys /\ used' = used \cup {NewKey} /\ keyFile' = NewKey
    /\ shell' = [shell EXCEPT ![c].at = "ask", ![c].key = NewKey]
    /\ UNCHANGED <<daemon, codes, raced, lost, agentKey, grants, cache, due, task, request, counts>>

-----------------------------------------------------------------------------
(***************************************************************************)
(* The commands.                                                           *)
(***************************************************************************)

\* `pair` is for a machine whose device key exists.
Type(c, op) ==
    /\ shell[c] = AtRest /\ pairings < MaxPairings
    /\ pairings' = pairings + 1
    /\ shell' = [shell EXCEPT ![c].at = IF op = "agent --pair" THEN "run" ELSE "key"]
    /\ raced' = (raced \/ (op = "pair" /\ keyFile = NoKey /\ daemon.key # NoKey))
    /\ UNCHANGED <<keyFile, daemon, codes, used, lost, agentKey, grants, cache, due, task, request, older, failed, events>>

\* What a daemon that stops takes with it.
Stopped ==
    /\ daemon' = [at |-> "off", key |-> NoKey]
    /\ cache' = {} /\ due' = TRUE
    /\ task' = [t \in Tasks |-> Idle]
    /\ request' = [b \in Browsers |-> IF request[b] = "sent" THEN "none" ELSE request[b]]

\* Mutant of RunStart: the daemon is left running without a key on disk.
RunStartAnyway(c) ==
    /\ shell[c].at = "run"
    /\ daemon' = IF daemon.at = "off" THEN [daemon EXCEPT !.at = "start"] ELSE daemon
    /\ shell' = [shell EXCEPT ![c].at = "key"]
    /\ UNCHANGED <<cache, due, task, request, keyFile, codes, used, raced, lost, agentKey, grants, counts>>

\* runStart(): a running daemon whose key is not on disk is restarted.
RunStart(c) ==
    /\ shell[c].at = "run"
    /\ IF daemon.at = "off"
       THEN /\ daemon' = [daemon EXCEPT !.at = "start"]
            /\ shell' = [shell EXCEPT ![c].at = "key"]
            /\ UNCHANGED <<cache, due, task, request>>
       ELSE IF keyFile = NoKey THEN Stopped /\ UNCHANGED shell
       ELSE /\ shell' = [shell EXCEPT ![c].at = "key"]
            /\ UNCHANGED <<daemon, cache, due, task, request>>
    /\ UNCHANGED <<keyFile, codes, used, raced, lost, agentKey, grants, counts>>

\* createPairingCode(): the relay wants the daemon connected.
AskCode(c) ==
    /\ shell[c].at = "ask" /\ daemon.at = "up"
    /\ codes' = codes \cup {shell[c].key}
    /\ shell' = [shell EXCEPT ![c] = AtRest]
    /\ UNCHANGED <<keyFile, daemon, used, raced, lost, agentKey, grants, cache, due, task, request, counts>>

\* No daemon connected, at once or after twelve attempts.
AskFails(c) ==
    /\ shell[c].at = "ask" /\ daemon.at # "up"
    /\ shell' = [shell EXCEPT ![c] = AtRest]
    /\ UNCHANGED <<keyFile, daemon, codes, used, raced, lost, agentKey, grants, cache, due, task, request, counts>>

StopDaemon ==
    /\ daemon.at # "off" /\ events < MaxEvents /\ events' = events + 1
    /\ Stopped
    /\ UNCHANGED <<keyFile, shell, codes, used, raced, lost, agentKey, grants, older, failed, pairings>>

\* The user removes the file, or restores a home without it.
LoseKeyFile ==
    /\ keyFile # NoKey /\ events < MaxEvents /\ events' = events + 1
    /\ keyFile' = NoKey /\ lost' = TRUE
    /\ raced' = (raced \/ \E c \in Shells : shell[c].at # "none")
    /\ UNCHANGED <<daemon, shell, codes, used, agentKey, grants, cache, due, task, request, older, failed, pairings>>

-----------------------------------------------------------------------------
(***************************************************************************)
(* The relay's side, and the browsers.                                     *)
(***************************************************************************)

Redeem(b) ==
    /\ agentKey[b] = NoKey
    /\ \E k \in codes : codes' = codes \ {k} /\ agentKey' = [agentKey EXCEPT ![b] = k]
    /\ grants' = grants \cup {b}
    /\ UNCHANGED <<keyFile, daemon, shell, used, raced, lost, cache, due, task, request, counts>>

Revoke(b) ==
    /\ b \in grants
    /\ grants' = grants \ {b}
    /\ task' = [t \in Tasks |-> [task[t] EXCEPT !.owed = @ \ {b}]]
    /\ UNCHANGED <<keys, agentKey, cache, due, request, counts>>

-----------------------------------------------------------------------------
(***************************************************************************)
(* The daemon's tasks.  "fetch": a refresh is on its way to the relay;     *)
(* "back": its answer on the way back; then the task goes on at `next`.    *)
(***************************************************************************)

Free(t) == task[t].at = "idle" /\ daemon.at # "off"
Fetch(rec, next) == [rec EXCEPT !.at = "fetch", !.next = next]
Becomes(t, rec) == task' = [task EXCEPT ![t] = rec]

\* start(): the first refresh is waited for.
Boot ==
    /\ daemon.at = "refresh" /\ task[Loop].at = "idle"
    /\ Becomes(Loop, Fetch(Idle, "boot"))
    /\ UNCHANGED <<keys, agentKey, grants, cache, due, request, counts>>

\* A connection opened, or auth.ok came.
Hello(t) ==
    /\ Free(t) /\ daemon.at = "up" /\ t \in Handlers
    /\ events < MaxEvents /\ events' = events + 1
    /\ Becomes(t, Fetch(Idle, "done"))
    /\ UNCHANGED <<keys, agentKey, grants, cache, due, request, older, failed, pairings>>

\* The browser's request comes to the daemon: handleSecureClientMessage().
Request(b, t) ==
    /\ Free(t) /\ daemon.at = "up" /\ t \in Handlers
    /\ agentKey[b] # NoKey /\ request[b] = "none"
    /\ request' = [request EXCEPT ![b] = "sent"]
    /\ Becomes(t, IF b \in cache THEN [Idle EXCEPT !.at = "reply", !.who = {b}]
                                 ELSE Fetch([Idle EXCEPT !.who = {b}], "request"))
    /\ UNCHANGED <<keys, agentKey, grants, cache, due, counts>>

\* Mutant of Reply: what is not cached any more gets no answer.
ReplyOnce(t) ==
    /\ task[t].at = "reply"
    /\ Becomes(t, Idle)
    /\ request' = [b \in Browsers |-> IF b \in task[t].who \cap cache THEN "none" ELSE request[b]]
    /\ UNCHANGED <<keys, agentKey, grants, cache, due, counts>>

\* sendBusinessMessageToClient() at the end of a handler: its answer, or the
\* error that the request could not be decrypted.
Reply(t) ==
    /\ task[t].at = "reply"
    /\ IF task[t].who \subseteq cache
       THEN /\ \E b \in task[t].who : request' = [request EXCEPT ![b] = "none"]
            /\ Becomes(t, Idle)
       ELSE Becomes(t, Fetch(task[t], "reply")) /\ UNCHANGED request
    /\ UNCHANGED <<keys, agentKey, grants, cache, due, counts>>

\* broadcastBusinessMessage(), to the list of the tokens.
Broadcast ==
    /\ Free(Loop) /\ daemon.at = "up"
    /\ LET begun == [Idle EXCEPT !.owed = cache \cap grants]
       IN Becomes(Loop, IF cache = {} \/ due THEN Fetch(begun, "broadcast")
                                             ELSE [begun EXCEPT !.at = "each", !.left = cache])
    /\ older' = {}
    /\ UNCHANGED <<keys, agentKey, grants, cache, due, request, failed, pairings, events>>

\* Mutant of Each: a token that is not cached any more is passed over.
EachOnce ==
    /\ task[Loop].at = "each"
    /\ \/ /\ task[Loop].left = {}
          /\ Becomes(Loop, Idle)
       \/ \E b \in task[Loop].left :
             Becomes(Loop, [task[Loop] EXCEPT !.left = @ \ {b}, !.owed = IF b \in cache THEN @ \ {b} ELSE @])
    /\ UNCHANGED <<keys, agentKey, grants, cache, due, request, counts>>

\* ... and to one of them after the other.
Each ==
    /\ task[Loop].at = "each"
    /\ \/ /\ task[Loop].left = {}
          /\ Becomes(Loop, Idle)
       \/ \E b \in task[Loop].left :
             Becomes(Loop, IF b \in cache
                           THEN [task[Loop] EXCEPT !.left = @ \ {b}, !.owed = @ \ {b}]
                           ELSE Fetch([task[Loop] EXCEPT !.who = {b}], "each"))
    /\ UNCHANGED <<keys, agentKey, grants, cache, due, request, counts>>

\* The task goes on with the cache c, whether or not the refresh got an answer.
Resume(t, c) ==
    LET at == task[t].next  who == task[t].who IN
    /\ daemon' = IF at = "boot" THEN [daemon EXCEPT !.at = "up"] ELSE daemon
    /\ request' = [b \in Browsers |->
                      IF at \in {"request", "reply"} /\ b \in who
                      THEN IF b \notin c THEN "dropped" ELSE IF at = "reply" THEN "none" ELSE request[b]
                      ELSE request[b]]
    /\ \/ at = "request" /\ who \subseteq c /\ Becomes(t, [Idle EXCEPT !.at = "reply", !.who = who])
       \/ /\ at = "broadcast"
          /\ Becomes(t, [Idle EXCEPT !.at = "each", !.left = c, !.owed = task[t].owed])
       \/ /\ at = "each"
          /\ Becomes(t, [task[t] EXCEPT !.at = "each", !.next = "none", !.who = {}, !.answer = {},
                                        !.left = @ \ who, !.owed = IF who \subseteq c THEN @ \ who ELSE @])
       \/ /\ at \notin {"broadcast", "each"} /\ ~(at = "request" /\ who \subseteq c)
          /\ Becomes(t, Idle)

\* The relay reads the grants.
Listed(t) ==
    /\ task[t].at = "fetch"
    /\ Becomes(t, [task[t] EXCEPT !.at = "back", !.answer = grants])
    /\ UNCHANGED <<keys, agentKey, grants, cache, due, request, counts>>

\* Mutant of Refreshed: what is there is kept.
RefreshedAdds(t) ==
    /\ task[t].at = "back"
    /\ cache' = cache \cup task[t].answer /\ due' = FALSE
    /\ Resume(t, cache')
    /\ UNCHANGED <<keyFile, shell, codes, used, raced, lost, agentKey, grants, counts>>

\* refreshGrantPublicKeys(): the answer replaces the cache, however old it is.
Refreshed(t) ==
    /\ task[t].at = "back"
    /\ cache' = task[t].answer /\ due' = FALSE
    /\ Resume(t, cache')
    /\ older' = older \cup ((cache \cap task[Loop].owed) \ cache')
    /\ UNCHANGED <<keyFile, shell, codes, used, raced, lost, agentKey, grants, failed, pairings, events>>

RefreshFails(t) ==
    /\ task[t].at \in {"fetch", "back"} /\ events < MaxEvents
    /\ events' = events + 1 /\ failed' = TRUE
    /\ Resume(t, cache)
    /\ UNCHANGED <<keyFile, shell, codes, used, raced, lost, agentKey, grants, cache, due, older, pairings>>

Elapse ==
    /\ ~due /\ daemon.at = "up"
    /\ due' = TRUE
    /\ UNCHANGED <<keys, agentKey, grants, cache, task, request, counts>>

-----------------------------------------------------------------------------
Next ==
    \/ DaemonReadKey \/ DaemonWriteKey \/ Boot \/ Broadcast \/ Each \/ Elapse
    \/ StopDaemon \/ LoseKeyFile
    \/ \E c \in Shells : \/ ReadKey(c) \/ WriteKey(c) \/ RunStart(c) \/ AskCode(c) \/ AskFails(c)
                         \/ Type(c, "agent --pair") \/ Type(c, "pair")
    \/ \E b \in Browsers : Redeem(b) \/ Revoke(b) \/ \E t \in Handlers : Request(b, t)
    \/ \E t \in Tasks : Hello(t) \/ Reply(t) \/ Listed(t) \/ Refreshed(t) \/ RefreshFails(t)

ChannelSpec == ChannelInit /\ [][Next]_vars

\* The daemon's tasks go on, a refresh is answered or fails, time passes, and
\* the sessions go on writing.
ChannelFairSpec ==
    /\ ChannelSpec
    /\ WF_vars(DaemonReadKey) /\ WF_vars(DaemonWriteKey) /\ WF_vars(Boot)
    /\ WF_vars(Broadcast) /\ WF_vars(Each) /\ WF_vars(Elapse)
    /\ \A t \in Tasks : WF_vars(Reply(t)) /\ WF_vars(Listed(t)) /\ WF_vars(Refreshed(t))

-----------------------------------------------------------------------------
(***************************************************************************)
(* Properties.                                                             *)
(***************************************************************************)

MaybeKey == Keys \cup {NoKey}

\* The daemon has a key from its first refresh on, the cache is its alone, and
\* every task is where its kind can be.
ChannelTypeOK ==
    /\ keyFile \in MaybeKey /\ used \subseteq Keys /\ codes \subseteq used
    /\ daemon \in [at : {"off", "start", "generate", "refresh", "up"}, key : MaybeKey]
    /\ daemon.key # NoKey <=> daemon.at \in {"refresh", "up"}
    /\ daemon.at # "up" => cache = {} /\ \A t \in Handlers : task[t] = Idle
    /\ shell \in [Shells -> [at : {"none", "run", "key", "generate", "ask"}, key : MaybeKey]]
    /\ agentKey \in [Browsers -> MaybeKey]
    /\ grants \subseteq {b \in Browsers : agentKey[b] # NoKey} /\ cache \subseteq Browsers
    /\ task \in [Tasks -> [at : {"idle", "fetch", "back", "reply", "each"},
                           next : {"none", "boot", "done", "request", "reply", "broadcast", "each"},
                           who : SUBSET Browsers, left : SUBSET Browsers, owed : SUBSET Browsers,
                           answer : SUBSET Browsers]]
    /\ request \in [Browsers -> {"none", "sent", "dropped"}] /\ older \subseteq Browsers

\* A code is only issued with the key the daemon decrypts with, unless two
\* processes generated a key at the same time or `pair` was typed without one:
\* `agent --pair` repairs a lost file by restarting the daemon first.
CodesFit == [][\A k \in codes' \ codes : raced \/ k = daemon.key]_vars

\* The same without that condition.
CodesAlwaysFit == [][\A k \in codes' \ codes : k = daemon.key]_vars

\* A broadcast reaches everybody who was known when it began and is in force still,
\* whatever older answer replaces the cache while it is under way, and whatever
\* refresh fails.  It takes both: an older answer takes the browser out of the
\* cache, and the refresh that would bring it back fails.
NobodyLeftOut ==
    task[Loop].at = "each" => task[Loop].owed \ (IF failed THEN older ELSE {}) \subseteq task[Loop].left

\* The same without that exception.
EverybodyReached == task[Loop].at = "each" => task[Loop].owed \subseteq task[Loop].left

\* Both: the tasks' places, and whom their broadcasts reach.
ChannelInv == ChannelTypeOK /\ NobodyLeftOut

\* No request of a browser in force is dropped, however new the grant and
\* however the refreshes overlap, unless one failed.
NotDropped == \A b \in Browsers : request[b] = "dropped" => b \notin grants \/ failed

\* Each is answered in the end, and not by being dropped.
RequestAnswered ==
    /\ []NotDropped
    /\ \A b \in Browsers : request[b] = "sent" ~> request[b] # "sent"

\* Every browser in force has the key the daemon decrypts with, however often
\* the daemon was restarted, if the file is kept and nothing raced.
KeysAgree == daemon.key # NoKey /\ ~raced /\ ~lost => \A b \in grants : agentKey[b] = daemon.key

\* A revoked browser's key leaves the cache for good, although an answer from
\* before the revocation may bring it back once.
RevokedForgotten == \A b \in Browsers : <>[](b \in cache => b \in grants)
=============================================================================
