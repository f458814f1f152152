------------------------ MODULE SecureChannel_proofs ------------------------
(***************************************************************************)
(* Proofs about SecureChannel.tla, for every set of browsers, device keys, *)
(* terminals and handlers: which key is where (KeysInv), what a task knows *)
(* of the browsers it works for (TasksInv), and what is left of a request  *)
(* (RequestsInv).                                                          *)
(***************************************************************************)
EXTENDS SecureChannel, TLAPS

ShellRec == [at : {"none", "run", "key", "generate", "ask"}, key : MaybeKey]
DaemonRec == [at : {"off", "start", "generate", "refresh", "up"}, key : MaybeKey]
TaskRec == [at : {"idle", "fetch", "back", "reply", "each"},
            next : {"none", "boot", "done", "request", "reply", "broadcast", "each"},
            who : SUBSET Browsers, left : SUBSET Browsers, owed : SUBSET Browsers, answer : SUBSET Browsers]

\* A key somebody holds was generated.
KeysKnown ==
  /\ used \subseteq Keys /\ codes \subseteq used /\ keyFile \in used \cup {NoKey}
  /\ daemon \in DaemonRec /\ daemon.key \in used \cup {NoKey}
  /\ daemon.key # NoKey <=> daemon.at \in {"refresh", "up"}
  /\ shell \in [Shells -> ShellRec]
  /\ \A c \in Shells : shell[c].at = "ask" => shell[c].key \in used
  /\ agentKey \in [Browsers -> used \cup {NoKey}]

\* While nothing raced, one process at a time generates, and only when there is no
\* file; a code is asked for with the key in the file; the daemon's is that key too,
\* and a daemon whose file is lost meets no command that would generate another.
OneGenerator ==
  /\ \A c \in Generating : daemon.at # "generate" /\ keyFile = NoKey
  /\ \A c, e \in Generating : c = e
  /\ daemon.at = "generate" => keyFile = NoKey
FileIsTheKey ==
  /\ \A c \in Shells : shell[c].at = "ask" => shell[c].key = keyFile
  /\ \A c \in Shells : shell[c].at \in {"key", "generate"} /\ daemon.key # NoKey => keyFile # NoKey
  /\ daemon.key # NoKey /\ keyFile # NoKey => daemon.key = keyFile

\* If besides the file is kept, it holds the only key there ever was.
OnlyKey == ~lost => used \subseteq {keyFile}

KeysInv == KeysKnown /\ (~raced => OneGenerator /\ FileIsTheKey /\ OnlyKey)

\* The browsers that redeemed a code.
Paired == {b \in Browsers : agentKey[b] # NoKey}

\* Whom a broadcast may have left out.
Excused == IF failed THEN older ELSE {}

\* What the record x of the task t can be.  Only the loop owes, and who is owed is cached
\* still, or an older answer took it out; it is in every answer on its way back.
TaskFits(t, x) ==
  /\ x \in TaskRec
  /\ x.at = "idle" => x = Idle
  /\ x.at # "idle" => daemon.at = "up" \/ x.next = "boot"
  /\ x.next = "boot" => t = Loop /\ daemon.at = "refresh" /\ x.at \in {"fetch", "back"}
  /\ x.who \subseteq Paired /\ x.left \subseteq Paired /\ x.answer \subseteq Paired /\ x.owed \subseteq grants
  /\ x.at = "back" => x.owed \subseteq x.answer /\ x.who \cap grants \subseteq x.answer
  /\ x.owed # {} => t = Loop
  /\ x.owed \ older \subseteq cache
  /\ x.at = "each" \/ x.next = "each" => x.owed \ Excused \subseteq x.left
  /\ x.next = "each" => \E b \in Browsers : x.who = {b}

TasksInv ==
  /\ task \in [Tasks -> TaskRec]
  /\ \A t \in Tasks : TaskFits(t, task[t])
  /\ grants \subseteq Paired /\ cache \subseteq Paired /\ older \subseteq Paired
  /\ daemon.at # "up" => cache = {}

\* Only who has a grant asks, and is dropped without one alone.
RequestsInv ==
  /\ request \in [Browsers -> {"none", "sent", "dropped"}]
  /\ \A b \in Browsers : request[b] # "none" => b \in Paired
  /\ NotDropped

SecureInv == KeysInv /\ TasksInv /\ RequestsInv

-----------------------------------------------------------------------------
(***************************************************************************)
(* The keys.                                                               *)
(***************************************************************************)

\* A key that is generated is a key, and none there was.
LEMMA NewKeyIsNew == ASSUME used # Keys, used \subseteq Keys PROVE NewKey \in Keys \ used /\ NewKey # NoKey
<1>1. \E k \in Keys : k \notin used
  OBVIOUS
<1> QED BY <1>1, ChannelConstants DEF NewKey

\* One terminal's command goes from one place to another, the rest stays.
LEMMA ShellMoves ==
  ASSUME shell \in [Shells -> ShellRec], NEW c \in Shells, NEW at \in {"none", "run", "key", "generate", "ask"},
         NEW k \in MaybeKey, shell' = [shell EXCEPT ![c].at = at, ![c].key = k]
  PROVE  /\ shell' \in [Shells -> ShellRec] /\ shell'[c].at = at /\ shell'[c].key = k
         /\ \A e \in Shells \ {c} : shell'[e] = shell[e]
BY DEF ShellRec

\* The same, its key kept.
LEMMA ShellGoes ==
  ASSUME shell \in [Shells -> ShellRec], NEW c \in Shells, NEW at \in {"none", "run", "key", "generate", "ask"},
         shell' = [shell EXCEPT ![c].at = at]
  PROVE  /\ shell' \in [Shells -> ShellRec] /\ shell'[c].at = at /\ shell'[c].key = shell[c].key
         /\ \A e \in Shells \ {c} : shell'[e] = shell[e]
BY DEF ShellRec

\* The daemon reads the key file, and generates a key if there is none.
LEMMA DaemonReadKeyKeys == KeysInv /\ DaemonReadKey => KeysInv'
<1> SUFFICES ASSUME KeysInv, DaemonReadKey PROVE KeysInv'
  OBVIOUS
<1>1. CASE keyFile # NoKey
  BY <1>1 DEF KeysInv, DaemonReadKey, KeysKnown, DaemonRec, MaybeKey, OneGenerator, FileIsTheKey, OnlyKey, Generating
<1>2. CASE keyFile = NoKey
  BY <1>2 DEF KeysInv, DaemonReadKey, KeysKnown, DaemonRec, MaybeKey, OneGenerator, FileIsTheKey, OnlyKey, Generating, Races
<1> QED BY <1>1, <1>2

\* The daemon writes the key it generated.
LEMMA DaemonWriteKeyKeys == KeysInv /\ DaemonWriteKey => KeysInv'
<1> SUFFICES ASSUME KeysInv, DaemonWriteKey PROVE KeysInv'
  OBVIOUS
<1>1. NewKey \in Keys \ used /\ NewKey # NoKey
  BY NewKeyIsNew DEF KeysInv, KeysKnown, DaemonWriteKey
<1>2. KeysKnown'
  BY <1>1 DEF KeysInv, KeysKnown, DaemonWriteKey, DaemonRec, MaybeKey
<1>3. ~raced => OneGenerator' /\ FileIsTheKey' /\ OnlyKey'
  BY <1>1, ChannelConstants DEF KeysInv, KeysKnown, DaemonWriteKey, OneGenerator, FileIsTheKey, OnlyKey, Generating
<1> QED BY <1>2, <1>3 DEF KeysInv, DaemonWriteKey

\* A command reads the key file.
LEMMA ReadKeyKeys == ASSUME KeysInv, NEW c \in Shells, ReadKey(c) PROVE KeysInv'
<1>0. shell \in [Shells -> ShellRec] /\ keyFile \in MaybeKey /\ shell[c].at = "key"
  BY DEF KeysInv, KeysKnown, ReadKey, MaybeKey
<1>1. CASE keyFile # NoKey
  <2>1. /\ shell' \in [Shells -> ShellRec] /\ shell'[c].at = "ask" /\ shell'[c].key = keyFile
        /\ \A e \in Shells \ {c} : shell'[e] = shell[e]
    BY <1>0, <1>1, ShellMoves DEF ReadKey
  <2>3. KeysKnown'
    BY <1>0, <1>1, <2>1 DEF KeysInv, KeysKnown, ReadKey
  <2>4. ~raced' => OneGenerator'
    BY <1>0, <1>1, <2>1 DEF KeysInv, OneGenerator, Generating, ReadKey
  <2>5. ~raced' => FileIsTheKey' /\ OnlyKey'
    BY <1>0, <1>1, <2>1 DEF KeysInv, KeysKnown, OneGenerator, FileIsTheKey, OnlyKey, Generating, ReadKey
  <2> QED BY <2>3, <2>4, <2>5 DEF KeysInv
<1>2. CASE keyFile = NoKey
  <2>1. /\ shell' \in [Shells -> ShellRec] /\ shell'[c].at = "generate"
        /\ \A e \in Shells \ {c} : shell'[e] = shell[e]
    BY <1>0, <1>2, ShellGoes DEF ReadKey
  <2>3. KeysKnown'
    BY <1>0, <1>2, <2>1 DEF KeysInv, KeysKnown, ReadKey, Races, Generating
  <2>4. ~raced' => OneGenerator'
    BY <1>0, <1>2, <2>1 DEF KeysInv, OneGenerator, Generating, ReadKey, Races
  <2>5. ~raced' => FileIsTheKey' /\ OnlyKey'
    BY <1>0, <1>2, <2>1 DEF KeysInv, KeysKnown, OneGenerator, FileIsTheKey, OnlyKey, Generating, ReadKey, Races
  <2> QED BY <2>3, <2>4, <2>5 DEF KeysInv
<1> QED BY <1>1, <1>2

\* A command writes the key it generated.
LEMMA WriteKeyKeys == ASSUME KeysInv, NEW c \in Shells, WriteKey(c) PROVE KeysInv'
<1>1. NewKey \in Keys \ used /\ NewKey # NoKey
  BY NewKeyIsNew DEF KeysInv, KeysKnown, WriteKey
<1>2. /\ shell' \in [Shells -> ShellRec] /\ shell'[c].at = "ask" /\ shell'[c].key = NewKey
      /\ \A e \in Shells \ {c} : shell'[e] = shell[e]
  BY <1>1, ShellMoves DEF WriteKey, KeysInv, KeysKnown, MaybeKey
<1>3. KeysKnown'
  BY <1>1, <1>2 DEF KeysInv, KeysKnown, WriteKey, MaybeKey
<1>4. ~raced => OneGenerator' /\ FileIsTheKey' /\ OnlyKey'
  BY <1>1, <1>2, ChannelConstants DEF KeysInv, KeysKnown, WriteKey, OneGenerator, FileIsTheKey, OnlyKey, Generating
<1> QED BY <1>3, <1>4 DEF KeysInv, WriteKey

\* A command is typed.
LEMMA TypeKeys == ASSUME KeysInv, NEW c \in Shells, NEW op \in {"agent --pair", "pair"}, Type(c, op) PROVE KeysInv'
<1> DEFINE at == IF op = "agent --pair" THEN "run" ELSE "key"
<1>1. /\ shell' \in [Shells -> ShellRec] /\ shell'[c].at = at
      /\ \A e \in Shells \ {c} : shell'[e] = shell[e]
  BY ShellGoes DEF Type, KeysInv, KeysKnown
<1>2. at \in {"run", "key"} /\ (at = "key" => op = "pair")
  OBVIOUS
<1> HIDE DEF at
<1> QED BY <1>1, <1>2 DEF KeysInv, Type, KeysKnown, OneGenerator, FileIsTheKey, OnlyKey, Generating

\* A daemon that stops takes its copy of the key with it.
LEMMA StoppedKeys == ASSUME KeysInv, Stopped, UNCHANGED <<keyFile, shell, codes, used, raced, lost, agentKey>> PROVE KeysInv'
BY DEF KeysInv, Stopped, KeysKnown, DaemonRec, MaybeKey, OneGenerator, FileIsTheKey, OnlyKey, Generating

\* `agent --pair` starts the daemon, restarts it, or finds it running.
LEMMA RunStartKeys == ASSUME KeysInv, NEW c \in Shells, RunStart(c) PROVE KeysInv'
<1>1. CASE daemon.at # "off" /\ keyFile = NoKey
  BY <1>1, StoppedKeys DEF RunStart
<1>2. CASE daemon.at = "off" \/ keyFile # NoKey
  <2>1. /\ shell' \in [Shells -> ShellRec] /\ shell'[c].at = "key"
        /\ \A e \in Shells \ {c} : shell'[e] = shell[e]
    BY <1>2, ShellGoes DEF RunStart, KeysInv, KeysKnown
  <2>2. /\ daemon' \in DaemonRec /\ daemon'.key = daemon.key
        /\ daemon' = daemon \/ (daemon.at = "off" /\ daemon'.at = "start")
    BY <1>2 DEF RunStart, KeysInv, KeysKnown, DaemonRec
  <2>3. UNCHANGED <<keyFile, codes, used, raced, lost, agentKey>>
    BY DEF RunStart
  <2>4. KeysKnown'
    BY <1>2, <2>1, <2>2, <2>3 DEF KeysInv, KeysKnown
  <2>5. ~raced' => OneGenerator'
    BY <1>2, <2>1, <2>2, <2>3 DEF KeysInv, OneGenerator, Generating
  <2>6. ~raced' => FileIsTheKey' /\ OnlyKey'
    BY <1>2, <2>1, <2>2, <2>3 DEF KeysInv, KeysKnown, OneGenerator, FileIsTheKey, OnlyKey, Generating
  <2> QED BY <2>4, <2>5, <2>6 DEF KeysInv
<1> QED BY <1>1, <1>2

\* The relay makes a code, or no daemon is connected to make one for.
LEMMA AskKeys == ASSUME KeysInv, NEW c \in Shells, AskCode(c) \/ AskFails(c) PROVE KeysInv'
<1>1. /\ shell[c].at = "ask" /\ shell' = [shell EXCEPT ![c] = AtRest]
      /\ codes' \in {codes, codes \cup {shell[c].key}}
      /\ UNCHANGED <<keyFile, daemon, used, raced, lost, agentKey>>
  BY DEF AskCode, AskFails
<1>2. /\ shell' \in [Shells -> ShellRec] /\ shell'[c].at = "none"
      /\ \A e \in Shells \ {c} : shell'[e] = shell[e]
  BY <1>1 DEF KeysInv, KeysKnown, ShellRec, AtRest, MaybeKey
<1> QED BY <1>1, <1>2 DEF KeysInv, KeysKnown, OneGenerator, FileIsTheKey, OnlyKey, Generating

\* The key file is lost: the daemon keeps its copy.
LEMMA LoseKeyFileKeys == KeysInv /\ LoseKeyFile => KeysInv'
BY DEF KeysInv, LoseKeyFile, KeysKnown, ShellRec, OneGenerator, FileIsTheKey, OnlyKey, Generating

\* A browser takes the key of the code it redeems.
LEMMA RedeemKeys == ASSUME KeysInv, NEW b \in Browsers, Redeem(b) PROVE KeysInv'
BY DEF KeysInv, Redeem, KeysKnown, OneGenerator, FileIsTheKey, OnlyKey, Generating

\* A task goes on, and with it, the first time, the daemon.
LEMMA ResumeKeys ==
  ASSUME KeysInv, TasksInv, NEW t \in Tasks, task[t].at # "idle", NEW c, Resume(t, c),
         UNCHANGED <<keyFile, shell, codes, used, raced, lost, agentKey>>
  PROVE  KeysInv'
<1>1. task[t].next = "boot" => daemon.at = "refresh"
  BY DEF TasksInv, TaskFits
<1>2. daemon' = IF task[t].next = "boot" THEN [daemon EXCEPT !.at = "up"] ELSE daemon
  BY DEF Resume
<1>3. /\ daemon' \in DaemonRec /\ daemon'.key = daemon.key
      /\ daemon' = daemon \/ (daemon.at = "refresh" /\ daemon'.at = "up")
  BY <1>1, <1>2 DEF KeysInv, KeysKnown, DaemonRec
<1> QED BY <1>3 DEF KeysInv, KeysKnown, OneGenerator, FileIsTheKey, OnlyKey, Generating

-----------------------------------------------------------------------------
(***************************************************************************)
(* The tasks.                                                              *)
(***************************************************************************)

\* A task at rest fits everywhere.
LEMMA IdleFits == ASSUME NEW t PROVE TaskFits(t, Idle) /\ Idle \in TaskRec
BY DEF TaskFits, Idle, TaskRec

\* The same after a step.
LEMMA IdleFitsAfter == ASSUME NEW t PROVE TaskFits(t, Idle)'
BY DEF TaskFits, Idle, TaskRec

\* No task is under way before the first refresh, and during it the loop's alone.
LEMMA NoneBefore ==
  ASSUME TasksInv
  PROVE  /\ daemon.at \notin {"refresh", "up"} => \A t \in Tasks : task[t] = Idle
         /\ daemon.at # "up" => \A t \in Handlers : task[t] = Idle
BY ChannelConstants DEF TasksInv, TaskFits, Tasks

\* Every task is at rest after the step.
LEMMA AllAtRest ==
  ASSUME task' = [t \in Tasks |-> Idle], grants' \subseteq Paired', cache' \subseteq Paired', older' \subseteq Paired',
         daemon'.at # "up" => cache' = {}
  PROVE  TasksInv'
BY IdleFits, IdleFitsAfter DEF TasksInv

\* Nothing is under way: the daemon may go where it likes.
LEMMA DaemonMovesTasks ==
  ASSUME TasksInv, daemon.at \notin {"refresh", "up"}, UNCHANGED <<agentKey, grants, cache, task, older>>
  PROVE  TasksInv'
<1>1. task' = [t \in Tasks |-> Idle]
  BY NoneBefore DEF TasksInv
<1> QED BY <1>1, AllAtRest DEF TasksInv, Paired

\* A step of something else.
LEMMA TasksStand ==
  ASSUME TasksInv, UNCHANGED <<daemon, agentKey, grants, cache, task, older, failed>> PROVE TasksInv'
BY DEF TasksInv, TaskFits, Paired, Excused

\* One task goes on with a record that fits.
LEMMA TaskGoesOn ==
  ASSUME TasksInv, NEW t \in Tasks, NEW x, TaskFits(t, x), Becomes(t, x),
         UNCHANGED <<daemon, agentKey, grants, cache, older, failed>>
  PROVE  TasksInv'
<1>1. task' \in [Tasks -> TaskRec]
  BY DEF TasksInv, TaskFits, Becomes
<1>2. \A u \in Tasks : TaskFits(u, task'[u])
  BY DEF TasksInv, Becomes
<1>3. Paired' = Paired /\ \A u, y : TaskFits(u, y) => TaskFits(u, y)'
  BY DEF Paired, TaskFits, Excused
<1> QED BY <1>1, <1>2, <1>3 DEF TasksInv

\* A refresh ends, for one of the tasks: the others fit still, with the cache it leaves.
LEMMA TaskComesBack ==
  ASSUME TasksInv, NEW t \in Tasks, NEW x, TaskFits(t, x)', Becomes(t, x), UNCHANGED <<daemon, agentKey, grants>>,
         daemon.at = "up", cache' \subseteq Paired, older' = older \cup ((cache \cap task[Loop].owed) \ cache'),
         failed => failed'
  PROVE  TasksInv'
<1>1. Paired' = Paired /\ TaskRec' = TaskRec /\ Excused \subseteq Excused' /\ older' \subseteq Paired
  BY DEF Paired, TaskRec, TasksInv, Excused
<1>2. ASSUME NEW u \in Tasks, TaskFits(u, task[u]) PROVE TaskFits(u, task[u])' \/ u = t
  <2> SUFFICES ASSUME u # t PROVE TaskFits(u, task[u])'
    OBVIOUS
  <2>1. task'[u] = task[u]
    BY DEF Becomes, TasksInv
  <2>2. task[u].owed \ older' \subseteq cache'
    BY <1>2 DEF TaskFits
  <2>3. task[u].owed \ Excused' \subseteq task[u].owed \ Excused
    BY <1>1
  <2> QED BY <1>1, <1>2, <2>1, <2>2, <2>3 DEF TaskFits
<1>3. task'[t] = x /\ x \in TaskRec /\ task' \in [Tasks -> TaskRec]
  BY <1>1 DEF TasksInv, TaskFits, Becomes
<1> QED BY <1>1, <1>2, <1>3 DEF TasksInv

\* A browser is admitted: no task under way knows it.
LEMMA RedeemTasks == ASSUME KeysInv, TasksInv, NEW b \in Browsers, Redeem(b) PROVE TasksInv'
<1>1. Paired' = Paired \cup {b} /\ b \notin Paired
  BY ChannelConstants DEF KeysInv, KeysKnown, Redeem, Paired
<1>2. grants' = grants \cup {b} /\ UNCHANGED <<daemon, cache, task, older, failed>>
  BY DEF Redeem, counts
<1> QED BY <1>1, <1>2 DEF TasksInv, TaskFits, Excused

\* A browser is revoked: no broadcast owes it anything any more.
LEMMA RevokeTasks == ASSUME TasksInv, NEW b \in Browsers, Revoke(b) PROVE TasksInv'
<1>1. Paired' = Paired /\ grants' = grants \ {b} /\ UNCHANGED <<daemon, cache, older, Excused>>
  BY DEF Revoke, keys, counts, Paired, Excused
<1>2. ASSUME NEW t, NEW x, NEW y, TaskFits(t, x), y = [x EXCEPT !.owed = x.owed \ {b}]
      PROVE  y \in TaskRec /\ TaskFits(t, y)'
  <2>1. x \in TaskRec
    BY <1>2 DEF TaskFits
  <2>2. /\ y \in TaskRec /\ y.at = x.at /\ y.next = x.next /\ y.who = x.who /\ y.left = x.left
        /\ y.answer = x.answer /\ y.owed = x.owed \ {b}
    BY <1>2, <2>1 DEF TaskRec
  <2>3. y.at = "idle" => y = Idle
    BY <1>2, <2>2 DEF TaskFits, Idle
  <2>4. UNCHANGED <<daemon, cache, older, Excused, Paired>> /\ grants' = grants \ {b}
    BY <1>1
  <2> QED BY <1>2, <2>1, <2>2, <2>3, <2>4 DEF TaskFits
<1>3. task' = [t \in Tasks |-> [task[t] EXCEPT !.owed = task[t].owed \ {b}]]
  BY DEF Revoke
<1>4. task' \in [Tasks -> TaskRec] /\ \A t \in Tasks : TaskFits(t, task[t])'
  BY <1>2, <1>3 DEF TasksInv
<1> QED BY <1>1, <1>4 DEF TasksInv

\* The daemon waits for its first refresh.
LEMMA BootTasks == TasksInv /\ Boot => TasksInv'
<1> SUFFICES ASSUME TasksInv, Boot PROVE TasksInv'
  OBVIOUS
<1>1. TaskFits(Loop, Fetch(Idle, "boot"))
  BY DEF Boot, TaskFits, Fetch, Idle, TaskRec
<1> QED BY <1>1, TaskGoesOn DEF Boot, keys, counts, Tasks, TasksInv

\* A handler refreshes when a connection is made.
LEMMA HelloTasks == ASSUME TasksInv, NEW t \in Tasks, Hello(t) PROVE TasksInv'
<1>1. TaskFits(t, Fetch(Idle, "done"))
  BY DEF Hello, TaskFits, Fetch, Idle, TaskRec
<1> QED BY <1>1, TaskGoesOn DEF Hello, keys, TasksInv

\* A handler takes a request, and refreshes if it does not know the browser.
LEMMA RequestTasks == ASSUME TasksInv, NEW b \in Browsers, NEW t \in Handlers, Request(b, t) PROVE TasksInv'
<1>0. b \in Paired /\ t \in Tasks /\ daemon.at = "up"
  BY DEF Request, Paired, Tasks
<1>1. TaskFits(t, [Idle EXCEPT !.at = "reply", !.who = {b}])
  BY <1>0 DEF TaskFits, Idle, TaskRec
<1>2. TaskFits(t, Fetch([Idle EXCEPT !.who = {b}], "request"))
  BY <1>0 DEF TaskFits, Idle, TaskRec, Fetch
<1> QED BY <1>0, <1>1, <1>2, TaskGoesOn DEF Request, keys, counts, TasksInv

\* A handler answers, or refreshes first.
LEMMA ReplyTasks == ASSUME TasksInv, NEW t \in Tasks, Reply(t) PROVE TasksInv'
<1> DEFINE x == task[t]
<1>1. x \in TaskRec /\ TaskFits(t, x) /\ x.at = "reply"
  BY DEF TasksInv, Reply
<1>2. x.next # "boot" => TaskFits(t, Fetch(x, "reply"))
  BY <1>1 DEF TaskFits, TaskRec, Fetch
<1>3. x.next # "boot"
  BY <1>1 DEF TaskFits
<1> QED BY <1>1, <1>2, <1>3, TaskGoesOn, IdleFits DEF Reply, keys, counts, TasksInv

\* The loop begins a broadcast: it owes those it knows and who are in force.
LEMMA BroadcastTasks == TasksInv /\ Broadcast => TasksInv'
<1> SUFFICES ASSUME TasksInv, Broadcast PROVE TasksInv'
  OBVIOUS
<1> DEFINE begun == [Idle EXCEPT !.owed = cache \cap grants]
<1>1. TaskFits(Loop, Fetch(begun, "broadcast"))' /\ TaskFits(Loop, [begun EXCEPT !.at = "each", !.left = cache])'
  BY DEF Broadcast, TasksInv, TaskFits, Fetch, Idle, TaskRec, Paired, Excused, keys
<1>2. PICK x : Becomes(Loop, x) /\ TaskFits(Loop, x)'
  BY <1>1 DEF Broadcast
<1>3. older' = {} /\ UNCHANGED <<daemon, agentKey, grants, cache, failed, Paired, TaskRec>>
  BY DEF Broadcast, keys, Paired, TaskRec
<1>4. ASSUME NEW u \in Tasks \ {Loop} PROVE task'[u] = task[u] /\ TaskFits(u, task[u])'
  <2>1. task'[u] = task[u] /\ TaskFits(u, task[u]) /\ task[u].owed = {}
    BY <1>2 DEF Becomes, TasksInv, TaskFits
  <2> QED BY <1>3, <2>1 DEF TaskFits
<1>5. task'[Loop] = x /\ x \in TaskRec /\ task' \in [Tasks -> TaskRec] /\ Loop \in Tasks
  BY <1>2, <1>3 DEF TasksInv, TaskFits, Becomes, Tasks
<1> QED BY <1>2, <1>3, <1>4, <1>5 DEF TasksInv

\* The loop serves the next of its list.
LEMMA EachTasks == TasksInv /\ Each => TasksInv'
<1> SUFFICES ASSUME TasksInv, Each PROVE TasksInv'
  OBVIOUS
<1> DEFINE x == task[Loop]
<1>1. Loop \in Tasks /\ x \in TaskRec /\ TaskFits(Loop, x) /\ x.at = "each"
  BY DEF TasksInv, Each, Tasks
<1>2. UNCHANGED <<daemon, agentKey, grants, cache, older, failed>>
  BY DEF Each, keys, counts
<1>3. CASE Becomes(Loop, Idle)
  BY <1>1, <1>2, <1>3, TaskGoesOn, IdleFits DEF TasksInv
<1>4. ASSUME NEW b \in x.left, Becomes(Loop, [x EXCEPT !.left = @ \ {b}, !.owed = @ \ {b}])
      PROVE  TasksInv'
  <2> DEFINE y == [x EXCEPT !.left = x.left \ {b}, !.owed = x.owed \ {b}]
  <2>1. /\ y \in TaskRec /\ y.at = x.at /\ y.next = x.next /\ y.who = x.who /\ y.left = x.left \ {b}
        /\ y.answer = x.answer /\ y.owed = x.owed \ {b}
    BY <1>1 DEF TaskRec
  <2>2. Becomes(Loop, y)
    BY <1>4
  <2> HIDE DEF x, y
  <2>3. TaskFits(Loop, y)
    BY <1>1, <2>1 DEF TaskFits
  <2> QED BY <1>1, <1>2, <2>2, <2>3, TaskGoesOn DEF TasksInv
<1>5. ASSUME NEW b \in x.left, Becomes(Loop, Fetch([x EXCEPT !.who = {b}], "each"))
      PROVE  TasksInv'
  <2> DEFINE y == Fetch([x EXCEPT !.who = {b}], "each")
  <2>0. b \in Browsers
    BY <1>1 DEF TaskRec
  <2>1. /\ y \in TaskRec /\ y.at = "fetch" /\ y.next = "each" /\ y.who = {b} /\ y.left = x.left
        /\ y.answer = x.answer /\ y.owed = x.owed
    BY <1>1, <2>0 DEF TaskRec, Fetch
  <2>2. Becomes(Loop, y)
    BY <1>5
  <2> HIDE DEF x, y
  <2>3. TaskFits(Loop, y)
    BY <1>1, <2>0, <2>1 DEF TaskFits
  <2> QED BY <1>1, <1>2, <2>2, <2>3, TaskGoesOn DEF TasksInv
<1> QED BY <1>3, <1>4, <1>5 DEF Each

\* The relay lists whom the task works for, if they are in force still.
LEMMA ListedTasks == ASSUME TasksInv, NEW t \in Tasks, Listed(t) PROVE TasksInv'
<1> DEFINE x == task[t]
           y == [x EXCEPT !.at = "back", !.answer = grants]
<1>1. x \in TaskRec /\ TaskFits(t, x) /\ x.at = "fetch" /\ Becomes(t, y)
  BY DEF TasksInv, Listed
<1>2. grants \subseteq Paired /\ Paired \subseteq Browsers
  BY DEF TasksInv, Paired
<1>3. /\ y \in TaskRec /\ y.at = "back" /\ y.next = x.next /\ y.who = x.who /\ y.left = x.left
      /\ y.answer = grants /\ y.owed = x.owed
  BY <1>1, <1>2 DEF TaskRec
<1> HIDE DEF x, y
<1>4. TaskFits(t, y)
  BY <1>1, <1>2, <1>3 DEF TaskFits
<1> QED BY <1>1, <1>4, TaskGoesOn DEF TasksInv, Listed, keys, counts

\* What a refresh comes back with: the answer, or, when it failed, the cache as it is.
ComesBack(t, c, fails) ==
  /\ task[t].at \in {"fetch", "back"} /\ fails \in BOOLEAN /\ c \subseteq Paired
  /\ IF fails THEN failed' /\ c = cache ELSE task[t].at = "back" /\ c = task[t].answer
  /\ cache' = c /\ older' = older \cup ((cache \cap task[Loop].owed) \ c) /\ (failed => failed')

\* After a refresh the task goes on with a record that fits: a broadcast has whom it
\* still owes in its list, because who is not in the answer is not in force, and who is
\* not in the cache a failed refresh leaves was taken out by an older answer.
LEMMA ResumeTasks ==
  ASSUME TasksInv, NEW t \in Tasks, NEW c, NEW fails, ComesBack(t, c, fails), Resume(t, c),
         UNCHANGED <<agentKey, grants>>, daemon.at = "up" \/ daemon'.at = "up"
  PROVE  TasksInv'
<1> PICK x : x = task[t]
  OBVIOUS
<1>1. /\ x \in TaskRec /\ TaskFits(t, x) /\ c \subseteq Paired /\ Paired \subseteq Browsers
      /\ cache' = c /\ Paired' = Paired /\ TaskRec' = TaskRec /\ x.owed \subseteq grants
  BY DEF TasksInv, TaskFits, ComesBack, Paired, TaskRec
<1>4. x.owed \ older' \subseteq c /\ x.owed \ Excused' \subseteq c /\ Excused \subseteq Excused'
  BY <1>1 DEF TaskFits, ComesBack, Excused
<1>2. CASE x.next = "boot"
  <2>1. daemon.at = "refresh" /\ t = Loop /\ Becomes(t, Idle)
    BY <1>1, <1>2 DEF TaskFits, Resume
  <2>2. task' = [u \in Tasks |-> Idle]
    BY <2>1, NoneBefore DEF TasksInv, Becomes, Tasks
  <2>3. daemon'.at = "up"
    BY <2>1
  <2> QED BY <1>1, <2>2, <2>3, AllAtRest DEF TasksInv, ComesBack
<1>3. CASE x.next # "boot"
  <2>0. daemon' = daemon /\ daemon.at = "up"
    BY <1>3 DEF Resume
  <2>1. ASSUME NEW y, TaskFits(t, y)', Becomes(t, y) PROVE TasksInv'
    BY <1>1, <2>0, <2>1, TaskComesBack DEF ComesBack
  <2>2. CASE x.next = "broadcast"
    <3> PICK y : y = [Idle EXCEPT !.at = "each", !.left = c, !.owed = x.owed]
      OBVIOUS
    <3>1. x.owed \subseteq Browsers /\ c \subseteq Browsers
      BY <1>1 DEF TaskRec
    <3>2. /\ y \in TaskRec /\ y.at = "each" /\ y.next = "none" /\ y.who = {} /\ y.left = c
          /\ y.answer = {} /\ y.owed = x.owed
      BY <3>1 DEF TaskRec, Idle
    <3>4. Becomes(t, y)
      BY <2>2 DEF Resume
    <3>3. TaskFits(t, y)'
      BY <1>1, <1>4, <2>0, <3>2 DEF TaskFits
    <3> QED BY <2>1, <3>3, <3>4
  <2>3. CASE x.next = "each"
    <3>9. PICK o : o = IF x.who \subseteq c THEN x.owed \ x.who ELSE x.owed
      OBVIOUS
    <3>10. PICK l : l = x.left \ x.who
      OBVIOUS
    <3>0. PICK y : y = [x EXCEPT !.at = "each", !.next = "none", !.who = {}, !.answer = {}, !.left = l, !.owed = o]
      OBVIOUS
    <3>1. PICK b \in Browsers : x.who = {b}
      BY <1>1, <2>3 DEF TaskFits
    <3>2. x.owed \ Excused \subseteq x.left /\ x.left \subseteq Paired
      BY <1>1, <2>3 DEF TaskFits
    <3>4. o \ Excused' \subseteq l /\ o \subseteq x.owed /\ l \subseteq Paired
      BY <1>4, <3>1, <3>2, <3>9, <3>10
    <3>5. Becomes(t, y)
      BY <2>3, <3>0, <3>9, <3>10 DEF Resume
    <3>6. grants \subseteq Browsers
      BY DEF TasksInv, Paired
    <3>7. /\ y \in TaskRec /\ y.at = "each" /\ y.next = "none" /\ y.who = {} /\ y.left = l
          /\ y.answer = {} /\ y.owed = o
      <4>1. o \in SUBSET Browsers /\ l \in SUBSET Browsers
        BY <1>1, <3>4, <3>6
      <4>2. x \in TaskRec
        BY <1>1
      <4> QED BY <3>0, <4>1, <4>2 DEF TaskRec
    <3>8. TaskFits(t, y)'
      BY <1>1, <1>4, <2>0, <3>4, <3>7 DEF TaskFits
    <3> QED BY <2>1, <3>5, <3>8
  <2>4. CASE x.next \notin {"broadcast", "each"}
    <3>1. TaskFits(t, [Idle EXCEPT !.at = "reply", !.who = x.who])'
      BY <1>1, <2>0 DEF TaskFits, TaskRec, Idle
    <3>2. Becomes(t, [Idle EXCEPT !.at = "reply", !.who = x.who]) \/ Becomes(t, Idle)
      BY <2>4 DEF Resume
    <3> QED BY <2>1, <3>1, <3>2, IdleFitsAfter
  <2> QED BY <2>2, <2>3, <2>4
<1> QED BY <1>2, <1>3

\* The two ways a refresh ends are ways to come back, while the daemon runs.
LEMMA EndsBack ==
  ASSUME KeysInv, TasksInv, NEW t \in Tasks, Refreshed(t) \/ RefreshFails(t)
  PROVE  /\ \E c, fails : ComesBack(t, c, fails) /\ Resume(t, c)
         /\ daemon.at = "up" \/ daemon'.at = "up"
         /\ task[t].at # "idle"
         /\ UNCHANGED <<keyFile, shell, codes, used, raced, lost, agentKey, grants>>
<1>1. TaskFits(t, task[t]) /\ cache \subseteq Paired /\ daemon \in DaemonRec
  BY DEF TasksInv, KeysInv, KeysKnown
<1>2. /\ daemon.at = "up" \/ task[t].next = "boot"
      /\ daemon' = IF task[t].next = "boot" THEN [daemon EXCEPT !.at = "up"] ELSE daemon
      /\ task[t].answer \subseteq Paired /\ task[t].at # "idle"
  BY <1>1 DEF Refreshed, RefreshFails, TaskFits, Resume
<1>3. daemon.at = "up" \/ daemon'.at = "up"
  BY <1>1, <1>2 DEF DaemonRec
<1>4. ASSUME Refreshed(t) PROVE ComesBack(t, task[t].answer, FALSE) /\ Resume(t, task[t].answer)
  BY <1>2, <1>4 DEF Refreshed, ComesBack
<1>5. ASSUME RefreshFails(t) PROVE ComesBack(t, cache, TRUE) /\ Resume(t, cache)
  BY <1>1, <1>5 DEF RefreshFails, ComesBack
<1>6. \E c, fails : ComesBack(t, c, fails) /\ Resume(t, c)
  <2>1. CASE Refreshed(t)
    <3> WITNESS task[t].answer, FALSE
    <3> QED BY <1>4, <2>1
  <2>2. CASE RefreshFails(t)
    <3> WITNESS cache, TRUE
    <3> QED BY <1>5, <2>2
  <2> QED BY <2>1, <2>2
<1>7. UNCHANGED <<keyFile, shell, codes, used, raced, lost, agentKey, grants>>
  BY DEF Refreshed, RefreshFails, counts
<1> QED BY <1>2, <1>3, <1>6, <1>7

-----------------------------------------------------------------------------
(***************************************************************************)
(* The requests.                                                           *)
(***************************************************************************)

\* A step that leaves the requests, and admits nobody.
LEMMA RequestsStand ==
  ASSUME RequestsInv, UNCHANGED <<request, agentKey, failed>>, grants' \subseteq grants PROVE RequestsInv'
BY DEF RequestsInv, NotDropped, Paired

\* An admission: who was dropped had a grant before, and gets none again.
LEMMA RedeemRequests == ASSUME KeysInv, RequestsInv, NEW b \in Browsers, Redeem(b) PROVE RequestsInv'
<1>1. Paired' = Paired \cup {b} /\ b \notin Paired
  BY ChannelConstants DEF KeysInv, KeysKnown, Redeem, Paired
<1>2. grants' = grants \cup {b} /\ UNCHANGED <<request, failed>>
  BY DEF Redeem, counts
<1> QED BY <1>1, <1>2 DEF RequestsInv, NotDropped

\* The daemon stops: what was sent is forgotten, not dropped.
LEMMA StoppedRequests ==
  ASSUME RequestsInv, Stopped, UNCHANGED <<agentKey, grants, failed>> PROVE RequestsInv'
BY DEF RequestsInv, NotDropped, Paired, Stopped

\* A request is made, or answered at the end of its handler.
LEMMA RequestRequests == ASSUME RequestsInv, NEW b \in Browsers, NEW t \in Handlers, Request(b, t) PROVE RequestsInv'
BY DEF RequestsInv, NotDropped, Paired, Request, counts, keys

\* The answer goes out, or waits for a refresh.
LEMMA ReplyRequests == ASSUME TasksInv, RequestsInv, NEW t \in Tasks, Reply(t) PROVE RequestsInv'
<1>1. request' = request \/ \E b \in task[t].who : request' = [request EXCEPT ![b] = "none"]
  BY DEF Reply
<1> QED BY <1>1 DEF RequestsInv, NotDropped, Paired, Reply, counts, keys

\* Who is dropped is not in the answer, so not in force any more, or the refresh failed.
LEMMA ResumeRequests ==
  ASSUME TasksInv, RequestsInv, NEW t \in Tasks, NEW c, NEW fails, ComesBack(t, c, fails), Resume(t, c),
         UNCHANGED <<agentKey, grants>>
  PROVE  RequestsInv'
<1> DEFINE x == task[t]
<1>1. x \in TaskRec /\ TaskFits(t, x)
  BY DEF TasksInv
<1>2. x.who \subseteq Paired /\ (failed' \/ \A b \in x.who \ c : b \notin grants) /\ (failed => failed')
  BY <1>1 DEF TaskFits, ComesBack
<1>3. /\ request' \in [Browsers -> {"none", "sent", "dropped"}]
      /\ \A b \in Browsers : request'[b] = "dropped" => request[b] = "dropped" \/ b \in x.who \ c
      /\ \A b \in Browsers : request'[b] # "none" => request[b] # "none" \/ b \in x.who
  BY DEF Resume, RequestsInv
<1> HIDE DEF x
<1> QED BY <1>2, <1>3 DEF RequestsInv, NotDropped, Paired

-----------------------------------------------------------------------------
(***************************************************************************)
(* All of it.                                                              *)
(***************************************************************************)

\* Nobody has a key, and nothing is under way.
LEMMA SecureInvInit == ChannelInit => SecureInv
<1> SUFFICES ASSUME ChannelInit PROVE SecureInv
  OBVIOUS
<1>1. KeysInv
  BY ChannelConstants DEF ChannelInit, KeysInv, KeysKnown, OneGenerator, FileIsTheKey, OnlyKey, Generating, DaemonRec,
                          ShellRec, MaybeKey, AtRest
<1>2. TasksInv
  BY IdleFits DEF ChannelInit, TasksInv
<1>3. RequestsInv
  BY DEF ChannelInit, RequestsInv, NotDropped
<1> QED BY <1>1, <1>2, <1>3 DEF SecureInv

\* A step of the keys alone leaves the tasks and the requests.
LEMMA KeysStepAlone ==
  ASSUME SecureInv, KeysInv', UNCHANGED <<agentKey, grants, cache, task, request, older, failed>>,
         daemon' = daemon \/ daemon.at \notin {"refresh", "up"}
  PROVE  SecureInv'
BY TasksStand, DaemonMovesTasks, RequestsStand DEF SecureInv

\* A step of a task alone leaves the keys.
LEMMA KeysStand == ASSUME KeysInv, UNCHANGED <<keys, agentKey>> PROVE KeysInv'
BY DEF KeysInv, keys, KeysKnown, OneGenerator, FileIsTheKey, OnlyKey, Generating

\* The daemon stops.
LEMMA StoppedStep ==
  ASSUME SecureInv, Stopped, UNCHANGED <<keyFile, shell, codes, used, raced, lost, agentKey, grants, older, failed>>
  PROVE  SecureInv'
<1>1. TasksInv'
  BY AllAtRest DEF Stopped, SecureInv, TasksInv, Paired
<1> QED BY <1>1, StoppedKeys, StoppedRequests DEF SecureInv

\* Every step keeps the invariant: the commands' ...
LEMMA CommandStep ==
  ASSUME SecureInv, NEW c \in Shells,
         \/ ReadKey(c) \/ WriteKey(c) \/ RunStart(c) \/ AskCode(c) \/ AskFails(c)
         \/ Type(c, "agent --pair") \/ Type(c, "pair")
  PROVE  SecureInv'
<1>1. CASE ReadKey(c)
  BY <1>1, ReadKeyKeys, KeysStepAlone DEF SecureInv, ReadKey, counts
<1>2. CASE WriteKey(c)
  BY <1>2, WriteKeyKeys, KeysStepAlone DEF SecureInv, WriteKey, counts
<1>3. CASE RunStart(c)
  <2>1. CASE daemon.at # "off" /\ keyFile = NoKey
    BY <1>3, <2>1, StoppedStep DEF RunStart, counts
  <2>2. CASE daemon.at = "off" \/ keyFile # NoKey
    BY <1>3, <2>2, RunStartKeys, KeysStepAlone DEF SecureInv, RunStart, counts
  <2> QED BY <2>1, <2>2
<1>4. CASE AskCode(c) \/ AskFails(c)
  BY <1>4, AskKeys, KeysStepAlone DEF SecureInv, AskCode, AskFails, counts
<1>5. ASSUME NEW op \in {"agent --pair", "pair"}, Type(c, op) PROVE SecureInv'
  BY <1>5, TypeKeys, KeysStepAlone DEF SecureInv, Type
<1> QED BY <1>1, <1>2, <1>3, <1>4, <1>5

\* ... the tasks' ...
LEMMA TaskStep ==
  ASSUME SecureInv, NEW t \in Tasks, Hello(t) \/ Reply(t) \/ Listed(t) \/ Refreshed(t) \/ RefreshFails(t)
  PROVE  SecureInv'
<1>1. CASE Hello(t)
  BY <1>1, HelloTasks, KeysStand, RequestsStand DEF SecureInv, Hello
<1>2. CASE Reply(t)
  BY <1>2, ReplyTasks, KeysStand, ReplyRequests DEF SecureInv, Reply
<1>3. CASE Listed(t)
  BY <1>3, ListedTasks, KeysStand, RequestsStand DEF SecureInv, Listed, counts
<1>4. CASE Refreshed(t) \/ RefreshFails(t)
  <2>1. PICK c, fails : ComesBack(t, c, fails) /\ Resume(t, c)
    BY <1>4, EndsBack DEF SecureInv
  <2>2. /\ daemon.at = "up" \/ daemon'.at = "up"
        /\ task[t].at # "idle"
        /\ UNCHANGED <<keyFile, shell, codes, used, raced, lost, agentKey, grants>>
    BY <1>4, EndsBack DEF SecureInv
  <2> QED BY <2>1, <2>2, ResumeKeys, ResumeTasks, ResumeRequests DEF SecureInv
<1> QED BY <1>1, <1>2, <1>3, <1>4

\* ... the browsers' ...
LEMMA BrowserStep ==
  ASSUME SecureInv, NEW b \in Browsers, Redeem(b) \/ Revoke(b) \/ \E t \in Handlers : Request(b, t)
  PROVE  SecureInv'
<1>1. CASE Redeem(b)
  BY <1>1, RedeemKeys, RedeemTasks, RedeemRequests DEF SecureInv
<1>2. CASE Revoke(b)
  BY <1>2, KeysStand, RevokeTasks, RequestsStand DEF SecureInv, Revoke, counts
<1>3. ASSUME NEW t \in Handlers, Request(b, t) PROVE SecureInv'
  BY <1>3, KeysStand, RequestTasks, RequestRequests DEF SecureInv, Request
<1> QED BY <1>1, <1>2, <1>3

\* ... and the others.
LEMMA SecureInvStep == SecureInv /\ [Next]_vars => SecureInv'
<1> SUFFICES ASSUME SecureInv, [Next]_vars PROVE SecureInv'
  OBVIOUS
<1>1. CASE DaemonReadKey
  BY <1>1, DaemonReadKeyKeys, KeysStepAlone DEF SecureInv, DaemonReadKey, counts
<1>2. CASE DaemonWriteKey
  BY <1>2, DaemonWriteKeyKeys, KeysStepAlone DEF SecureInv, DaemonWriteKey, counts
<1>3. CASE Boot
  BY <1>3, BootTasks, KeysStand, RequestsStand DEF SecureInv, Boot, counts
<1>4. CASE Broadcast
  BY <1>4, BroadcastTasks, KeysStand, RequestsStand DEF SecureInv, Broadcast, counts
<1>5. CASE Each
  BY <1>5, EachTasks, KeysStand, RequestsStand DEF SecureInv, Each, counts
<1>6. CASE Elapse
  BY <1>6, TasksStand, KeysStand, RequestsStand DEF SecureInv, Elapse, counts, keys
<1>7. CASE StopDaemon
  BY <1>7, StoppedStep DEF StopDaemon
<1>8. CASE LoseKeyFile
  BY <1>8, LoseKeyFileKeys, KeysStepAlone DEF SecureInv, LoseKeyFile
<1>9. CASE UNCHANGED vars
  BY <1>9, TasksStand, KeysStand, RequestsStand DEF SecureInv, vars, keys, counts
<1> QED BY <1>1, <1>2, <1>3, <1>4, <1>5, <1>6, <1>7, <1>8, <1>9, CommandStep, TaskStep, BrowserStep DEF Next

\* The invariant holds all along.
LEMMA SecureInvariant == ChannelSpec => []SecureInv
BY SecureInvInit, SecureInvStep, PTL DEF ChannelSpec

-----------------------------------------------------------------------------
(***************************************************************************)
(* The results.                                                            *)
(***************************************************************************)

\* Keys, tasks and requests are where they can be, and a broadcast of the sync loop
\* reaches everybody who was known when it began and is in force still (NobodyLeftOut):
\* neither an older answer that replaces the cache meanwhile nor a refresh that fails
\* leaves a browser out, unless there were both, and the older answer took that browser.
THEOREM BroadcastsReachAll == ChannelSpec => []ChannelInv
<1>1. SecureInv => ChannelInv
  <2> SUFFICES ASSUME SecureInv PROVE ChannelInv
    OBVIOUS
  <2>1. ChannelTypeOK
    BY NoneBefore DEF SecureInv, KeysInv, KeysKnown, TasksInv, RequestsInv, ChannelTypeOK, MaybeKey,
                      DaemonRec, ShellRec, TaskRec, Paired
  <2>2. NobodyLeftOut
    BY DEF SecureInv, TasksInv, TaskFits, NobodyLeftOut, Tasks, Excused
  <2> QED BY <2>1, <2>2 DEF ChannelInv
<1> QED BY <1>1, SecureInvariant, PTL

\* Unless two processes generated a key at once, or the file was lost, every browser
\* in force has the key a running daemon decrypts with, across restarts of it.
THEOREM BrowsersHaveTheKey == ChannelSpec => []KeysAgree
<1>1. SecureInv => KeysAgree
  BY DEF SecureInv, KeysInv, KeysKnown, OnlyKey, TasksInv, Paired, KeysAgree
<1> QED BY <1>1, SecureInvariant, PTL

\* A code is only issued with the key the daemon decrypts with, whether the daemon
\* was started before, after or by the command, and although the file may be lost
\* and the daemon stopped between any two steps.
THEOREM CodesCarryTheKey == ChannelSpec => CodesFit
<1>1. SecureInv /\ [Next]_vars => [\A k \in codes' \ codes : raced \/ k = daemon.key]_vars
  <2> SUFFICES ASSUME SecureInv, Next, NEW k \in codes' \ codes, ~raced PROVE k = daemon.key
    BY DEF vars
  <2>1. PICK c \in Shells : AskCode(c)
    <3>1. codes' \subseteq codes \/ \E c \in Shells : AskCode(c)
      BY DEF Next, DaemonReadKey, DaemonWriteKey, Boot, Broadcast, Each, Elapse, StopDaemon, LoseKeyFile, ReadKey,
             WriteKey, RunStart, AskFails, Type, Redeem, Revoke, Request, Hello, Reply, Listed, Refreshed,
             RefreshFails, keys
    <3> QED BY <3>1
  <2>2. k = shell[c].key /\ shell[c].at = "ask" /\ daemon.at = "up"
    BY <2>1 DEF AskCode
  <2>3. shell[c].key = keyFile /\ keyFile # NoKey /\ daemon.key # NoKey
    BY <2>2, ChannelConstants DEF SecureInv, KeysInv, KeysKnown, FileIsTheKey
  <2> QED BY <2>2, <2>3 DEF SecureInv, KeysInv, FileIsTheKey
<1> QED BY <1>1, SecureInvariant, PTL DEF ChannelSpec, CodesFit

\* No request of a browser in force is dropped, unless a refresh failed: one that
\* comes from a browser admitted a moment ago finds it in the next answer, and the
\* reply survives a cache from before.
THEOREM NoneDropped == ChannelSpec => []NotDropped
<1>1. SecureInv => NotDropped
  BY DEF SecureInv, RequestsInv
<1> QED BY <1>1, SecureInvariant, PTL

=============================================================================
