------------------------- MODULE BackgroundProcess -------------------------
(***************************************************************************)
(* The background agent and the background relay of one machine: the       *)
(* commands that start and stop them (agent/src/cli.ts, relay/src/cli.ts), *)
(* the runtime file that names the running one, and what makes a second    *)
(* one give way.  Both programs have this shape; `program` says which.     *)
(* A step is one access to a file, a process or the network.               *)
(***************************************************************************)
EXTENDS Naturals, FiniteSets

CONSTANTS
    Shells,       \* the terminals commands are typed into
    MaxPids,      \* bound: processes started; an id is never used again
    MaxCommands,  \* bound: commands typed
    MaxCrashes,   \* bound: daemons killed from outside
    MaxLosses     \* bound: connections of an agent lost

ASSUME ProcConstants ==
    /\ MaxPids \in Nat /\ MaxCommands \in Nat /\ MaxCrashes \in Nat /\ MaxLosses \in Nat

Pids == 1..MaxPids
NoPid == 0

VARIABLES
    program,   \* "agent" or "relay"
    daemon,    \* what each process is
    linked,    \* agents: those with a connection; relays: the one that listens
    owner,     \* agents: the connection the relay routes to; relays: of the port
    runtime,   \* the pid in the runtime file
    shell,     \* the command each terminal runs: [op, at, pid]
    commands, crashes, losses,
    overlap,   \* history: a command ran beside another, or beside a daemon not recorded
    stopped    \* history: the last command to change anything was a stop

procs == <<daemon, linked, owner>>
counts == <<crashes, losses>>
vars == <<program, daemon, linked, owner, runtime, shell, commands, crashes, losses, overlap, stopped>>

Idle == [op |-> "none", at |-> "none", pid |-> NoPid]

Alive(p) == p \in Pids /\ daemon[p] \in {"booting", "up", "leaving"}
Living == {p \in Pids : Alive(p)}

\* The system hands out the ids in order.
Fresh(p) == daemon[p] = "none" /\ \A q \in Pids : daemon[q] = "none" => p <= q

Init ==
    /\ program \in {"agent", "relay"}
    /\ daemon = [p \in Pids |-> "none"] /\ linked = {} /\ owner = NoPid
    /\ runtime = NoPid
    /\ shell = [c \in Shells |-> Idle]
    /\ commands = 0 /\ crashes = 0 /\ losses = 0
    /\ overlap = FALSE /\ stopped = FALSE

-----------------------------------------------------------------------------
(***************************************************************************)
(* The runtime file.                                                       *)
(***************************************************************************)

\* clearAgentRuntime(p), clearRelayRuntime(p): only if it still names p.
ClearedOf(p) == IF runtime = p THEN NoPid ELSE runtime

\* readRuntimeStatus(): the running daemon, or none and a dead one's entry gone.
Status == IF Alive(runtime) THEN runtime ELSE NoPid

-----------------------------------------------------------------------------
(***************************************************************************)
(* The daemon.                                                             *)
(***************************************************************************)

\* The process p is no more; its connection or its port goes with it.
Dies(p) ==
    /\ daemon' = [daemon EXCEPT ![p] = "dead"]
    /\ linked' = linked \ {p}
    /\ owner' = IF owner = p THEN NoPid ELSE owner

Changes(p, what) == daemon' = [daemon EXCEPT ![p] = what] /\ UNCHANGED <<linked, owner>>

\* runDaemon(), runForeground(): it records itself and takes signals from here.
Boot(p) ==
    /\ daemon[p] = "booting"
    /\ Changes(p, "up")
    /\ runtime' = p
    /\ UNCHANGED <<program, shell, commands, counts, overlap, stopped>>

\* The relay takes the new connection of a device's agent for the old one.
Connect(p) ==
    /\ program = "agent" /\ daemon[p] = "up" /\ p \notin linked
    /\ linked' = linked \cup {p} /\ owner' = p
    /\ UNCHANGED <<program, daemon, runtime, shell, commands, counts, overlap, stopped>>

\* Mutant of Replaced: it tries again instead.
ReplacedRetries(p) ==
    /\ program = "agent" /\ p \in linked /\ owner # p /\ daemon[p] = "up"
    /\ linked' = linked \ {p}
    /\ UNCHANGED <<program, daemon, owner, runtime, shell, commands, counts, overlap, stopped>>

\* AGENT_REPLACED: the agent that hears it stops.
Replaced(p) ==
    /\ program = "agent" /\ p \in linked /\ owner # p /\ daemon[p] = "up"
    /\ daemon' = [daemon EXCEPT ![p] = "leaving"] /\ linked' = linked \ {p}
    /\ UNCHANGED <<program, owner, runtime, shell, commands, counts, overlap, stopped>>

\* A connection breaks, and with it what was on its way.
LoseLink(p) ==
    /\ program = "agent" /\ p \in linked /\ losses < MaxLosses
    /\ losses' = losses + 1
    /\ linked' = linked \ {p} /\ owner' = IF owner = p THEN NoPid ELSE owner
    /\ UNCHANGED <<program, daemon, runtime, shell, commands, crashes, overlap, stopped>>

Listen(p) ==
    /\ program = "relay" /\ daemon[p] = "up" /\ owner = NoPid
    /\ linked' = linked \cup {p} /\ owner' = p
    /\ UNCHANGED <<program, daemon, runtime, shell, commands, counts, overlap, stopped>>

\* listen() fails: the process exits with an error.
PortTaken(p) ==
    /\ program = "relay" /\ daemon[p] = "up" /\ owner \notin {NoPid, p}
    /\ Changes(p, "leaving")
    /\ UNCHANGED <<program, runtime, shell, commands, counts, overlap, stopped>>

\* The "exit" listener.
Exit(p) ==
    /\ daemon[p] = "leaving"
    /\ Dies(p)
    /\ runtime' = ClearedOf(p)
    /\ UNCHANGED <<program, shell, commands, counts, overlap, stopped>>

\* No tmux, kill -9, a reboot: no listener runs.
Crash(p) ==
    /\ Alive(p) /\ crashes < MaxCrashes
    /\ crashes' = crashes + 1
    /\ Dies(p)
    /\ UNCHANGED <<program, runtime, shell, commands, losses, overlap, stopped>>

\* SIGTERM: an agent's listener stops it, the relay and a booting agent have none.
Terminate(p) ==
    IF program = "agent" /\ daemon[p] \in {"up", "leaving"} THEN Changes(p, "leaving") ELSE Dies(p)

-----------------------------------------------------------------------------
(***************************************************************************)
(* The commands.                                                           *)
(***************************************************************************)

Busy == \E c \in Shells : shell[c] # Idle
Unrecorded == \E p \in Living : runtime # p

At(c, op, at) == shell[c].op = op /\ shell[c].at = at
Goes(c, at, p) == shell' = [shell EXCEPT ![c].at = at, ![c].pid = p]
Ends(c) == shell' = [shell EXCEPT ![c] = Idle]

\* A stop in a start goes on with the start.
StopEnds(c) ==
    IF shell[c].op = "start" THEN Goes(c, "spawn", NoPid) /\ UNCHANGED stopped
                             ELSE Ends(c) /\ stopped' = TRUE

Type(c, op) ==
    /\ shell[c] = Idle /\ commands < MaxCommands
    /\ commands' = commands + 1
    /\ shell' = [shell EXCEPT ![c] = [op |-> op, at |-> "read", pid |-> NoPid]]
    /\ overlap' = (overlap \/ Busy \/ Unrecorded)
    /\ stopped' = (stopped /\ op = "stop")
    /\ UNCHANGED <<program, procs, runtime, counts>>

\* `agent --foreground`, `relay run`: the daemon itself, whatever is running.
Foreground(p) ==
    /\ Fresh(p) /\ commands < MaxCommands
    /\ commands' = commands + 1
    /\ Changes(p, "booting")
    /\ overlap' = (overlap \/ Busy \/ Living # {})
    /\ stopped' = FALSE
    /\ UNCHANGED <<program, runtime, shell, counts>>

\* runStart(): an agent that runs as configured is left running.
StartRead(c) ==
    /\ At(c, "start", "read")
    /\ runtime' = Status
    /\ \/ Status = NoPid /\ Goes(c, "spawn", NoPid)
       \/ Status # NoPid /\ Goes(c, "stop", NoPid)
       \/ Status # NoPid /\ program = "agent" /\ Ends(c)
    /\ UNCHANGED <<program, procs, commands, counts, overlap, stopped>>

StartSpawn(c) ==
    /\ At(c, "start", "spawn")
    /\ runtime' = NoPid
    /\ \E p \in Pids : Fresh(p) /\ Changes(p, "booting") /\ Goes(c, "save", p)
    /\ UNCHANGED <<program, commands, counts, overlap, stopped>>

StartSave(c) ==
    /\ At(c, "start", "save")
    /\ runtime' = shell[c].pid
    /\ Ends(c)
    /\ UNCHANGED <<program, procs, commands, counts, overlap, stopped>>

\* runStop(), to SIGTERM.
StopRead(c) ==
    /\ At(c, "stop", "read") \/ At(c, "start", "stop")
    /\ IF Status = NoPid
       THEN /\ runtime' = NoPid
            /\ StopEnds(c)
            /\ UNCHANGED procs
       ELSE /\ Terminate(Status)
            /\ Goes(c, "wait", Status)
            /\ UNCHANGED <<runtime, stopped>>
    /\ UNCHANGED <<program, commands, counts, overlap>>

\* Mutant of StopSeen: SIGTERM is taken for the end.
StopUnseen(c) ==
    /\ shell[c].at = "wait"
    /\ runtime' = ClearedOf(shell[c].pid)
    /\ StopEnds(c)
    /\ UNCHANGED <<program, procs, commands, counts, overlap>>

StopSeen(c) ==
    /\ shell[c].at = "wait" /\ ~Alive(shell[c].pid)
    /\ runtime' = ClearedOf(shell[c].pid)
    /\ StopEnds(c)
    /\ UNCHANGED <<program, procs, commands, counts, overlap>>

\* Mutant of StopForce: it gives up after the two seconds.
StopGivesUp(c) ==
    /\ shell[c].at = "wait" /\ Alive(shell[c].pid)
    /\ StopEnds(c)
    /\ UNCHANGED <<program, procs, runtime, commands, counts, overlap>>

\* After two seconds.
StopForce(c) ==
    /\ shell[c].at = "wait" /\ Alive(shell[c].pid)
    /\ Dies(shell[c].pid)
    /\ runtime' = ClearedOf(shell[c].pid)
    /\ StopEnds(c)
    /\ UNCHANGED <<program, commands, counts, overlap>>

Command(c) == \/ StartRead(c) \/ StartSpawn(c) \/ StartSave(c)
              \/ StopRead(c) \/ StopSeen(c) \/ StopForce(c)

-----------------------------------------------------------------------------
Next ==
    \/ \E p \in Pids : \/ Boot(p) \/ Connect(p) \/ Replaced(p) \/ LoseLink(p)
                       \/ Listen(p) \/ PortTaken(p) \/ Exit(p) \/ Crash(p) \/ Foreground(p)
    \/ \E c \in Shells : Command(c) \/ \E op \in {"start", "stop"} : Type(c, op)

ProcSpec == Init /\ [][Next]_vars

\* A process and a command go on; an agent reconnects and hears what it is told.
\* Nobody has to type a command, and no connection has to break.
ProcFairSpec ==
    /\ ProcSpec
    /\ \A p \in Pids : /\ WF_vars(Boot(p)) /\ WF_vars(Connect(p)) /\ WF_vars(Replaced(p))
                       /\ WF_vars(Listen(p)) /\ WF_vars(PortTaken(p)) /\ WF_vars(Exit(p))
    /\ \A c \in Shells : WF_vars(Command(c))

-----------------------------------------------------------------------------
(***************************************************************************)
(* Properties.                                                             *)
(***************************************************************************)

\* Processes, the file and the commands have their types; who owns the
\* connection or the port is alive and has it.
ProcTypeOK ==
    /\ program \in {"agent", "relay"}
    /\ daemon \in [Pids -> {"none", "booting", "up", "leaving", "dead"}]
    /\ linked \subseteq Living /\ owner \in linked \cup {NoPid}
    /\ runtime \in Pids \cup {NoPid}
    /\ shell \in [Shells -> [op : {"none", "start", "stop"},
                             at : {"none", "read", "spawn", "save", "stop", "wait"}, pid : Pids \cup {NoPid}]]
    /\ commands \in 0..MaxCommands /\ crashes \in 0..MaxCrashes /\ losses \in 0..MaxLosses
    /\ overlap \in BOOLEAN /\ stopped \in BOOLEAN

\* Commands typed one after the other never have two daemons running, whatever
\* crashed in between and however slowly a daemon stops.
OneDaemon == ~overlap => Cardinality(Living) <= 1

\* Then, too, a daemon that has booted is the one the runtime file names
\* whenever no command is under way: `status` and `stop` find it.
Recorded ==
    ~overlap /\ ~Busy => \A p \in Living : daemon[p] # "booting" => runtime = p

\* All of it: the connection or port of one that died is free for the only one.
ProcInv == ProcTypeOK /\ OneDaemon /\ Recorded

\* And after a stop nothing is left running until something is started.
StoppedMeansGone == ~overlap /\ stopped => Living = {}

\* However many were started at once, one is left in the end: the one the relay
\* routes to, or the one that listens.
Settles == <>[](\A p \in Living : owner = p)

\* The same of being found by `stop`, without the condition on commands.
StopFinds == <>[](\A p \in Living : runtime = p)
=============================================================================
