-------------------------- MODULE SessionLifecycle --------------------------
(***************************************************************************)
(* The life of one session: agent/src/daemon.ts (the sync loop with exit   *)
(* detection and the governance of residual sessions, the handlers of      *)
(* create, kill, input, resize, replay and list), tmux-backend.ts (the     *)
(* tmux commands and the record on disk) and the commands of the agent's   *)
(* cli.ts that create and kill from processes of their own.                *)
(*                                                                         *)
(* Every task interleaves with the others at its awaits.  The record is    *)
(* updated under the state file's lock, so an update is atomic and starts  *)
(* from what is on disk; a task's own copy may be older.  Output is a      *)
(* counter; what a frame carries is AgentOutput.tla's subject.  A tick of  *)
(* the clock stands for an hour: what was started is finished by then, and *)
(* the loop, if the agent is up, has passed.                               *)
(***************************************************************************)
EXTENDS Integers, Sequences

CONSTANTS
  Handlers,      \* requests and CLI commands, each a task
  Kind,          \* Handlers -> what each of them asks for
  Sync,          \* the sync loop's task
  NoRecord,      \* nothing recorded yet
  NoRt,          \* runtimeState has no entry
  Managed,       \* launchMode is "command"
  HasFails,      \* the has-session command may fail for a session that is there
  WarningAfter, CleanupAfter,  \* orphanWarningMs, orphanCleanupMs, in ticks
  MaxTime,       \* bound on the clock
  MaxOut,        \* bound on the output
  MaxStops       \* bound on how often the agent is stopped

ASSUME LifecycleAssumption ==
  /\ Kind \in [Handlers -> {"create", "run", "kill", "clikill", "input", "resize", "replay", "list"}]
  /\ \A g, h \in Handlers :   \* a session has one creator
       Kind[g] \in {"create", "run"} /\ Kind[h] \in {"create", "run"} => g = h
  /\ Sync \notin Handlers
  /\ Managed \in BOOLEAN /\ HasFails \in BOOLEAN
  /\ WarningAfter \in Nat /\ CleanupAfter \in Nat
  /\ MaxTime \in Nat /\ MaxOut \in Nat /\ MaxStops \in Nat

VARIABLES
  alive,   \* the tmux session exists
  term,    \* [attached: a terminal is, pane: what it shows, usedAt: last output or attachment]
  rec,     \* the session's record on disk
  up,      \* the agent is running
  rt,      \* its runtimeState of the session: [rendered, status, normalized]
  task,    \* where each task is and what it holds
  view,    \* the status the observed browser was last told
  clock,   \* [now, passed: the loop went by since the last tick]
  stops    \* counter for the bound

lifeVars == <<alive, term, rec, up, rt, task, view, clock, stops>>

Tasks == Handlers \cup {Sync}
OfAgent(x) == x = Sync \/ Kind[x] \in {"create", "kill", "input", "resize", "replay", "list"}
Status == {"running", "exited"}
Never == 0
Record == [status : Status, outAt : Nat, attached : BOOLEAN, detachedAt : Nat,
           idleSince : Nat, cleanupAt : Nat, suspected : BOOLEAN]
Rt == [rendered : Nat, status : Status, normalized : BOOLEAN]
Places == {"idle", "loaded", "has", "normalize", "count", "killhas", "kill", "killed", "keys", "resize",
           "capture", "missing", "answered", "framing", "send", "bury", "options", "done"}
Task == [at : Places, snap : Record \cup {NoRecord}, had : BOOLEAN, changed : BOOLEAN, shot : Nat,
         next : Status, out : Seq(Status)]
Fresh(place) == [at |-> place, snap |-> NoRecord, had |-> FALSE, changed |-> FALSE, shot |-> 0,
                 next |-> "running", out |-> <<>>]

\* Nothing recorded is not a record.
ASSUME NothingAssumption == NoRecord \notin Record /\ NoRt \notin Rt

now == clock.now
Goto(x, place) == task' = [task EXCEPT ![x].at = place]
Say(x, place, statuses) == task' = [task EXCEPT ![x].at = place, ![x].out = statuses]
\* The task is over: the loop rests, which ends its pass.
End(x) ==
  /\ task' = [task EXCEPT ![x] = Fresh(IF x = Sync THEN "idle" ELSE "done")]
  /\ clock' = [clock EXCEPT !.passed = @ \/ x = Sync]

\* hasSession: what it answers when the command is executed; any failure is a no.
HasSession == {alive} \cup (IF HasFails THEN {FALSE} ELSE {})

\* createSession's record, and markSessionExited and killSession's update of one.
NewRecord == [status |-> "running", outAt |-> now, attached |-> FALSE, detachedAt |-> now,
              idleSince |-> now, cleanupAt |-> Never, suspected |-> FALSE]
Exited(r) == [r EXCEPT !.status = "exited", !.attached = FALSE, !.idleSince = Never,
                       !.cleanupAt = Never, !.suspected = FALSE]
\* bumpSessionSeq
Bumped(r) == [r EXCEPT !.outAt = now, !.suspected = FALSE]

\* Mutant of Suspected: the warning waits as long as the cleanup.
SuspectedLate(idle) == now - idle >= CleanupAfter
Suspected(idle) == now - idle >= WarningAfter

\* What syncSession computes from its copy of the record and the attached count.
\* cleanupAt stands for orphanWarningAt and autoCleanupAt, which go together.
Metadata(snap, attached) ==
  LET detachedAt == IF attached THEN Never
                    ELSE IF snap.attached \/ snap.detachedAt = Never THEN now ELSE snap.detachedAt
      idle == IF snap.outAt > detachedAt THEN snap.outAt ELSE detachedAt
      governed == Managed /\ ~attached
  IN [attached |-> attached, detachedAt |-> detachedAt,
      idleSince |-> IF governed THEN idle ELSE Never,
      cleanupAt |-> IF governed THEN idle + CleanupAfter ELSE Never,
      suspected |-> governed /\ Suspected(idle)]

\* Mutant of WithMetadata: the loop's copy is written back, not the record on disk.
SnapWithMetadata(r, snap, m) ==
  [snap EXCEPT !.attached = m.attached, !.detachedAt = m.detachedAt, !.idleSince = m.idleSince,
               !.cleanupAt = m.cleanupAt, !.suspected = m.suspected]

\* syncSessionRuntimeMetadata, an update of the record r that is on disk.
WithMetadata(r, snap, m) ==
  [r EXCEPT !.attached = m.attached, !.detachedAt = m.detachedAt, !.idleSince = m.idleSince,
            !.cleanupAt = m.cleanupAt, !.suspected = m.suspected]

Differs(snap, m) == \E f \in {"attached", "detachedAt", "idleSince", "cleanupAt", "suspected"} : m[f] # snap[f]

LifeInit ==
  /\ alive = FALSE
  /\ term = [attached |-> FALSE, pane |-> 1, usedAt |-> 1]
  /\ rec = NoRecord
  /\ up = TRUE
  /\ rt = NoRt
  /\ task = [x \in Tasks |-> Fresh("idle")]
  /\ view = "unknown"
  /\ clock = [now |-> 1, passed |-> FALSE]
  /\ stops = 0

-----------------------------------------------------------------------------
\* tmux and its users: output, a terminal that attaches or detaches, the end.
Output ==
  /\ alive /\ term.pane < MaxOut
  /\ term' = [term EXCEPT !.pane = @ + 1, !.usedAt = now]
  /\ UNCHANGED <<alive, rec, up, rt, task, view, clock, stops>>

AttachOrDetach ==
  /\ alive
  /\ term' = [term EXCEPT !.attached = ~@, !.usedAt = now]
  /\ UNCHANGED <<alive, rec, up, rt, task, view, clock, stops>>

ProgramEnds ==
  /\ alive
  /\ alive' = FALSE /\ term' = [term EXCEPT !.attached = FALSE]
  /\ UNCHANGED <<rec, up, rt, task, view, clock, stops>>

Tick ==
  /\ now < MaxTime
  /\ \A x \in Tasks : task[x].at \in {"idle", "done"}
  /\ up /\ rec # NoRecord => clock.passed
  /\ clock' = [now |-> now + 1, passed |-> FALSE]
  /\ term' = IF term.attached THEN [term EXCEPT !.usedAt = now + 1] ELSE term
  /\ UNCHANGED <<alive, rec, up, rt, task, view, stops>>

\* The agent stops in the middle of anything, and starts with the records on disk.
Stop ==
  /\ up /\ stops < MaxStops
  /\ up' = FALSE /\ rt' = NoRt /\ stops' = stops + 1
  /\ task' = [x \in Tasks |->
       IF ~OfAgent(x) \/ task[x].at = "idle" THEN task[x]
       ELSE Fresh(IF x = Sync THEN "idle" ELSE "done")]
  /\ UNCHANGED <<alive, term, rec, view, clock>>

Start ==
  /\ ~up /\ up' = TRUE
  /\ UNCHANGED <<alive, term, rec, rt, task, view, clock, stops>>

-----------------------------------------------------------------------------
\* createSession: tmux new-session, two options, the record, and the answers.
CreateSession(h) ==
  /\ task[h].at = "idle" /\ Kind[h] \in {"create", "run"} /\ (OfAgent(h) => up)
  /\ alive' = TRUE
  /\ Goto(h, "options")
  /\ term' = [term EXCEPT !.usedAt = now]
  /\ UNCHANGED <<rec, up, rt, view, clock, stops>>

\* The command of a session may end before its options are set, which is an error.
CreateFails(h) ==
  /\ task[h].at = "options" /\ ~alive
  /\ End(h)
  /\ UNCHANGED <<alive, term, rec, up, rt, view, stops>>

CreateRecord(h) ==
  /\ task[h].at = "options"
  /\ rec' = NewRecord
  /\ IF OfAgent(h) THEN Say(h, "send", <<"running", "running">>) /\ UNCHANGED clock ELSE End(h)
  /\ UNCHANGED <<alive, term, up, rt, view, stops>>

\* killSession: has-session, kill-session, the record.
KillBegin(h) ==
  /\ task[h].at = "idle" /\ Kind[h] \in {"kill", "clikill"} /\ (OfAgent(h) => up)
  /\ rec # NoRecord
  /\ Goto(h, "killhas")
  /\ UNCHANGED <<alive, term, rec, up, rt, view, clock, stops>>

\* Mutant of KillHas: a session is marked whether tmux still has it or not.
KillHasMarks(x) ==
  /\ task[x].at = "killhas"
  /\ Goto(x, "killed")
  /\ UNCHANGED <<alive, term, rec, up, rt, view, clock, stops>>

KillHas(x) ==
  /\ task[x].at = "killhas"
  /\ \E exists \in HasSession : Goto(x, IF exists THEN "kill" ELSE "killed")
  /\ UNCHANGED <<alive, term, rec, up, rt, view, clock, stops>>

KillTmux(x) ==
  /\ task[x].at = "kill"
  /\ IF alive THEN Goto(x, "killed") /\ UNCHANGED clock ELSE End(x)
  /\ alive' = FALSE /\ term' = [term EXCEPT !.attached = FALSE]
  /\ UNCHANGED <<rec, up, rt, view, stops>>

KillRecord(x) ==
  /\ task[x].at = "killed"
  /\ rec' = Exited(rec)
  /\ IF ~OfAgent(x) THEN End(x)
     ELSE Say(x, IF x = Sync THEN "bury" ELSE "send", <<"exited", "exited">>) /\ UNCHANGED clock
  /\ UNCHANGED <<alive, term, up, rt, view, stops>>

\* session.list: the answer carries what is on disk when it is asked.
List(h) ==
  /\ task[h].at = "idle" /\ Kind[h] = "list" /\ up /\ rec # NoRecord
  /\ Say(h, "send", <<rec.status>>)
  /\ UNCHANGED <<alive, term, rec, up, rt, view, clock, stops>>

\* noteRemoteInteraction: an entry for a session this agent has not synced yet.
Note == rt' = IF rt = NoRt THEN [rendered |-> 0, status |-> rec.status, normalized |-> FALSE] ELSE rt

\* session.replay: beside the note, frames for one browser, which carry no status.
Replay(h) ==
  /\ task[h].at = "idle" /\ Kind[h] = "replay" /\ up /\ rec # NoRecord
  /\ Note
  /\ End(h)
  /\ UNCHANGED <<alive, term, rec, up, view, stops>>

\* handleInput: keys, a delay, a look at the record, and then its capture.
InputBegin(h) ==
  /\ task[h].at = "idle" /\ Kind[h] = "input" /\ up /\ rec # NoRecord
  /\ Note
  /\ Goto(h, "keys")
  /\ UNCHANGED <<alive, term, rec, up, view, clock, stops>>

\* handleResize: the record as it is now, the window's size, a delay, and its capture.
ResizeBegin(h) ==
  /\ task[h].at = "idle" /\ Kind[h] = "resize" /\ up /\ rec # NoRecord
  /\ Note
  /\ task' = [task EXCEPT ![h].at = "resize", ![h].snap = rec]
  /\ UNCHANGED <<alive, term, rec, up, view, clock, stops>>

ResizeWindow(h) ==
  /\ task[h].at = "resize"
  /\ IF alive THEN Goto(h, "capture") /\ UNCHANGED clock ELSE End(h)
  /\ UNCHANGED <<alive, term, rec, up, rt, view, stops>>

InputFails(h) ==
  /\ task[h].at = "keys" /\ ~alive
  /\ End(h)
  /\ UNCHANGED <<alive, term, rec, up, rt, view, stops>>

InputCheck(h) ==
  /\ task[h].at = "keys"
  /\ IF rec.status = "exited" THEN End(h) ELSE Goto(h, "capture") /\ UNCHANGED clock
  /\ UNCHANGED <<alive, term, rec, up, rt, view, stops>>

-----------------------------------------------------------------------------
\* A message reaches the observed browser; after the last one the task is over,
\* and the loop notes the end of a session it has cleaned up.
Send(x) ==
  LET out == task[x].out IN
  /\ task[x].at \in {"send", "bury"}
  /\ view' = Head(out)
  /\ IF Len(out) > 1 THEN task' = [task EXCEPT ![x].out = Tail(out)] /\ UNCHANGED clock ELSE End(x)
  /\ rt' = IF task[x].at = "bury" /\ Len(out) = 1 THEN [rt EXCEPT !.status = "exited"] ELSE rt
  /\ UNCHANGED <<alive, term, rec, up, stops>>

\* capture-pane is executed ...
Capture(x) ==
  /\ task[x].at = "capture"
  /\ IF alive THEN task' = [task EXCEPT ![x].at = "answered", ![x].shot = term.pane]
     ELSE Goto(x, "missing")
  /\ UNCHANGED <<alive, term, rec, up, rt, view, clock, stops>>

\* The runtimeState object of the loop's pass: its own until it is entered in the map.
Runtime(status) ==
  IF task[Sync].had \/ task[Sync].at = "missing" THEN rt
  ELSE [rendered |-> 0, status |-> status, normalized |-> FALSE]

\* Mutant of MarkExited: only the end of a session that was synced before is noticed.
MarkKnown ==
  /\ task[Sync].at = "has" /\ ~alive /\ task[Sync].had
  /\ rec' = Exited(rec)
  /\ rt' = [rt EXCEPT !.status = "exited"]
  /\ Say(Sync, "send", <<"exited", "exited">>)
  /\ UNCHANGED <<alive, term, up, view, clock, stops>>

\* ... the pane is missing: the loop marks the session, the handlers leave it.
\* The loop does the same when has-session says no.
MarkExited ==
  /\ \/ task[Sync].at = "missing"
     \/ task[Sync].at = "has" /\ FALSE \in HasSession
  /\ rec' = Exited(rec)
  /\ rt' = [Runtime("exited") EXCEPT !.status = "exited"]
  /\ Say(Sync, "send", <<"exited", "exited">>)
  /\ UNCHANGED <<alive, term, up, view, clock, stops>>

PaneMissing(h) ==
  /\ task[h].at = "missing"
  /\ End(h)
  /\ UNCHANGED <<alive, term, rec, up, rt, view, stops>>

\* A new capture: the record is bumped, and the frame awaits the cursor and its broadcast.
NewOutput(x) ==
  LET bumped == Bumped(rec) IN
  /\ task[x].at = "answered" /\ task[x].shot # rt.rendered
  /\ rec' = bumped
  /\ task' = [task EXCEPT ![x].at = "framing", ![x].next = bumped.status]
  /\ rt' = IF x = Sync THEN rt ELSE [rendered |-> task[x].shot, status |-> bumped.status, normalized |-> TRUE]
  /\ UNCHANGED <<alive, term, up, view, clock, stops>>

\* A resize notes the status of its copy of the record, from before its awaits.
NothingNew(x) ==
  /\ task[x].at = "answered" /\ task[x].shot = rt.rendered
  /\ x = Sync => rt.status = task[x].next /\ ~task[x].changed
  /\ IF x = Sync /\ ~task[x].had THEN Say(x, "send", <<task[x].next>>) /\ UNCHANGED clock ELSE End(x)
  /\ rt' = IF x # Sync /\ Kind[x] = "resize"
           THEN [rt EXCEPT !.status = task[x].snap.status, !.normalized = TRUE] ELSE rt
  /\ UNCHANGED <<alive, term, rec, up, view, stops>>

\* The loop notes what it rendered, a handler did so before; both tell the state.
TellState(x) ==
  /\ \/ task[x].at = "framing"
     \/ /\ x = Sync /\ task[x].at = "answered" /\ task[x].shot = rt.rendered
        /\ rt.status # task[x].next \/ task[x].changed
  /\ rt' = IF x = Sync THEN [rt EXCEPT !.rendered = task[x].shot, !.status = task[x].next] ELSE rt
  /\ Say(x, "send", <<task[x].next>>)
  /\ UNCHANGED <<alive, term, rec, up, view, clock, stops>>

-----------------------------------------------------------------------------
\* syncLoop loads the records, and comes to this session after the others.
LoadState ==
  /\ task[Sync].at = "idle" /\ up /\ rec # NoRecord
  /\ task' = [task EXCEPT ![Sync].at = "loaded", ![Sync].snap = rec]
  /\ UNCHANGED <<alive, term, rec, up, rt, view, clock, stops>>

\* Mutant of SyncBegin: a record that is exited is passed over in silence.
SyncBeginQuiet ==
  LET exited == task[Sync].snap.status = "exited" IN
  /\ task[Sync].at = "loaded"
  /\ \/ /\ ~exited
        /\ task' = [task EXCEPT ![Sync].at = "has", ![Sync].had = rt # NoRt]
        /\ UNCHANGED clock
     \/ exited /\ End(Sync)
  /\ UNCHANGED <<alive, term, rec, up, rt, view, stops>>

\* syncSession: a record that is exited is told once, if it was running before.
SyncBegin ==
  LET exited == task[Sync].snap.status = "exited"
      known == rt # NoRt
  IN
  /\ task[Sync].at = "loaded"
  /\ \/ /\ ~exited
        /\ task' = [task EXCEPT ![Sync].at = "has", ![Sync].had = known]
        /\ UNCHANGED <<rt, clock>>
     \/ /\ exited /\ known /\ rt.status # "exited"
        /\ rt' = [rt EXCEPT !.status = "exited"]
        /\ Say(Sync, "send", <<"exited">>)
        /\ UNCHANGED clock
     \/ /\ exited /\ (known => rt.status = "exited")
        /\ End(Sync)
        /\ UNCHANGED rt
  /\ UNCHANGED <<alive, term, rec, up, view, stops>>

SyncHas ==
  /\ task[Sync].at = "has" /\ alive
  /\ Goto(Sync, IF task[Sync].had /\ rt.normalized THEN "count" ELSE "normalize")
  /\ UNCHANGED <<alive, term, rec, up, rt, view, clock, stops>>

\* A session this agent has not rendered before gets its window normalized; the
\* command fails when the session has just gone, and the pass with it.
SyncNormalize ==
  /\ task[Sync].at = "normalize"
  /\ IF alive
     THEN /\ rt' = [Runtime(task[Sync].snap.status) EXCEPT !.normalized = TRUE]
          /\ Goto(Sync, "count") /\ UNCHANGED clock
     ELSE End(Sync) /\ UNCHANGED rt
  /\ UNCHANGED <<alive, term, rec, up, view, stops>>

\* The attached count is known: metadata, and the decision to clean up.
SyncCount ==
  LET snap == task[Sync].snap
      m == Metadata(snap, term.attached)
      differs == Differs(snap, m)
  IN
  /\ task[Sync].at = "count"
  /\ rec' = IF differs THEN WithMetadata(rec, snap, m) ELSE rec
  /\ task' = [task EXCEPT
       ![Sync].at = IF m.cleanupAt # Never /\ now >= m.cleanupAt THEN "killhas" ELSE "capture",
       ![Sync].changed = differs,
       ![Sync].next = IF differs THEN rec.status ELSE snap.status]
  /\ UNCHANGED <<alive, term, up, rt, view, clock, stops>>

SyncStep ==
  \/ LoadState \/ SyncBegin \/ SyncHas \/ SyncNormalize \/ SyncCount \/ MarkExited
  \/ KillHas(Sync) \/ KillTmux(Sync) \/ KillRecord(Sync)
  \/ Capture(Sync) \/ NewOutput(Sync) \/ NothingNew(Sync) \/ TellState(Sync) \/ Send(Sync)

\* The steps of a handler once it is started.
HandlerStep(h) ==
  \/ CreateFails(h) \/ CreateRecord(h)
  \/ KillHas(h) \/ KillTmux(h) \/ KillRecord(h)
  \/ InputFails(h) \/ InputCheck(h) \/ ResizeWindow(h) \/ PaneMissing(h)
  \/ Capture(h) \/ NewOutput(h) \/ NothingNew(h) \/ TellState(h) \/ Send(h)

Users == Output \/ AttachOrDetach \/ ProgramEnds \/ Tick \/ Stop \/ Start

LifeNext ==
  \/ Users
  \/ SyncStep
  \/ \E h \in Handlers :
       \/ CreateSession(h) \/ KillBegin(h) \/ List(h) \/ Replay(h)
       \/ InputBegin(h) \/ ResizeBegin(h)
       \/ HandlerStep(h)

LifeSpec == LifeInit /\ [][LifeNext]_lifeVars

\* The loop goes on while the agent is up, and what was started is finished.
LifeFairSpec ==
  /\ LifeSpec
  /\ WF_lifeVars(SyncStep)
  /\ \A h \in Handlers : WF_lifeVars(HandlerStep(h))

-----------------------------------------------------------------------------
\* Tasks hold messages where their place says so, and one that compares a capture
\* finds the runtime state it compares with.
LifeTypeOK ==
  /\ alive \in BOOLEAN /\ up \in BOOLEAN
  /\ term \in [attached : BOOLEAN, pane : Nat, usedAt : Nat] /\ (term.attached => alive)
  /\ rec \in Record \cup {NoRecord}
  /\ rt \in Rt \cup {NoRt}
  /\ task \in [Tasks -> Task]
  /\ \A x \in Tasks : task[x].at \in {"send", "bury"} <=> task[x].out # <<>>
  /\ \A x \in Tasks : task[x].at \in {"count", "answered", "framing"} => rt # NoRt
  /\ view \in Status \cup {"unknown"}
  /\ clock \in [now : Nat, passed : BOOLEAN]

\* docs/cli-reference.md: "关闭一条会话，并同步把状态标记为 exited".
\* A session that is recorded as exited has no tmux session left: nobody loses
\* sight of a program that still runs, whoever of the loop, a browser and the CLI
\* closes or marks it.
ExitedIsGone == rec # NoRecord /\ rec.status = "exited" => ~alive

\* What is exited stays exited: no task writes its older copy of the record back.
ExitedForGood ==
  [][rec # NoRecord /\ rec.status = "exited" => rec' # NoRecord /\ rec'.status = "exited"]_lifeVars

\* An agent that is up for good notices the end of every session, also of one that
\* ended while it was down or when it stopped in the middle of noticing.
ExitNoticed ==
  <>[]up => (rec # NoRecord /\ ~alive ~> rec # NoRecord /\ rec.status = "exited")

\* docs/operations-guide.md: "退出程序或关闭会话后，手机端状态能同步更新".
\* With an agent that never stops, no browser goes on showing an exited session as
\* running, in whatever order the messages of the loop and of the handlers are sent.
BrowserLearns ==
  []up /\ <>[](rec # NoRecord /\ rec.status = "exited") => <>[](view # "running")

\* A request has still to tell that the session runs, as it did when the record was read.
StillTells(h) ==
  \/ task[h].at = "framing" /\ task[h].next = "running"
  \/ \E i \in 1 .. Len(task[h].out) : task[h].out[i] = "running"

\* BrowserLearns, if no request (an input, a resize, a list or the creation) that read the
\* record before the end has its answer still to send when the end is recorded.  Then the
\* end is the last thing told, whoever records it (the loop, a browser's kill, the CLI)
\* and whichever of them tells it, and the statuses that inputs and resizes write into
\* the runtime state do not make the loop pass over it.
TimelyBrowserLearns ==
  [](rec # NoRecord /\ rec.status = "exited" => \A h \in Handlers : ~StillTells(h)) => BrowserLearns

\* The loop's task kills the tmux session: the automatic cleanup.
CleansUp == task[Sync].at = "kill" /\ alive /\ ~alive' /\ task'[Sync].at = "killed"

\* docs/getting-started.md: marked as residual first, cleaned up much later.  While
\* the agent is up nothing is cleaned up that was not shown as suspected before.
WarnedFirst == [][CleansUp => task[Sync].snap.suspected]_lifeVars

\* docs/getting-started.md: "托管命令残留会话会在长期无人附着且无输出时被自动清理":
\* what is cleaned up shows no output and gets no terminal in the hour it is killed.
CleanedOnlyIdle == [][CleansUp => term.usedAt < now]_lifeVars
=============================================================================
