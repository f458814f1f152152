---------------------------- MODULE AgentOutput ----------------------------
(***************************************************************************)
(* agent/src/daemon.ts, the output of one running session: the sync loop   *)
(* and the handlers of session.input, session.resize and session.replay    *)
(* capture the tmux pane, compare it with the last rendered buffer and     *)
(* send frames.  Each of them is an async function: the loop is one task   *)
(* that repeats, a handler is a task of its own that the socket starts     *)
(* without waiting for the ones before it, and they interleave at every    *)
(* await (tmux commands, timers, encryption).                              *)
(*                                                                         *)
(* A frame's data is what `screen' has beyond `base', which is all of it   *)
(* for a replace frame.  One paired browser is observed, and the agent's   *)
(* socket is open: what is sent without one goes nowhere, as in            *)
(* BrowserView.tla.                                                        *)
(***************************************************************************)
EXTENDS Integers, SequencesExt

CONSTANTS
  Screens,      \* what capture-pane can answer: sequences of lines, <<>> for a blank pane
  Handlers,     \* requests of the browser, each handled by a task
  Kind,         \* Handlers -> "input", "resize" or "replay"
  Sync,         \* the sync loop's task
  FrameLimit,   \* OUTPUT_FRAME_LIMIT
  MaxChanges,   \* bound on how often the pane changes
  MaxRestarts   \* bound on how often the agent is restarted

ASSUME OutputAssumption ==
  /\ Kind \in [Handlers -> {"input", "resize", "replay"}]
  /\ Sync \notin Handlers
  /\ FrameLimit \in Nat \ {0} /\ MaxChanges \in Nat /\ MaxRestarts \in Nat

VARIABLES
  pane,       \* what capture-pane would answer now
  lastSeq,    \* lastSeq of the session's record, which is on disk
  known,      \* runtimeState has an entry for the session
  rendered,   \* its lastRenderedBuffer; "" is <<>>, also before the first frame
  cache,      \* outputBuffers
  task,       \* where each task is, its capture, the number it answers a replay with
  outbox,     \* the frames each task has still to cache or send
  made,       \* history: made[n] is the frame that was given sequence number n
  shown,      \* history: the screens of the frames this agent has broadcast since it started
  changes, restarts   \* counters for the bounds

outputVars == <<pane, lastSeq, known, rendered, cache, task, outbox, made, shown, changes, restarts>>

Tasks == Handlers \cup {Sync}
KindOf(x) == IF x = Sync THEN "sync" ELSE Kind[x]
Frame == [seq : Nat, mode : {"append", "replace"}, base : Screens \cup {<<>>}, screen : Screens]

\* A task awaits tmux (normalize, capture, cursor), its turn after an answer, or
\* the encryption of a message.
Places == {"idle", "normalize", "capture", "answered", "cursor", "send", "commit", "done"}
Resting == {"idle", "done"}
Task == [at : Places, shot : Screens \cup {<<>>}, seq : Nat]
Rest(x) == [at |-> IF x = Sync THEN "idle" ELSE "done", shot |-> <<>>, seq |-> 0]

Goto(x, place) == task' = [task EXCEPT ![x].at = place]
End(x) == task' = [task EXCEPT ![x] = Rest(x)]

\* deriveOutputFrame
DeriveOutputFrame(n, previous, next) ==
  IF previous = <<>> \/ ~IsPrefix(previous, next)
  THEN [seq |-> n, mode |-> "replace", base |-> <<>>, screen |-> next]
  ELSE [seq |-> n, mode |-> "append", base |-> previous, screen |-> next]

ReplaceFrame(n, next) == [seq |-> n, mode |-> "replace", base |-> <<>>, screen |-> next]

\* Mutant of PushOutputFrame: one frame too many is kept.
PushOneMore(frame) ==
  LET grown == Append(cache, frame)
  IN  cache' = SubSeq(grown, IF Len(grown) > FrameLimit THEN Len(grown) - FrameLimit ELSE 1, Len(grown))

\* pushOutputFrame
PushOutputFrame(frame) ==
  LET grown == Append(cache, frame)
  IN  cache' = SubSeq(grown, IF Len(grown) > FrameLimit THEN Len(grown) - FrameLimit + 1 ELSE 1, Len(grown))

OutputInit ==
  /\ pane \in Screens
  /\ lastSeq = 0
  /\ known = FALSE
  /\ rendered = <<>>
  /\ cache = <<>>
  /\ task = [x \in Tasks |-> [at |-> "idle", shot |-> <<>>, seq |-> 0]]
  /\ outbox = [x \in Tasks |-> <<>>]
  /\ made = <<>>
  /\ shown = {}
  /\ changes = 0 /\ restarts = 0

-----------------------------------------------------------------------------
\* The program in the pane prints, clears or redraws.
PaneChanges ==
  /\ changes < MaxChanges
  /\ \E s \in Screens \ {pane} : pane' = s
  /\ changes' = changes + 1
  /\ UNCHANGED <<lastSeq, known, rendered, cache, task, outbox, made, shown, restarts>>

\* The agent stops (in the middle of any task) and is started again: the record
\* is on disk, everything else starts over.
Restart ==
  /\ restarts < MaxRestarts
  /\ restarts' = restarts + 1
  /\ known' = FALSE /\ rendered' = <<>> /\ cache' = <<>>
  /\ task' = [x \in Tasks |-> IF task[x].at = "idle" THEN task[x] ELSE Rest(x)]
  /\ outbox' = [x \in Tasks |-> <<>>]
  /\ shown' = {}
  /\ UNCHANGED <<pane, lastSeq, made, changes>>

\* syncSession of a session this agent has no runtime state of awaits the window's
\* normalization first, and then installs a state of its own.
SyncBegin ==
  /\ task[Sync].at = "idle"
  /\ Goto(Sync, IF known THEN "capture" ELSE "normalize")
  /\ UNCHANGED <<pane, lastSeq, known, rendered, cache, outbox, made, shown, changes, restarts>>

SyncNormalize ==
  /\ task[Sync].at = "normalize"
  /\ known' = TRUE /\ rendered' = <<>>
  /\ Goto(Sync, "capture")
  /\ UNCHANGED <<pane, lastSeq, cache, outbox, made, shown, changes, restarts>>

\* handleInput and handleResize up to their capture: the keys sent, the delay over.
HandlerBegin(h) ==
  /\ task[h].at = "idle"
  /\ Kind[h] \in {"input", "resize"}
  /\ known' = TRUE
  /\ rendered' = IF known THEN rendered ELSE <<>>
  /\ Goto(h, "capture")
  /\ UNCHANGED <<pane, lastSeq, cache, outbox, made, shown, changes, restarts>>

\* tmux executes capture-pane ...
Capture(x) ==
  /\ task[x].at = "capture"
  /\ task' = [task EXCEPT ![x].at = "answered", ![x].shot = pane]
  /\ UNCHANGED <<pane, lastSeq, known, rendered, cache, outbox, made, shown, changes, restarts>>

\* ... and its exit wakes the task: nothing new ends it ...
SameBuffer(x) ==
  /\ task[x].at = "answered"
  /\ KindOf(x) # "replay"
  /\ task[x].shot = rendered
  /\ End(x)
  /\ UNCHANGED <<pane, lastSeq, known, rendered, cache, outbox, made, shown, changes, restarts>>

\* ... else bumpSessionSeq and a frame, numbered, which then awaits the cursor's position
\* and is sent after that.  The handlers note what they render at once, before the frame
\* is cached or sent, the loop when all is sent.
NewBuffer(x) ==
  LET frame == IF KindOf(x) = "resize"
               THEN ReplaceFrame(lastSeq + 1, task[x].shot)
               ELSE DeriveOutputFrame(lastSeq + 1, rendered, task[x].shot)
  IN
  /\ task[x].at = "answered"
  /\ KindOf(x) # "replay"
  /\ task[x].shot # rendered
  /\ lastSeq' = lastSeq + 1
  /\ made' = Append(made, frame)
  /\ Goto(x, "cursor")
  /\ outbox' = [outbox EXCEPT ![x] = <<frame>>]
  /\ rendered' = IF x = Sync THEN rendered ELSE task[x].shot
  /\ UNCHANGED <<pane, known, cache, shown, changes, restarts>>

\* The cached frames with a greater number, in their order.
CachedAfter(afterSeq) ==
  LET kept[n \in 0 .. Len(cache)] ==
        IF n = 0 THEN <<>>
        ELSE IF cache[n].seq > afterSeq THEN Append(kept[n - 1], cache[n]) ELSE kept[n - 1]
  IN  kept[Len(cache)]

\* handleReplay: from the cache when it goes on where the browser is, else anew.
ReplayFromCache(h, afterSeq) ==
  LET frames == CachedAfter(afterSeq)
      first == Head(frames)
      served == /\ frames # <<>>
                /\ first.seq <= afterSeq + 1
                /\ afterSeq < 0 => first.mode = "replace"
  IN
  /\ task[h].at = "idle"
  /\ Kind[h] = "replay"
  /\ known' = TRUE
  /\ rendered' = IF known THEN rendered ELSE <<>>
  /\ task' = [task EXCEPT ![h].at = IF served THEN "send" ELSE "capture", ![h].seq = lastSeq]
  /\ outbox' = [outbox EXCEPT ![h] = IF served THEN frames ELSE <<>>]
  /\ UNCHANGED <<pane, lastSeq, cache, made, shown, changes, restarts>>

\* Mutant of ReplayCaptured: what one browser is sent is noted as rendered for all.
ReplayCapturedNoted(h) ==
  /\ task[h].at = "answered"
  /\ KindOf(h) = "replay"
  /\ Goto(h, "cursor")
  /\ outbox' = [outbox EXCEPT ![h] = <<ReplaceFrame(task[h].seq, task[h].shot)>>]
  /\ rendered' = task[h].shot
  /\ UNCHANGED <<pane, lastSeq, known, cache, made, shown, changes, restarts>>

ReplayCaptured(h) ==
  /\ task[h].at = "answered"
  /\ KindOf(h) = "replay"
  /\ Goto(h, "cursor")
  /\ outbox' = [outbox EXCEPT ![h] = <<ReplaceFrame(task[h].seq, task[h].shot)>>]
  /\ UNCHANGED <<pane, lastSeq, known, rendered, cache, made, shown, changes, restarts>>

\* The cursor is known: the frame is cached.
CursorAnswered(x) ==
  /\ task[x].at = "cursor"
  /\ PushOutputFrame(Head(outbox[x]))
  /\ Goto(x, "send")
  /\ UNCHANGED <<pane, lastSeq, known, rendered, outbox, made, shown, changes, restarts>>

\* A frame is encrypted and sent, an answer to the browser that asked, a broadcast to all.
SendFrame(x) ==
  /\ task[x].at = "send"
  /\ shown' = IF KindOf(x) = "replay" THEN shown ELSE shown \cup {Head(outbox[x]).screen}
  /\ outbox' = [outbox EXCEPT ![x] = Tail(@)]
  /\ \/ Len(outbox[x]) > 1 /\ UNCHANGED task
     \/ Len(outbox[x]) = 1 /\ x = Sync /\ Goto(x, "commit")
     \/ Len(outbox[x]) = 1 /\ x # Sync /\ End(x)
  /\ UNCHANGED <<pane, lastSeq, known, rendered, cache, made, changes, restarts>>

\* Mutants of SyncCommit: the pane of now is noted; the loop ends with its first output.
SyncCommitPane ==
  /\ task[Sync].at = "commit"
  /\ rendered' = pane
  /\ End(Sync)
  /\ UNCHANGED <<pane, lastSeq, known, cache, outbox, made, shown, changes, restarts>>

SyncCommitLast ==
  /\ task[Sync].at = "commit"
  /\ rendered' = task[Sync].shot
  /\ Goto(Sync, "done")
  /\ UNCHANGED <<pane, lastSeq, known, cache, outbox, made, shown, changes, restarts>>

\* After its broadcast the loop notes what it rendered.
SyncCommit ==
  /\ task[Sync].at = "commit"
  /\ rendered' = task[Sync].shot
  /\ End(Sync)
  /\ UNCHANGED <<pane, lastSeq, known, cache, outbox, made, shown, changes, restarts>>

\* The steps of a task once it is started.
TaskStep(x) ==
  \/ Capture(x)
  \/ SameBuffer(x)
  \/ NewBuffer(x)
  \/ ReplayCaptured(x)
  \/ CursorAnswered(x)
  \/ SendFrame(x)

SyncStep == SyncBegin \/ SyncNormalize \/ SyncCommit \/ TaskStep(Sync)

OutputNext ==
  \/ PaneChanges
  \/ Restart
  \/ SyncStep
  \/ \E h \in Handlers :
       \/ HandlerBegin(h)
       \/ \E afterSeq \in -1 .. lastSeq : ReplayFromCache(h, afterSeq)
       \/ TaskStep(h)

OutputSpec == OutputInit /\ [][OutputNext]_outputVars

\* The loop goes on as long as the agent runs, tmux answers, promises resolve.
OutputFairSpec ==
  /\ OutputSpec
  /\ WF_outputVars(SyncStep)
  /\ \A h \in Handlers : WF_outputVars(TaskStep(h))

-----------------------------------------------------------------------------
\* Tasks hold a capture and frames where their place says so.
OutputTypeOK ==
  /\ pane \in Screens
  /\ lastSeq \in Nat
  /\ known \in BOOLEAN
  /\ rendered \in Screens \cup {<<>>}
  /\ cache \in Seq(Frame) /\ Len(cache) <= FrameLimit
  /\ task \in [Tasks -> Task] /\ outbox \in [Tasks -> Seq(Frame)]
  /\ \A x \in Tasks : (task[x].at \in {"cursor", "send"} <=> outbox[x] # <<>>)
  /\ made \in Seq(Frame) /\ Len(made) = lastSeq
  /\ shown \subseteq Screens
  /\ changes \in 0 .. MaxChanges /\ restarts \in 0 .. MaxRestarts

\* No input and no resize has been handled yet: browsers only asked for replays.
OnlyLooked == \A h \in Handlers : Kind[h] = "replay" \/ task[h].at = "idle"

\* A browser that applies frame after frame in the order of their numbers always
\* has a screen the pane once showed: an append goes on from the frame before it.
\* docs/protocol.md: "当前输出模型不是终端字节流，而是 ANSI 快照替换".
AlwaysChain ==
  \A n \in 1 .. Len(made) :
    made[n].mode = "append" => n > 1 /\ made[n - 1].screen = made[n].base

\* So it is until the first input or resize is handled.
FramesChain == OnlyLooked => AlwaysChain

\* What the agent holds for rendered it has broadcast since it started, or the input or
\* resize that noted it still holds the frame that shows it and is about to broadcast it:
\* no screen is noted, and so taken for old news, that goes out to nobody (what was sent
\* to one browser in answer to its replay does not count).
RenderedGoesOut ==
  rendered # <<>> =>
    \/ rendered \in shown
    \/ \E h \in Handlers : Kind[h] # "replay" /\ outbox[h] # <<>> /\ Head(outbox[h]).screen = rendered

\* When no task is under way the newest frame is what the agent thinks the
\* browsers show; else they would be left with a stale screen until the next change.
NewestIsRendered ==
  (\A x \in Tasks : task[x].at \in Resting) =>
    rendered = <<>> \/ made[lastSeq].screen = rendered

\* docs/protocol.md: "如果 pane 内容发生变化，递增 lastSeq", and every browser is sent
\* the frame: once the pane stays at s, s is what the newest frame shows (before
\* the first frame the browsers show a blank screen).
NewestShowsPane ==
  \A s \in Screens :
    <>[](pane = s) => <>[](IF lastSeq = 0 THEN s = <<>> ELSE made[lastSeq].screen = s)

\* Whatever the handlers roll back, the agent comes to render the pane it has:
\* once the pane stays at s, so does rendered.
CatchesUp == \A s \in Screens : <>[](pane = s) => <>[](rendered = s)
=============================================================================
