------------------------ MODULE AgentOutput_proofs ------------------------
(***************************************************************************)
(* What holds of the frames of a session for any number of requests,       *)
(* screens, restarts and changes of the pane: as long as browsers only     *)
(* look (they send replay requests, no input and no resize) the frames     *)
(* chain; the cache keeps to its limit; and what is noted as rendered goes *)
(* out to the browsers.                                                    *)
(***************************************************************************)
EXTENDS AgentOutput, SequenceTheorems, WellFoundedInduction, TLAPS

\* The part of the type invariant the arguments use.
LoopType ==
  /\ pane \in Screens
  /\ rendered \in Screens \cup {<<>>}
  /\ lastSeq \in Nat
  /\ made \in Seq(Frame) /\ Len(made) = lastSeq
  /\ task \in [Tasks -> Task]
  /\ \A x \in Tasks : task[x].at = "answered" => task[x].shot \in Screens

Ahead == {"cursor", "send", "commit"}

LEMMA LoopTypeInit == OutputInit => LoopType
BY OutputAssumption DEF OutputInit, LoopType, Tasks, Task, Places

LEMMA GotoMoves ==
  ASSUME task \in [Tasks -> Task], NEW x \in Tasks, NEW place \in Places, Goto(x, place)
  PROVE /\ task' \in [Tasks -> Task]
        /\ task'[x].at = place /\ task'[x].shot = task[x].shot
        /\ \A y \in Tasks \ {x} : task'[y] = task[y]
BY DEF Goto, Task

LEMMA EndMoves ==
  ASSUME task \in [Tasks -> Task], NEW x \in Tasks, End(x)
  PROVE /\ task' \in [Tasks -> Task]
        /\ task'[x].at = (IF x = Sync THEN "idle" ELSE "done")
        /\ \A y \in Tasks \ {x} : task'[y] = task[y]
BY DEF End, Rest, Task, Places

LEMMA SendMoves ==
  ASSUME NEW x \in Tasks, SendFrame(x)
  PROVE UNCHANGED task \/ (x = Sync /\ Goto(x, "commit")) \/ (x # Sync /\ End(x))
BY DEF SendFrame

\* What a new frame is, whoever derives it.
LEMMA FrameMade ==
  ASSUME LoopType, NEW x \in Tasks, NewBuffer(x)
  PROVE \E frame \in Frame :
          /\ frame.screen = task[x].shot
          /\ KindOf(x) = "sync" /\ frame.mode = "append" => rendered # <<>> /\ frame.base = rendered
          /\ lastSeq' = lastSeq + 1
          /\ made' \in Seq(Frame) /\ Len(made') = lastSeq'
          /\ made'[lastSeq'] = frame /\ \A n \in 1 .. lastSeq : made'[n] = made[n]
<1> DEFINE frame == IF KindOf(x) = "resize" THEN ReplaceFrame(lastSeq + 1, task[x].shot)
                    ELSE DeriveOutputFrame(lastSeq + 1, rendered, task[x].shot)
<1> USE DEF LoopType
<1>1. /\ task[x].shot \in Screens
      /\ lastSeq' = lastSeq + 1 /\ made' = Append(made, frame)
  BY DEF NewBuffer
<1>2. /\ frame \in Frame /\ frame.screen = task[x].shot
      /\ KindOf(x) = "sync" /\ frame.mode = "append" => rendered # <<>> /\ frame.base = rendered
  BY <1>1 DEF DeriveOutputFrame, ReplaceFrame, Frame
<1> HIDE DEF frame
<1>3. /\ made' \in Seq(Frame) /\ Len(made') = lastSeq'
      /\ made'[lastSeq'] = frame /\ \A n \in 1 .. lastSeq : made'[n] = made[n]
  BY <1>1, <1>2, AppendProperties
<1> QED BY <1>1, <1>2, <1>3

\* The steps that leave a task's place where a capture is compared.
LEMMA TaskStepType ==
  ASSUME LoopType, NEW x \in Tasks, TaskStep(x)
  PROVE LoopType'
<1> USE DEF LoopType
<1>1. CASE Capture(x)
  BY <1>1 DEF Capture, Task, Places
<1>2. CASE SameBuffer(x)
  BY <1>2, EndMoves DEF SameBuffer
<1>3. CASE NewBuffer(x)
  <2>1. Goto(x, "cursor") /\ rendered' \in Screens \cup {<<>>} /\ UNCHANGED pane
    BY <1>3 DEF NewBuffer
  <2>2. task' \in [Tasks -> Task] /\ \A y \in Tasks : task'[y].at = "answered" => task'[y].shot \in Screens
    BY <2>1, GotoMoves DEF Places
  <2> QED BY <1>3, <2>1, <2>2, FrameMade
<1>4. CASE ReplayCaptured(x)
  BY <1>4, GotoMoves DEF ReplayCaptured, Places
<1>5. CASE CursorAnswered(x)
  BY <1>5, GotoMoves DEF CursorAnswered, Places
<1>6. CASE SendFrame(x)
  <2>1. UNCHANGED <<pane, rendered, lastSeq, made>>
    BY <1>6 DEF SendFrame
  <2>2. UNCHANGED task \/ Goto(x, "commit") \/ End(x)
    BY <1>6, SendMoves
  <2> QED BY <2>1, <2>2, GotoMoves, EndMoves DEF Places
<1> QED BY <1>1, <1>2, <1>3, <1>4, <1>5, <1>6 DEF TaskStep

LEMMA BeginsType ==
  ASSUME LoopType, NEW h \in Handlers,
         HandlerBegin(h) \/ \E afterSeq \in -1 .. lastSeq : ReplayFromCache(h, afterSeq)
  PROVE /\ LoopType'
        /\ UNCHANGED <<pane, lastSeq, made>> /\ (UNCHANGED rendered \/ rendered' = <<>>)
        /\ task[h].at = "idle" /\ task'[h].at \in {"capture", "send"}
        /\ \A y \in Tasks \ {h} : task'[y] = task[y]
<1> USE DEF LoopType
<1>1. h \in Tasks /\ task[h] \in Task
  BY DEF Tasks
<1>2. CASE HandlerBegin(h)
  <2>1. /\ Goto(h, "capture") /\ task[h].at = "idle" /\ UNCHANGED <<pane, lastSeq, made>>
        /\ UNCHANGED rendered \/ rendered' = <<>>
    BY <1>2 DEF HandlerBegin
  <2> QED BY <1>1, <2>1, GotoMoves DEF Places
<1>3. CASE \E afterSeq \in -1 .. lastSeq : ReplayFromCache(h, afterSeq)
  <2>1. PICK place \in {"send", "capture"} :
          /\ task' = [task EXCEPT ![h].at = place, ![h].seq = lastSeq]
          /\ task[h].at = "idle" /\ UNCHANGED <<pane, lastSeq, made>>
          /\ UNCHANGED rendered \/ rendered' = <<>>
    BY <1>3 DEF ReplayFromCache
  <2> QED BY <1>1, <2>1 DEF Task, Places
<1> QED BY <1>2, <1>3

LEMMA LoopTypeStep == LoopType /\ [OutputNext]_outputVars => LoopType'
<1> SUFFICES ASSUME LoopType, [OutputNext]_outputVars PROVE LoopType'
  OBVIOUS
<1> USE OutputAssumption
<1>1. CASE PaneChanges
  BY <1>1 DEF PaneChanges, LoopType
<1>2. CASE Restart
  BY <1>2 DEF Restart, LoopType, Rest, Task, Places
<1>3. CASE SyncStep
  <2> USE DEF LoopType
  <2>1. Sync \in Tasks
    BY DEF Tasks
  <2>2. CASE SyncBegin
    BY <2>1, <2>2, GotoMoves DEF SyncBegin, Places
  <2>3. CASE SyncNormalize
    BY <2>1, <2>3, GotoMoves DEF SyncNormalize, Places
  <2>4. CASE SyncCommit
    BY <2>1, <2>4, EndMoves DEF SyncCommit, Task
  <2> QED BY <1>3, <2>1, <2>2, <2>3, <2>4, TaskStepType DEF SyncStep
<1>4. CASE \E h \in Handlers : \/ HandlerBegin(h)
                               \/ \E afterSeq \in -1 .. lastSeq : ReplayFromCache(h, afterSeq)
                               \/ TaskStep(h)
  BY <1>4, BeginsType, TaskStepType DEF Tasks
<1>5. CASE UNCHANGED outputVars
  BY <1>5 DEF outputVars, LoopType
<1> QED BY <1>1, <1>2, <1>3, <1>4, <1>5 DEF OutputNext

-----------------------------------------------------------------------------
NewestShows(s) == lastSeq > 0 /\ made[lastSeq].screen = s

\* As long as browsers only look: between its bump and its commit the loop's capture is
\* what the newest frame shows; at any other time that is the rendered buffer, unless
\* there is none.
Chained ==
  /\ IF task[Sync].at \in Ahead THEN NewestShows(task[Sync].shot)
     ELSE rendered # <<>> => NewestShows(rendered)
  /\ AlwaysChain

LoopInv == LoopType /\ (OnlyLooked => Chained)

LEMMA LoopInvInit == OutputInit => LoopInv
BY LoopTypeInit DEF OutputInit, LoopInv, Chained, AlwaysChain, Ahead, Tasks

\* A handler that has begun is never again as if it had not.
LEMMA StillLooked == LoopType /\ [OutputNext]_outputVars /\ OnlyLooked' => OnlyLooked
<1> SUFFICES ASSUME LoopType, [OutputNext]_outputVars, NEW h \in Handlers, task'[h].at = "idle"
             PROVE task[h].at = "idle"
  BY DEF OnlyLooked
<1> USE OutputAssumption DEF LoopType
<1>1. h \in Tasks /\ Sync \in Tasks /\ h # Sync
  BY DEF Tasks
<1>2. CASE PaneChanges \/ UNCHANGED outputVars
  BY <1>2 DEF PaneChanges, outputVars
<1>3. CASE Restart
  BY <1>1, <1>3 DEF Restart, Rest
<1>4. CASE SyncBegin \/ SyncNormalize \/ SyncCommit
  <2>1. End(Sync) \/ Goto(Sync, "capture") \/ Goto(Sync, "normalize")
    BY <1>4 DEF SyncBegin, SyncNormalize, SyncCommit
  <2> QED BY <1>1, <2>1, EndMoves, GotoMoves DEF Places
<1>5. ASSUME NEW x \in Tasks, TaskStep(x) PROVE task[h].at = "idle"
  <2>1. CASE Capture(x)
    BY <1>1, <2>1 DEF Capture
  <2>2. CASE SameBuffer(x)
    BY <1>1, <2>2, EndMoves DEF SameBuffer
  <2>3. CASE NewBuffer(x) \/ ReplayCaptured(x) \/ CursorAnswered(x)
    <3>1. Goto(x, "cursor") \/ Goto(x, "send")
      BY <2>3 DEF NewBuffer, ReplayCaptured, CursorAnswered
    <3> QED BY <1>1, <3>1, GotoMoves DEF Places
  <2>4. CASE SendFrame(x)
    BY <1>1, <2>4, SendMoves, EndMoves, GotoMoves DEF Places
  <2> QED BY <1>5, <2>1, <2>2, <2>3, <2>4 DEF TaskStep
<1>6. ASSUME NEW g \in Handlers, \/ HandlerBegin(g)
                                 \/ \E afterSeq \in -1 .. lastSeq : ReplayFromCache(g, afterSeq)
      PROVE task[h].at = "idle"
  BY <1>1, <1>6, BeginsType
<1> QED BY <1>1, <1>2, <1>3, <1>4, <1>5, <1>6 DEF OutputNext, SyncStep, Tasks

\* A frame of the loop for a screen the newest frame does not show continues the chain.
LEMMA NewFrame ==
  ASSUME LoopType, Chained, NewBuffer(Sync)
  PROVE Chained'
<1> USE DEF LoopType
<1>1. Sync \in Tasks /\ KindOf(Sync) = "sync" /\ task[Sync].at = "answered" /\ Goto(Sync, "cursor")
  BY DEF Tasks, KindOf, NewBuffer
<1>2. PICK frame \in Frame :
        /\ frame.screen = task[Sync].shot
        /\ frame.mode = "append" => rendered # <<>> /\ frame.base = rendered
        /\ lastSeq' = lastSeq + 1 /\ Len(made') = lastSeq'
        /\ made'[lastSeq'] = frame /\ \A n \in 1 .. lastSeq : made'[n] = made[n]
  BY <1>1, FrameMade
<1>3. task'[Sync].at = "cursor" /\ task'[Sync].shot = task[Sync].shot
  BY <1>1, GotoMoves DEF Places
<1>4. AlwaysChain'
  <2> SUFFICES ASSUME NEW n \in 1 .. lastSeq', made'[n].mode = "append"
               PROVE n > 1 /\ made'[n - 1].screen = made'[n].base
    BY <1>2 DEF AlwaysChain
  <2>1. CASE n = lastSeq'
    <3>1. rendered # <<>> /\ frame.base = rendered
      BY <1>2, <2>1
    <3>2. lastSeq > 0 /\ made[lastSeq].screen = rendered
      BY <1>1, <3>1 DEF Chained, Ahead, NewestShows
    <3> QED BY <1>2, <2>1, <3>1, <3>2
  <2>2. CASE n # lastSeq'
    BY <1>2, <2>2 DEF Chained, AlwaysChain
  <2> QED BY <2>1, <2>2
<1>5. NewestShows(task[Sync].shot)'
  BY <1>2, <1>3 DEF NewestShows
<1> QED BY <1>3, <1>4, <1>5 DEF Chained, Ahead

\* The loop's other steps leave the frames alone.
LEMMA LoopStep ==
  ASSUME LoopType, Chained, SyncStep
  PROVE Chained'
<1> USE DEF LoopType, Chained
<1>1. Sync \in Tasks
  BY DEF Tasks
<1>2. CASE SyncBegin \/ SyncNormalize
  <2>1. /\ (Goto(Sync, "capture") \/ Goto(Sync, "normalize"))
        /\ task[Sync].at \notin Ahead /\ UNCHANGED <<made, lastSeq>>
        /\ UNCHANGED rendered \/ rendered' = <<>>
    BY <1>2 DEF SyncBegin, SyncNormalize, Ahead
  <2> QED BY <1>1, <2>1, GotoMoves DEF Ahead, AlwaysChain, NewestShows, Places
<1>3. CASE SyncCommit
  BY <1>1, <1>3, EndMoves DEF SyncCommit, Ahead, AlwaysChain, NewestShows
<1>4. CASE Capture(Sync)
  BY <1>1, <1>4 DEF Capture, Ahead, AlwaysChain, NewestShows
<1>5. CASE SameBuffer(Sync)
  BY <1>1, <1>5, EndMoves DEF SameBuffer, Ahead, AlwaysChain, NewestShows
<1>6. CASE CursorAnswered(Sync)
  BY <1>1, <1>6, GotoMoves DEF CursorAnswered, Ahead, AlwaysChain, NewestShows, Places
<1>7. CASE SendFrame(Sync)
  <2>1. /\ task[Sync].at = "send" /\ UNCHANGED <<rendered, lastSeq, made>>
        /\ UNCHANGED task \/ Goto(Sync, "commit")
    BY <1>1, <1>7, SendMoves DEF SendFrame
  <2> QED BY <1>1, <2>1, GotoMoves DEF Ahead, AlwaysChain, NewestShows, Places
<1>8. CASE ReplayCaptured(Sync)
  BY <1>8 DEF ReplayCaptured, KindOf
<1> QED BY <1>2, <1>3, <1>4, <1>5, <1>6, <1>7, <1>8, NewFrame DEF SyncStep, TaskStep

\* A replay makes no frame of its own number and never notes what it captured.
LEMMA ReplayStep ==
  ASSUME LoopType, Chained, NEW h \in Handlers, Kind[h] = "replay", TaskStep(h)
  PROVE Chained'
<1> USE OutputAssumption DEF LoopType
<1>1. h \in Tasks /\ Sync \in Tasks /\ h # Sync /\ KindOf(h) = "replay"
  BY DEF Tasks, KindOf
<1>2. UNCHANGED <<rendered, lastSeq, made>>
  BY <1>1 DEF TaskStep, Capture, SameBuffer, NewBuffer, ReplayCaptured, CursorAnswered, SendFrame
<1>3. task'[Sync] = task[Sync]
  <2>1. CASE Capture(h)
    BY <1>1, <2>1 DEF Capture
  <2>2. CASE ReplayCaptured(h) \/ CursorAnswered(h)
    <3>1. Goto(h, "cursor") \/ Goto(h, "send")
      BY <2>2 DEF ReplayCaptured, CursorAnswered
    <3> QED BY <1>1, <3>1, GotoMoves DEF Places
  <2>3. CASE SendFrame(h)
    BY <1>1, <2>3, SendMoves, EndMoves
  <2> QED BY <1>1, <2>1, <2>2, <2>3 DEF TaskStep, SameBuffer, NewBuffer
<1> QED BY <1>2, <1>3 DEF Chained, AlwaysChain, NewestShows

LEMMA LoopInvStep == LoopInv /\ [OutputNext]_outputVars => LoopInv'
<1> SUFFICES ASSUME LoopInv, [OutputNext]_outputVars, OnlyLooked' PROVE Chained'
  BY LoopTypeStep DEF LoopInv
<1>1. LoopType /\ LoopType' /\ OnlyLooked /\ Chained
  BY StillLooked, LoopTypeStep DEF LoopInv
<1>2. CASE PaneChanges \/ UNCHANGED outputVars
  BY <1>1, <1>2 DEF PaneChanges, outputVars, Chained, AlwaysChain, NewestShows
<1>3. CASE Restart
  BY <1>1, <1>3 DEF Restart, Chained, AlwaysChain, Rest, Tasks, Ahead, LoopType
<1>4. CASE SyncStep
  BY <1>1, <1>4, LoopStep
<1>5. ASSUME NEW h \in Handlers, \/ HandlerBegin(h)
                                 \/ \E afterSeq \in -1 .. lastSeq : ReplayFromCache(h, afterSeq)
      PROVE Chained'
  <2>1. /\ UNCHANGED <<lastSeq, made>> /\ (UNCHANGED rendered \/ rendered' = <<>>)
        /\ task'[Sync] = task[Sync]
    BY <1>1, <1>5, BeginsType, OutputAssumption DEF Tasks
  <2> QED BY <1>1, <2>1 DEF Chained, AlwaysChain, NewestShows
<1>6. ASSUME NEW h \in Handlers, TaskStep(h) PROVE Chained'
  <2>1. Kind[h] = "replay"
    BY <1>1, <1>6 DEF OnlyLooked, TaskStep, Capture, SameBuffer, NewBuffer, ReplayCaptured,
                      CursorAnswered, SendFrame
  <2> QED BY <1>1, <1>6, <2>1, ReplayStep
<1> QED BY <1>2, <1>3, <1>4, <1>5, <1>6 DEF OutputNext

\* Until the first input or resize is handled, frames chain and the newest one is what
\* the agent takes for rendered whenever the loop rests (daemon.ts syncSession, handleReplay).
THEOREM LookingIsSafe == OutputSpec => [](FramesChain /\ (OnlyLooked => NewestIsRendered))
<1>1. LoopInv => FramesChain /\ (OnlyLooked => NewestIsRendered)
  BY DEF LoopInv, Chained, FramesChain, NewestIsRendered, NewestShows, Resting, Ahead, Tasks
<1> QED BY <1>1, LoopInvInit, LoopInvStep, PTL DEF OutputSpec

-----------------------------------------------------------------------------
\* Induction, on a set of numbers.
LEMMA AllNumbers ==
  ASSUME NEW T, 0 \in T, \A n \in Nat : n \in T => n + 1 \in T
  PROVE  Nat \subseteq T
<1> SUFFICES ASSUME Nat \ T # {} PROVE FALSE
  OBVIOUS
<1>1. PICK Less : IsWellFoundedOn(Less, Nat) /\ \A r, s \in Nat : r < s => <<r, s>> \in Less
  <2>1. \A r, s \in Nat : r < s => <<r, s>> \in OpToRel(<, Nat)
    BY DEF OpToRel
  <2> QED BY <2>1, NatLessThanWellFounded, Zenon
<1>2. PICK n \in Nat \ T : \A m \in Nat \ T : <<m, n>> \notin Less
  <2>1. IsWellFoundedOn(Less, Nat) /\ Nat \ T \subseteq Nat
    BY <1>1
  <2> QED BY <2>1, WFMin, Zenon
<1>3. n # 0 /\ n - 1 \in Nat /\ n - 1 \notin T
  BY <1>2
<1>4. <<n - 1, n>> \in Less
  BY <1>1, <1>2, <1>3
<1> QED BY <1>2, <1>3, <1>4

\* The frames selected from the cache are frames (daemon.ts outputBuffers, filter).
LEMMA SelectedAreFrames ==
  ASSUME cache \in Seq(Frame), NEW afterSeq \in Int PROVE CachedAfter(afterSeq) \in Seq(Frame)
<1> DEFINE Grown(before, n) == IF cache[n].seq > afterSeq THEN Append(before, cache[n]) ELSE before
           IsKept(kept, last) ==
             kept = [n \in 0 .. last |-> IF n = 0 THEN <<>> ELSE Grown(kept[n - 1], n)]
           some == CHOOSE kept : IsKept(kept, Len(cache))
<1>1. Len(cache) \in Nat
  OBVIOUS
<1> HIDE DEF Grown
<1>2. \E kept : IsKept(kept, Len(cache))
  <2> DEFINE T == {n \in Nat : \E kept : IsKept(kept, n)}
  <2>1. 0 \in T
    <3>1. IsKept([n \in 0 .. 0 |-> <<>>], 0)
      OBVIOUS
    <3> QED BY <3>1
  <2>2. ASSUME NEW last \in Nat, last \in T PROVE last + 1 \in T
    <3>1. PICK kept : IsKept(kept, last)
      BY <2>2
    <3> DEFINE more == [n \in 0 .. last + 1 |-> IF n <= last THEN kept[n] ELSE Grown(kept[last], n)]
    <3>2. \A n \in 0 .. last : more[n] = kept[n]
      OBVIOUS
    <3>3. \A n \in 0 .. last + 1 : more[n] = IF n = 0 THEN <<>> ELSE Grown(more[n - 1], n)
      BY <3>1, <3>2
    <3>4. IsKept(more, last + 1)
      BY <3>3
    <3> HIDE DEF more, IsKept
    <3>5. \E longer : IsKept(longer, last + 1)
      BY <3>4
    <3> QED BY <3>5
  <2> HIDE DEF T
  <2>3. Nat \subseteq T
    BY <2>1, <2>2, AllNumbers
  <2> HIDE DEF IsKept
  <2>4. Len(cache) \in T
    BY <1>1, <2>3
  <2> QED BY <2>4 DEF T
<1>3. IsKept(some, Len(cache))
  BY <1>2
<1>4. CachedAfter(afterSeq) = some[Len(cache)]
  BY DEF CachedAfter, Grown
<1>5. \A n \in 0 .. Len(cache) : some[n] = IF n = 0 THEN <<>> ELSE Grown(some[n - 1], n)
  BY <1>3
<1> HIDE DEF some, IsKept
<1>6. some[Len(cache)] \in Seq(Frame)
  <2> DEFINE T == {n \in Nat : n <= Len(cache) => some[n] \in Seq(Frame)}
  <2>1. 0 \in T
    <3>1. some[0] = <<>> /\ <<>> \in Seq(Frame)
      BY <1>1, <1>5
    <3> QED BY <3>1
  <2>2. ASSUME NEW n \in Nat, n \in T PROVE n + 1 \in T
    <3> SUFFICES ASSUME n + 1 <= Len(cache) PROVE some[n + 1] \in Seq(Frame)
      OBVIOUS
    <3>1. some[n] \in Seq(Frame) /\ cache[n + 1] \in Frame
      BY <1>1, <2>2, ElementOfSeq
    <3>2. some[n + 1] = Grown(some[n], n + 1)
      BY <1>1, <1>5
    <3>3. Append(some[n], cache[n + 1]) \in Seq(Frame)
      BY <3>1, AppendProperties
    <3> QED BY <3>1, <3>2, <3>3 DEF Grown
  <2> HIDE DEF T
  <2>3. Nat \subseteq T
    BY <2>1, <2>2, AllNumbers
  <2> QED BY <1>1, <2>3 DEF T
<1> QED BY <1>4, <1>6

\* What the tasks hold: a capture fit to be framed, and frames exactly where they send them.
HeldFits(outs, tasks) ==
  /\ outs \in [Tasks -> Seq(Frame)]
  /\ \A x \in Tasks : tasks[x].at \in {"cursor", "send"} <=> outs[x] # <<>>

OutputInv == OutputTypeOK /\ LoopType

\* The cache keeps its newest frames, no more than the limit.
LEMMA PushKeepsLimit ==
  ASSUME cache \in Seq(Frame), Len(cache) <= FrameLimit, NEW frame \in Frame, PushOutputFrame(frame)
  PROVE  cache' \in Seq(Frame) /\ Len(cache') <= FrameLimit
<1> DEFINE grown == Append(cache, frame)
           from == IF Len(grown) > FrameLimit THEN Len(grown) - FrameLimit + 1 ELSE 1
<1>1. grown \in Seq(Frame) /\ Len(grown) = Len(cache) + 1
  BY AppendProperties
<1>2. cache' = SubSeq(grown, from, Len(grown))
  BY DEF PushOutputFrame
<1> HIDE DEF grown
<1>3. from \in 1 .. Len(grown) /\ Len(grown) \in Nat /\ Len(grown) - from + 1 <= FrameLimit
  BY <1>1, OutputAssumption
<1> HIDE DEF from
<1>4. SubSeq(grown, from, Len(grown)) \in Seq(Frame) /\ Len(SubSeq(grown, from, Len(grown))) = Len(grown) - from + 1
  <2>1. \A i \in from .. Len(grown) : grown[i] \in Frame
    BY <1>1, <1>3, ElementOfSeq
  <2> QED BY <1>3, <2>1, SubSeqProperties
<1> QED BY <1>2, <1>3, <1>4

\* A frame of a capture that differs from what is rendered.
LEMMA NewFrameIs ==
  ASSUME LoopType, NEW x \in Tasks, NewBuffer(x)
  PROVE \E frame \in Frame : outbox' = [outbox EXCEPT ![x] = <<frame>>] /\ frame.screen = task[x].shot
<1> DEFINE frame == IF KindOf(x) = "resize" THEN ReplaceFrame(lastSeq + 1, task[x].shot)
                    ELSE DeriveOutputFrame(lastSeq + 1, rendered, task[x].shot)
<1>1. task[x].shot \in Screens /\ outbox' = [outbox EXCEPT ![x] = <<frame>>]
  BY DEF NewBuffer, LoopType
<1>2. frame \in Frame /\ frame.screen = task[x].shot
  BY <1>1 DEF DeriveOutputFrame, ReplaceFrame, Frame, LoopType
<1> HIDE DEF frame
<1> QED BY <1>1, <1>2

\* A task moves and its frames with it.
LEMMA HeldMoves ==
  ASSUME HeldFits(outbox, task), task \in [Tasks -> Task], NEW x \in Tasks, NEW out \in Seq(Frame),
         outbox' = [outbox EXCEPT ![x] = out], \A y \in Tasks \ {x} : task'[y] = task[y],
         task'[x].at \in {"cursor", "send"} <=> out # <<>>
  PROVE  HeldFits(outbox', task')
BY DEF HeldFits

\* One step of a task.
LEMMA TaskStepHolds ==
  ASSUME OutputInv, NEW x \in Tasks, TaskStep(x)
  PROVE  /\ HeldFits(outbox', task')
         /\ cache' \in Seq(Frame) /\ Len(cache') <= FrameLimit /\ shown' \subseteq Screens
         /\ UNCHANGED <<known, changes, restarts>>
<1>0. /\ HeldFits(outbox, task) /\ task \in [Tasks -> Task] /\ <<>> \in Seq(Frame)
      /\ shown \subseteq Screens /\ cache \in Seq(Frame) /\ Len(cache) <= FrameLimit
      /\ outbox[x] \in Seq(Frame)
  BY DEF OutputInv, OutputTypeOK, HeldFits
<1>1. CASE Capture(x)
  <2>1. outbox' = outbox /\ UNCHANGED <<cache, known, changes, restarts>> /\ shown' = shown
    BY <1>1 DEF Capture
  <2>2. task[x].at = "capture" /\ task'[x].at = "answered" /\ \A y \in Tasks \ {x} : task'[y] = task[y]
    BY <1>0, <1>1 DEF Capture, Task
  <2> QED BY <1>0, <2>1, <2>2 DEF HeldFits
<1>2. CASE SameBuffer(x)
  <2>1. outbox' = outbox /\ UNCHANGED <<cache, known, changes, restarts>> /\ shown' = shown
    BY <1>2 DEF SameBuffer
  <2>2. task[x].at = "answered" /\ End(x)
    BY <1>2 DEF SameBuffer
  <2> QED BY <1>0, <2>1, <2>2, EndMoves DEF HeldFits
<1>3. CASE NewBuffer(x)
  <2>1. UNCHANGED <<cache, known, changes, restarts>> /\ shown' = shown /\ Goto(x, "cursor")
    BY <1>3 DEF NewBuffer
  <2>2. PICK frame \in Frame : outbox' = [outbox EXCEPT ![x] = <<frame>>]
    BY <1>3, NewFrameIs DEF OutputInv
  <2>3. <<frame>> \in Seq(Frame) /\ <<frame>> # <<>>
    OBVIOUS
  <2>4. HeldFits(outbox', task')
    BY <1>0, <2>1, <2>2, <2>3, GotoMoves, HeldMoves DEF Places
  <2> QED BY <1>0, <2>1, <2>4
<1>4. CASE ReplayCaptured(x)
  <2> DEFINE frame == ReplaceFrame(task[x].seq, task[x].shot)
  <2>1. /\ UNCHANGED <<cache, known, changes, restarts>> /\ shown' = shown /\ Goto(x, "cursor")
        /\ outbox' = [outbox EXCEPT ![x] = <<frame>>] /\ task[x].at = "answered"
    BY <1>4 DEF ReplayCaptured
  <2>2. frame \in Frame
    BY <1>0, <2>1 DEF OutputInv, LoopType, ReplaceFrame, Frame, Task
  <2> HIDE DEF frame
  <2>3. <<frame>> \in Seq(Frame) /\ <<frame>> # <<>>
    BY <2>2
  <2>4. HeldFits(outbox', task')
    BY <1>0, <2>1, <2>3, GotoMoves, HeldMoves DEF Places
  <2> QED BY <1>0, <2>1, <2>4
<1>5. CASE CursorAnswered(x)
  <2>1. /\ UNCHANGED <<outbox, known, changes, restarts>> /\ shown' = shown /\ Goto(x, "send")
        /\ task[x].at = "cursor" /\ PushOutputFrame(Head(outbox[x]))
    BY <1>5 DEF CursorAnswered
  <2>2. outbox[x] # <<>>
    BY <1>0, <2>1 DEF HeldFits
  <2>3. Head(outbox[x]) \in Frame
    BY <1>0, <2>2
  <2>4. HeldFits(outbox', task')
    BY <1>0, <2>1, <2>2, GotoMoves DEF HeldFits, Places
  <2> QED BY <1>0, <2>1, <2>3, <2>4, PushKeepsLimit
<1>6. CASE SendFrame(x)
  <2>1. /\ UNCHANGED <<cache, known, changes, restarts>> /\ shown' \subseteq shown \cup {Head(outbox[x]).screen}
        /\ task[x].at = "send" /\ outbox' = [outbox EXCEPT ![x] = Tail(outbox[x])]
    BY <1>6 DEF SendFrame
  <2>2. outbox[x] # <<>>
    BY <1>0, <2>1 DEF HeldFits
  <2>3. PICK left \in Seq(Frame) : left = Tail(outbox[x]) /\ Len(left) = Len(outbox[x]) - 1
    BY <1>0, <2>2, HeadTailProperties
  <2>4. \/ Len(outbox[x]) > 1 /\ UNCHANGED task
        \/ Len(outbox[x]) = 1 /\ (Goto(x, "commit") \/ End(x))
    BY <1>6 DEF SendFrame
  <2>5. left # <<>> <=> Len(outbox[x]) > 1
    <3>1. left # <<>> <=> Len(left) # 0
      BY EmptySeq
    <3> QED BY <1>0, <2>2, <2>3, <3>1
  <2>6. task'[x].at \in {"cursor", "send"} <=> left # <<>>
    <3>0. PICK n \in Nat : n = Len(outbox[x])
      BY <1>0
    <3>1. CASE n > 1
      <4>1. ~(n = 1)
        BY <3>1
      <4>2. task' = task
        BY <2>4, <3>0, <4>1
      <4> QED BY <2>1, <2>5, <3>0, <3>1, <4>2
    <3>2. CASE n = 1
      BY <1>0, <2>4, <2>5, <3>0, <3>2, GotoMoves, EndMoves DEF Places
    <3> QED BY <2>4, <3>0, <3>1, <3>2
  <2>7. \A y \in Tasks \ {x} : task'[y] = task[y]
    BY <1>0, <2>4, GotoMoves, EndMoves DEF Places
  <2>8. outbox' = [outbox EXCEPT ![x] = left]
    BY <2>1, <2>3
  <2>9. HeldFits(outbox', task')
    BY <1>0, <2>3, <2>6, <2>7, <2>8, HeldMoves
  <2>10. Head(outbox[x]).screen \in Screens
    <3>1. Head(outbox[x]) \in Frame
      BY <1>0, <2>2
    <3> QED BY <3>1 DEF Frame
  <2> QED BY <1>0, <2>1, <2>9, <2>10
<1> QED BY <1>1, <1>2, <1>3, <1>4, <1>5, <1>6 DEF TaskStep

\* A request is begun: a replay may be served from the cache.
LEMMA BeginHolds ==
  ASSUME OutputInv, NEW h \in Handlers,
         HandlerBegin(h) \/ \E afterSeq \in -1 .. lastSeq : ReplayFromCache(h, afterSeq)
  PROVE  /\ HeldFits(outbox', task')
         /\ known' = TRUE /\ UNCHANGED <<cache, changes, restarts>> /\ shown' = shown
<1>0. HeldFits(outbox, task) /\ task \in [Tasks -> Task] /\ h \in Tasks /\ cache \in Seq(Frame) /\ lastSeq \in Nat
  BY DEF OutputInv, OutputTypeOK, HeldFits, Tasks
<1>1. CASE HandlerBegin(h)
  <2>1. /\ UNCHANGED <<outbox, cache, changes, restarts>> /\ known' = TRUE /\ shown' = shown
        /\ Goto(h, "capture") /\ task[h].at = "idle"
    BY <1>1 DEF HandlerBegin
  <2> QED BY <1>0, <2>1, GotoMoves DEF HeldFits, Places
<1>2. ASSUME NEW afterSeq \in -1 .. lastSeq, ReplayFromCache(h, afterSeq)
      PROVE  /\ HeldFits(outbox', task')
             /\ known' = TRUE /\ UNCHANGED <<cache, changes, restarts>> /\ shown' = shown
  <2> DEFINE frames == CachedAfter(afterSeq)
             served == /\ frames # <<>>
                       /\ Head(frames).seq <= afterSeq + 1
                       /\ afterSeq < 0 => Head(frames).mode = "replace"
  <2>1. /\ UNCHANGED <<cache, changes, restarts>> /\ known' = TRUE /\ shown' = shown
        /\ task' = [task EXCEPT ![h].at = IF served THEN "send" ELSE "capture", ![h].seq = lastSeq]
        /\ outbox' = [outbox EXCEPT ![h] = IF served THEN frames ELSE <<>>]
    BY <1>2 DEF ReplayFromCache
  <2>2. frames \in Seq(Frame) /\ (served => frames # <<>>)
    BY <1>0, SelectedAreFrames
  <2> HIDE DEF served, frames
  <2>3. task'[h].at = (IF served THEN "send" ELSE "capture") /\ \A y \in Tasks \ {h} : task'[y] = task[y]
    BY <1>0, <2>1 DEF Task
  <2>4. PICK out \in Seq(Frame) : out = IF served THEN frames ELSE <<>>
    <3>1. (IF served THEN frames ELSE <<>>) \in Seq(Frame)
      BY <2>2, EmptySeq
    <3> QED BY <3>1
  <2>5. task'[h].at \in {"cursor", "send"} <=> out # <<>>
    BY <2>2, <2>3, <2>4
  <2>6. outbox' = [outbox EXCEPT ![h] = out]
    BY <2>1, <2>4
  <2>7. HeldFits(outbox', task')
    BY <1>0, <2>3, <2>5, <2>6, HeldMoves
  <2> QED BY <2>1, <2>7
<1> QED BY <1>1, <1>2

\* Every step keeps what the tasks, the cache and the counters hold.
LEMMA OutputInvStep == OutputInv /\ [OutputNext]_outputVars => OutputInv'
<1> SUFFICES ASSUME OutputInv, [OutputNext]_outputVars PROVE OutputInv'
  OBVIOUS
<1>1. LoopType'
  BY LoopTypeStep DEF OutputInv
<1> SUFFICES /\ known' \in BOOLEAN /\ cache' \in Seq(Frame) /\ Len(cache') <= FrameLimit
             /\ HeldFits(outbox', task') /\ shown' \subseteq Screens
             /\ changes' \in 0 .. MaxChanges /\ restarts' \in 0 .. MaxRestarts
  BY <1>1 DEF OutputInv, OutputTypeOK, LoopType, HeldFits
<1>0. /\ known \in BOOLEAN /\ cache \in Seq(Frame) /\ Len(cache) <= FrameLimit
      /\ HeldFits(outbox, task) /\ shown \subseteq Screens /\ task \in [Tasks -> Task]
      /\ changes \in 0 .. MaxChanges /\ restarts \in 0 .. MaxRestarts
      /\ Sync \in Tasks /\ <<>> \in Seq(Frame)
  BY DEF OutputInv, OutputTypeOK, HeldFits, Tasks
<1>2. CASE PaneChanges
  BY <1>0, <1>2, OutputAssumption DEF PaneChanges
<1>3. CASE Restart
  <2>1. \A x \in Tasks : task'[x].at \notin {"cursor", "send"}
    BY <1>0, <1>3 DEF Restart, Rest
  <2>2. HeldFits(outbox', task')
    BY <1>0, <1>3, <2>1 DEF Restart, HeldFits
  <2>3. /\ known' = FALSE /\ cache' = <<>> /\ shown' = {} /\ UNCHANGED changes
        /\ restarts < MaxRestarts /\ restarts' = restarts + 1
    BY <1>3 DEF Restart
  <2>4. Len(cache') <= FrameLimit /\ restarts' \in 0 .. MaxRestarts
    BY <1>0, <2>3, OutputAssumption
  <2> QED BY <1>0, <2>2, <2>3, <2>4
<1>4. CASE SyncBegin \/ SyncNormalize
  <2>1. /\ (Goto(Sync, "capture") \/ Goto(Sync, "normalize")) /\ UNCHANGED <<outbox, cache, changes, restarts>>
        /\ shown' = shown /\ (UNCHANGED known \/ known' = TRUE) /\ task[Sync].at \in {"idle", "normalize"}
    BY <1>4 DEF SyncBegin, SyncNormalize
  <2> QED BY <1>0, <2>1, GotoMoves DEF HeldFits, Places
<1>5. CASE SyncCommit
  <2>1. /\ End(Sync) /\ UNCHANGED <<outbox, cache, changes, restarts, known>>
        /\ shown' = shown /\ task[Sync].at = "commit"
    BY <1>5 DEF SyncCommit
  <2> QED BY <1>0, <2>1, EndMoves DEF HeldFits
<1>6. CASE TaskStep(Sync)
  BY <1>0, <1>6, TaskStepHolds
<1>7. ASSUME NEW h \in Handlers, \/ HandlerBegin(h)
                                 \/ \E afterSeq \in -1 .. lastSeq : ReplayFromCache(h, afterSeq)
      PROVE HeldFits(outbox', task') /\ known' = TRUE /\ UNCHANGED <<cache, changes, restarts>> /\ shown' = shown
  BY <1>7, BeginHolds
<1>8. ASSUME NEW h \in Handlers, TaskStep(h)
      PROVE  /\ HeldFits(outbox', task')
             /\ cache' \in Seq(Frame) /\ Len(cache') <= FrameLimit /\ shown' \subseteq Screens
             /\ UNCHANGED <<known, changes, restarts>>
  BY <1>8, TaskStepHolds DEF Tasks
<1>9. CASE UNCHANGED outputVars
  BY <1>0, <1>9 DEF outputVars
<1> QED BY <1>0, <1>2, <1>3, <1>4, <1>5, <1>6, <1>7, <1>8, <1>9 DEF OutputNext, SyncStep

LEMMA OutputInvInit == OutputInit => OutputInv
<1> SUFFICES ASSUME OutputInit PROVE OutputTypeOK
  BY LoopTypeInit DEF OutputInv
<1>1. LoopType /\ <<>> \in Seq(Frame)
  BY LoopTypeInit
<1>2. HeldFits(outbox, task)
  BY <1>1 DEF OutputInit, HeldFits
<1>3. known \in BOOLEAN /\ cache = <<>> /\ shown = {} /\ changes = 0 /\ restarts = 0
  BY DEF OutputInit
<1>4. Len(cache) <= FrameLimit /\ changes \in 0 .. MaxChanges /\ restarts \in 0 .. MaxRestarts
  BY <1>3, OutputAssumption
<1> QED BY <1>1, <1>2, <1>3, <1>4 DEF OutputTypeOK, LoopType, HeldFits

\* A task has frames exactly where it sends them, every number was given to one frame,
\* and the cache keeps to OUTPUT_FRAME_LIMIT, for any number of requests, screens and
\* restarts (daemon.ts pushOutputFrame, handleReplay).
THEOREM OutputFits == OutputSpec => []OutputTypeOK
<1>1. OutputInv => OutputTypeOK
  BY DEF OutputInv
<1> QED BY <1>1, OutputInvInit, OutputInvStep, PTL DEF OutputSpec
-----------------------------------------------------------------------------
\* A handler still holds the frame of a screen, which it will broadcast.
Pending(s) ==
  \E h \in Handlers : Kind[h] # "replay" /\ outbox[h] # <<>> /\ Head(outbox[h]).screen = s

\* The loop has in hand, or has broadcast, what it is going to note.
SentInv ==
  /\ RenderedGoesOut
  /\ task[Sync].at \in {"cursor", "send"} =>
       Len(outbox[Sync]) = 1 /\ Head(outbox[Sync]).screen = task[Sync].shot
  /\ task[Sync].at = "commit" => task[Sync].shot \in shown

\* What is rendered is broadcast or pending.
LEMMA GoesOut == RenderedGoesOut <=> (rendered # <<>> => rendered \in shown \/ Pending(rendered))
BY DEF RenderedGoesOut, Pending

\* A frame of a new screen: a handler's is pending, the loop's is in its hands.
LEMMA NewBufferSends ==
  ASSUME OutputInv, SentInv, NEW x \in Tasks, NewBuffer(x)
  PROVE  SentInv'
<1>1. /\ task \in [Tasks -> Task] /\ outbox \in [Tasks -> Seq(Frame)] /\ task[x].shot \in Screens
      /\ Sync \in Tasks /\ Handlers \subseteq Tasks /\ Sync \notin Handlers
  BY OutputAssumption DEF OutputInv, OutputTypeOK, LoopType, NewBuffer, Tasks
<1>2. PICK frame \in Frame : outbox' = [outbox EXCEPT ![x] = <<frame>>] /\ frame.screen = task[x].shot
  BY NewFrameIs DEF OutputInv
<1>3. /\ Goto(x, "cursor") /\ rendered' = (IF x = Sync THEN rendered ELSE task[x].shot)
      /\ UNCHANGED shown /\ task[x].at = "answered" /\ KindOf(x) # "replay"
  BY DEF NewBuffer
<1>4. /\ outbox'[x] = <<frame>> /\ outbox'[x] # <<>> /\ Head(outbox'[x]) = frame /\ Len(outbox'[x]) = 1
      /\ \A y \in Tasks \ {x} : outbox'[y] = outbox[y]
  BY <1>1, <1>2
<1>5. CASE x = Sync
  <2>1. task'[x].at = "cursor" /\ task'[x].shot = task[x].shot
    BY <1>1, <1>3, GotoMoves DEF Places
  <2>2. rendered' # <<>> => rendered' \in shown' \/ Pending(rendered)'
    BY <1>1, <1>3, <1>4, <1>5, GoesOut DEF SentInv, Pending
  <2> QED BY <1>2, <1>4, <1>5, <2>1, <2>2 DEF SentInv, RenderedGoesOut, Pending
<1>6. CASE x # Sync
  <2>1. x \in Handlers /\ Kind[x] # "replay" /\ task'[Sync] = task[Sync]
    BY <1>1, <1>3, <1>6, GotoMoves DEF KindOf, Tasks, Places
  <2>2. RenderedGoesOut'
    BY <1>2, <1>3, <1>4, <1>6, <2>1 DEF RenderedGoesOut
  <2> QED BY <1>1, <1>3, <1>4, <1>6, <2>1, <2>2 DEF SentInv
<1> QED BY <1>5, <1>6

\* What is sent to all is shown; what was rendered and pending with the sender is, too.
LEMMA SendSends ==
  ASSUME OutputInv, SentInv, NEW x \in Tasks, SendFrame(x)
  PROVE  SentInv'
<1>1. /\ task \in [Tasks -> Task] /\ outbox \in [Tasks -> Seq(Frame)]
      /\ Sync \in Tasks /\ Handlers \subseteq Tasks /\ Sync \notin Handlers
  BY OutputAssumption DEF OutputInv, OutputTypeOK, LoopType, Tasks
<1>2. /\ task[x].at = "send" /\ UNCHANGED rendered /\ outbox' = [outbox EXCEPT ![x] = Tail(outbox[x])]
      /\ shown' = (IF KindOf(x) = "replay" THEN shown ELSE shown \cup {Head(outbox[x]).screen})
      /\ \/ Len(outbox[x]) > 1 /\ UNCHANGED task
         \/ Len(outbox[x]) = 1 /\ x = Sync /\ Goto(x, "commit")
         \/ Len(outbox[x]) = 1 /\ x # Sync /\ End(x)
  BY DEF SendFrame
<1>3. shown \subseteq shown' /\ \A y \in Tasks \ {x} : outbox'[y] = outbox[y]
  BY <1>1, <1>2
<1>4. RenderedGoesOut'
  <2>1. \A h \in Handlers : Kind[h] # "replay" /\ h = x => Head(outbox[h]).screen \in shown'
    BY <1>1, <1>2 DEF KindOf
  <2> QED BY <1>1, <1>2, <1>3, <2>1 DEF SentInv, RenderedGoesOut
<1>5. CASE x = Sync
  <2>0. Len(outbox[x]) = 1 /\ Head(outbox[x]).screen = task[x].shot
    BY <1>2, <1>5 DEF SentInv
  <2>1. Goto(x, "commit")
    <3>1. ~(Len(outbox[x]) > 1)
      BY <2>0, SMT
    <3> QED BY <1>2, <1>5, <3>1
  <2>2. task'[x].at = "commit" /\ task'[x].shot = task[x].shot
    BY <1>1, <2>1, GotoMoves DEF Places
  <2>3. task[x].shot \in shown'
    BY <1>2, <1>5, <2>0 DEF KindOf
  <2> QED BY <1>4, <1>5, <2>2, <2>3 DEF SentInv
<1>6. CASE x # Sync
  <2>1. task'[Sync] = task[Sync]
    BY <1>1, <1>2, <1>6, EndMoves
  <2> QED BY <1>1, <1>3, <1>4, <1>6, <2>1 DEF SentInv
<1> QED BY <1>5, <1>6

\* The steps that neither number nor send a frame.
LEMMA OtherSends ==
  ASSUME OutputInv, SentInv, NEW x \in Tasks,
         Capture(x) \/ SameBuffer(x) \/ ReplayCaptured(x) \/ CursorAnswered(x)
  PROVE  SentInv'
<1>1. /\ task \in [Tasks -> Task] /\ outbox \in [Tasks -> Seq(Frame)]
      /\ Sync \in Tasks /\ Handlers \subseteq Tasks /\ Sync \notin Handlers
  BY OutputAssumption DEF OutputInv, OutputTypeOK, LoopType, Tasks
<1>2. UNCHANGED <<rendered, shown>>
  BY DEF Capture, SameBuffer, ReplayCaptured, CursorAnswered
<1>3. CASE Capture(x) \/ SameBuffer(x) \/ CursorAnswered(x)
  <2>1. UNCHANGED outbox
    BY <1>3 DEF Capture, SameBuffer, CursorAnswered
  <2>2. /\ task'[Sync].at \in {"cursor", "send"} =>
             task[Sync].at \in {"cursor", "send"} /\ task'[Sync].shot = task[Sync].shot
        /\ task'[Sync].at # "commit" \/ task'[Sync] = task[Sync]
    <3>1. CASE Capture(x)
      BY <1>1, <3>1 DEF Capture
    <3>2. CASE SameBuffer(x)
      BY <1>1, <3>2, EndMoves DEF SameBuffer
    <3>3. CASE CursorAnswered(x)
      BY <1>1, <3>3, GotoMoves DEF CursorAnswered, Places
    <3> QED BY <1>3, <3>1, <3>2, <3>3
  <2> QED BY <1>2, <2>1, <2>2 DEF SentInv, RenderedGoesOut
<1>4. CASE ReplayCaptured(x)
  <2>1. PICK out : outbox' = [outbox EXCEPT ![x] = out]
    BY <1>4 DEF ReplayCaptured
  <2>2. KindOf(x) = "replay" /\ Goto(x, "cursor")
    BY <1>4 DEF ReplayCaptured
  <2>3. x # Sync /\ Kind[x] = "replay"
    BY <1>1, <2>2 DEF KindOf
  <2>4. task'[Sync] = task[Sync] /\ outbox'[Sync] = outbox[Sync]
    BY <1>1, <2>1, <2>2, <2>3, GotoMoves DEF Places
  <2>5. \A h \in Handlers : Kind[h] # "replay" => outbox'[h] = outbox[h]
    BY <1>1, <2>1, <2>3
  <2> QED BY <1>2, <2>4, <2>5 DEF SentInv, RenderedGoesOut
<1> QED BY <1>3, <1>4

LEMMA SentInvStep == OutputInv /\ SentInv /\ [OutputNext]_outputVars => SentInv'
<1> SUFFICES ASSUME OutputInv, SentInv, [OutputNext]_outputVars PROVE SentInv'
  OBVIOUS
<1>1. /\ task \in [Tasks -> Task] /\ outbox \in [Tasks -> Seq(Frame)]
      /\ Sync \in Tasks /\ Handlers \subseteq Tasks /\ Sync \notin Handlers
  BY OutputAssumption DEF OutputInv, OutputTypeOK, LoopType, Tasks
<1>2. CASE PaneChanges \/ UNCHANGED outputVars
  BY <1>2 DEF PaneChanges, outputVars, SentInv, RenderedGoesOut
<1>3. CASE Restart
  <2>1. task'[Sync].at = "idle" /\ rendered' = <<>>
    BY <1>1, <1>3 DEF Restart, Rest
  <2> QED BY <2>1 DEF SentInv, RenderedGoesOut
<1>4. CASE SyncBegin \/ SyncNormalize
  <2>1. /\ Goto(Sync, "capture") \/ Goto(Sync, "normalize")
        /\ UNCHANGED <<outbox, shown>> /\ (UNCHANGED rendered \/ rendered' = <<>>)
    BY <1>4 DEF SyncBegin, SyncNormalize
  <2> QED BY <1>1, <2>1, GotoMoves DEF SentInv, RenderedGoesOut, Places
<1>5. CASE SyncCommit
  <2>1. End(Sync) /\ task[Sync].at = "commit" /\ rendered' = task[Sync].shot /\ UNCHANGED shown
    BY <1>5 DEF SyncCommit
  <2> QED BY <1>1, <2>1, EndMoves DEF SentInv, RenderedGoesOut
<1>6. ASSUME NEW h \in Handlers, \/ HandlerBegin(h)
                                 \/ \E afterSeq \in -1 .. lastSeq : ReplayFromCache(h, afterSeq)
      PROVE SentInv'
  <2>1. task'[Sync] = task[Sync] /\ (UNCHANGED rendered \/ rendered' = <<>>)
    BY <1>1, <1>6, BeginsType DEF OutputInv
  <2>2. UNCHANGED shown
    BY <1>6 DEF HandlerBegin, ReplayFromCache
  <2>3. outbox'[Sync] = outbox[Sync] /\ \A g \in Handlers : Kind[g] # "replay" => outbox'[g] = outbox[g]
    <3>1. CASE HandlerBegin(h)
      BY <3>1 DEF HandlerBegin
    <3>2. CASE \E afterSeq \in -1 .. lastSeq : ReplayFromCache(h, afterSeq)
      <4>1. PICK out : Kind[h] = "replay" /\ outbox' = [outbox EXCEPT ![h] = out]
        BY <3>2 DEF ReplayFromCache
      <4> QED BY <1>1, <4>1
    <3> QED BY <1>6, <3>1, <3>2
  <2> QED BY <2>1, <2>2, <2>3 DEF SentInv, RenderedGoesOut
<1>7. ASSUME NEW x \in Tasks, TaskStep(x) PROVE SentInv'
  BY <1>7, NewBufferSends, SendSends, OtherSends DEF TaskStep
<1> QED BY <1>1, <1>2, <1>3, <1>4, <1>5, <1>6, <1>7 DEF OutputNext, SyncStep

\* Whatever inputs, resizes, replays and restarts there are, the agent takes for rendered
\* (daemon.ts lastRenderedBuffer) only what it has broadcast since it started, or what the
\* input or resize that noted it still has in hand and goes on to broadcast.
THEOREM RenderedSent == OutputSpec => []RenderedGoesOut
<1>1. OutputInit => SentInv
  BY DEF OutputInit, SentInv, RenderedGoesOut, Tasks
<1>2. SentInv => RenderedGoesOut
  BY DEF SentInv
<1> QED BY <1>1, <1>2, OutputInvInit, OutputInvStep, SentInvStep, PTL DEF OutputSpec
=============================================================================
