----------------------- MODULE SessionLifecycle_proofs -----------------------
(***************************************************************************)
(* An exited session is gone and stays exited: for any number of requests  *)
(* and commands that meet it, any thresholds and any restarts of the agent.*)
(***************************************************************************)
EXTENDS SessionLifecycle, SequenceTheorems, TLAPS

Creates(x) == x \in Handlers /\ Kind[x] \in {"create", "run"}

\* What the state has to be like for a task to be where it is.
Sound(x) ==
  LET at == task[x].at IN
  /\ at \in {"send", "bury"} <=> task[x].out # <<>>
  /\ at \in {"loaded", "has", "normalize", "count"} => x = Sync /\ task[x].snap # NoRecord
  /\ at = "bury" => x = Sync
  /\ at \in {"count", "keys", "resize", "capture", "answered", "framing", "missing"} => rt # NoRt /\ OfAgent(x)
  /\ at = "keys" => x # Sync /\ Kind[x] = "input"
  /\ at = "resize" => x # Sync /\ Kind[x] = "resize"
  /\ x # Sync /\ Kind[x] = "resize" /\ at \in {"resize", "capture", "answered"} => task[x].snap # NoRecord
  /\ x = Sync /\ at \in {"killhas", "kill", "killed", "bury"} => rt # NoRt
  /\ x = Sync /\ at \in {"has", "normalize"} /\ task[x].had => rt # NoRt
  /\ at = "options" => Creates(x)
  /\ at \notin {"idle", "options", "done"} => rec # NoRecord
  /\ Creates(x) /\ at \in {"idle", "options"} => rec = NoRecord
  /\ Creates(x) /\ at = "idle" => ~alive
  /\ at = "missing" => ~alive
  /\ at = "killed" /\ ~HasFails => ~alive

LifeTypes ==
  /\ alive \in BOOLEAN /\ up \in BOOLEAN
  /\ term \in [attached : BOOLEAN, pane : Nat, usedAt : Nat] /\ (term.attached => alive)
  /\ rec \in Record \cup {NoRecord}
  /\ rt \in Rt \cup {NoRt}
  /\ task \in [Tasks -> Task]
  /\ view \in Status \cup {"unknown"}
  /\ clock \in [now : Nat, passed : BOOLEAN]

LifeInv == LifeTypes /\ (ExitedIsGone \/ HasFails) /\ \A x \in Tasks : Sound(x)

LEMMA LifeInvInit == LifeInit => LifeInv
<1> SUFFICES ASSUME LifeInit PROVE LifeInv
  OBVIOUS
<1>1. Fresh("idle") \in Task
  BY DEF Fresh, Task, Places, Status
<1>2. LifeTypes /\ ExitedIsGone
  BY <1>1 DEF LifeInit, LifeTypes, ExitedIsGone
<1>3. \A x \in Tasks : Sound(x)
  BY DEF LifeInit, Sound, Fresh
<1> QED BY <1>2, <1>3 DEF LifeInv

-----------------------------------------------------------------------------
\* What the moves of a task leave alone and what they make of it.
Moved(x) == task' \in [Tasks -> Task] /\ \A y \in Tasks \ {x} : task'[y] = task[y]

LEMMA GotoMoves ==
  ASSUME task \in [Tasks -> Task], NEW x \in Tasks, NEW place \in Places, Goto(x, place)
  PROVE Moved(x) /\ task'[x] = [task[x] EXCEPT !.at = place]
BY DEF Goto, Task, Moved

LEMMA EndMoves ==
  ASSUME LifeTypes, NEW x \in Tasks, End(x)
  PROVE /\ Moved(x) /\ task'[x].at \in {"idle", "done"} /\ task'[x].out = <<>>
        /\ x = Sync <=> task'[x].at = "idle"
        /\ clock' \in [now : Nat, passed : BOOLEAN]
<1>1. Fresh(IF x = Sync THEN "idle" ELSE "done") \in Task
  BY DEF Fresh, Task, Places, Status
<1>2. task'[x] = Fresh(IF x = Sync THEN "idle" ELSE "done")
  BY DEF End, LifeTypes
<1>3. Moved(x)
  BY <1>1 DEF End, LifeTypes, Moved
<1>4. clock' = [clock EXCEPT !.passed = clock.passed \/ x = Sync]
  BY DEF End
<1>5. clock' \in [now : Nat, passed : BOOLEAN]
  BY <1>4 DEF LifeTypes
<1> QED BY <1>2, <1>3, <1>5 DEF Fresh

\* A task that does not move is as sound as before, if the session does not come
\* back to life and what was recorded or rendered stays known.
LEMMA Kept ==
  ASSUME NEW x \in Tasks, LifeInv, task'[x] = task[x], alive' => alive,
         rec' = NoRecord <=> rec = NoRecord, rt' = NoRt => rt = NoRt
  PROVE Sound(x)'
BY DEF LifeInv, Sound, OfAgent, Creates

\* The steps after which only task x has to be looked at.
LEMMA OneMoves ==
  ASSUME LifeInv, NEW x \in Tasks, Moved(x), alive' => alive,
         rec' = NoRecord <=> rec = NoRecord, rt' = NoRt => rt = NoRt, Sound(x)'
  PROVE \A y \in Tasks : Sound(y)'
BY Kept DEF Moved

-----------------------------------------------------------------------------
LEMMA MetadataType ==
  ASSUME NEW snap \in Record, NEW attached \in BOOLEAN, clock \in [now : Nat, passed : BOOLEAN]
  PROVE /\ Metadata(snap, attached).attached \in BOOLEAN
        /\ Metadata(snap, attached).detachedAt \in Nat
        /\ Metadata(snap, attached).idleSince \in Nat
        /\ Metadata(snap, attached).cleanupAt \in Nat
        /\ Metadata(snap, attached).suspected \in BOOLEAN
<1> DEFINE detachedAt == IF attached THEN Never
                         ELSE IF snap.attached \/ snap.detachedAt = Never THEN now ELSE snap.detachedAt
           idle == IF snap.outAt > detachedAt THEN snap.outAt ELSE detachedAt
<1>1. detachedAt \in Nat
  BY DEF now, Never, Record
<1>2. idle \in Nat
  BY <1>1 DEF Record
<1> HIDE DEF idle, detachedAt
<1>3. idle + CleanupAfter \in Nat /\ Never \in Nat /\ Suspected(idle) \in BOOLEAN
  BY <1>2, LifecycleAssumption DEF Never, Suspected
<1>4. Metadata(snap, attached) =
        [attached |-> attached, detachedAt |-> detachedAt,
         idleSince |-> IF Managed /\ ~attached THEN idle ELSE Never,
         cleanupAt |-> IF Managed /\ ~attached THEN idle + CleanupAfter ELSE Never,
         suspected |-> Managed /\ ~attached /\ Suspected(idle)]
  BY DEF Metadata, idle, detachedAt
<1>5. (Managed /\ ~attached /\ Suspected(idle)) \in BOOLEAN
  BY <1>3, LifecycleAssumption
<1>6. (IF Managed /\ ~attached THEN idle ELSE Never) \in Nat
      /\ (IF Managed /\ ~attached THEN idle + CleanupAfter ELSE Never) \in Nat
  BY <1>2, <1>3
<1> HIDE DEF Metadata
<1> QED BY <1>1, <1>4, <1>5, <1>6

\* tmux and its users, and the steps that change the record's surroundings only.
LEMMA UsersKeep ==
  ASSUME LifeInv, Output \/ AttachOrDetach \/ ProgramEnds \/ Tick \/ Start
  PROVE LifeInv'
<1>1. UNCHANGED <<rec, rt, task, view>> /\ (alive' => alive)
  BY DEF Output, AttachOrDetach, ProgramEnds, Tick, Start
<1>2. \A x \in Tasks : Sound(x)'
  BY <1>1, Kept
<1>3. LifeTypes'
  <2>1. CASE Output
    <3>1. term' = [attached |-> term.attached, pane |-> term.pane + 1, usedAt |-> clock.now]
      BY <2>1 DEF LifeInv, LifeTypes, Output, now
    <3> QED BY <1>1, <2>1, <3>1 DEF LifeInv, LifeTypes, Output
  <2>2. CASE AttachOrDetach
    BY <2>2 DEF LifeInv, LifeTypes, AttachOrDetach, now
  <2>3. CASE ProgramEnds
    BY <2>3 DEF LifeInv, LifeTypes, ProgramEnds
  <2>4. CASE Tick
    BY <2>4 DEF LifeInv, LifeTypes, Tick, now
  <2>5. CASE Start
    BY <2>5 DEF LifeInv, LifeTypes, Start
  <2> QED BY <2>1, <2>2, <2>3, <2>4, <2>5
<1> QED BY <1>1, <1>2, <1>3 DEF LifeInv, ExitedIsGone

\* What the agent had in hand is gone with it; the commands go on.
LEMMA StopKeeps ==
  ASSUME LifeInv, Stop
  PROVE LifeInv'
<1> USE DEF LifeInv
<1>1. UNCHANGED <<alive, term, rec, view, clock>> /\ up' = FALSE /\ rt' = NoRt
  BY DEF Stop
<1>2. Fresh("idle") \in Task /\ Fresh("done") \in Task
  BY DEF Fresh, Task, Places, Status
<1>3. task' \in [Tasks -> Task]
  BY <1>2 DEF Stop, LifeTypes
<1>4. ASSUME NEW x \in Tasks PROVE Sound(x)'
  <2>1. CASE ~OfAgent(x) \/ task[x].at = "idle"
    <3>1. task'[x] = task[x]
      BY <2>1 DEF Stop
    <3> QED BY <1>1, <2>1, <3>1 DEF Sound, OfAgent, Creates
  <2>2. CASE OfAgent(x) /\ task[x].at # "idle"
    <3>1. task'[x] = Fresh(IF x = Sync THEN "idle" ELSE "done")
      BY <2>2 DEF Stop
    <3> QED BY <3>1, LifecycleAssumption DEF Sound, Fresh, Creates
  <2> QED BY <2>1, <2>2
<1> QED BY <1>1, <1>3, <1>4 DEF LifeTypes, ExitedIsGone

-----------------------------------------------------------------------------
\* Moves that leave the record, the runtime state and tmux alone.
LEMMA QuietMove ==
  ASSUME LifeInv, NEW x \in Tasks, Moved(x), Sound(x)',
         UNCHANGED <<alive, term, rec, up, view>>, rt' \in Rt \cup {NoRt}, rt' = NoRt => rt = NoRt,
         clock' \in [now : Nat, passed : BOOLEAN]
  PROVE LifeInv'
<1>1. \A y \in Tasks : Sound(y)'
  BY OneMoves
<1> QED BY <1>1 DEF LifeInv, LifeTypes, ExitedIsGone, Moved

LEMMA CreateSessionKeeps ==
  ASSUME LifeInv, NEW h \in Handlers, CreateSession(h)
  PROVE LifeInv'
<1> USE DEF LifeInv
<1> h \in Tasks /\ "options" \in Places
  BY DEF Tasks, Places
<1>1. Moved(h) /\ task'[h] = [task[h] EXCEPT !.at = "options"]
  BY GotoMoves DEF CreateSession, LifeTypes
<1>2. rec = NoRecord /\ Creates(h) /\ UNCHANGED <<rec, up, rt, view, clock>> /\ alive' = TRUE
  BY DEF CreateSession, Sound, Creates
<1>3. task[h] \in Task /\ task[h].at = "idle"
  BY DEF CreateSession, LifeTypes
<1>4. ASSUME NEW y \in Tasks PROVE Sound(y)'
  <2>1. CASE y = h
    BY <1>1, <1>2, <1>3, <2>1, LifecycleAssumption DEF Sound, Task, Creates
  <2>2. CASE y # h
    <3>1. task'[y] = task[y] /\ ~Creates(y)
      BY <1>1, <1>2, <2>2, LifecycleAssumption DEF Moved, Creates
    <3> QED BY <1>2, <3>1 DEF Sound, OfAgent, Creates
  <2> QED BY <2>1, <2>2
<1>5. LifeTypes'
  <2>1. term' = [attached |-> term.attached, pane |-> term.pane, usedAt |-> clock.now]
    BY DEF CreateSession, LifeTypes, now
  <2> QED BY <1>1, <1>2, <2>1 DEF LifeTypes, Moved
<1> QED BY <1>2, <1>4, <1>5 DEF ExitedIsGone

LEMMA CreateFailsKeeps ==
  ASSUME LifeInv, NEW h \in Handlers, CreateFails(h)
  PROVE LifeInv'
<1> USE DEF LifeInv
<1> h \in Tasks /\ h # Sync
  BY LifecycleAssumption DEF Tasks
<1>1. Moved(h) /\ task'[h].at = "done" /\ task'[h].out = <<>>
      /\ clock' \in [now : Nat, passed : BOOLEAN]
  BY EndMoves DEF CreateFails
<1>2. Sound(h)'
  BY <1>1 DEF CreateFails, Sound
<1> QED BY <1>1, <1>2, QuietMove DEF CreateFails, LifeTypes

LEMMA TwoToTell ==
  ASSUME NEW s \in Status
  PROVE <<s, s>> \in Seq(Status) /\ <<s, s>> # <<>>
<1>1. Len(<<s, s>>) = 2 /\ Len(<<>>) = 0
  OBVIOUS
<1> QED BY <1>1

LEMMA CreateRecordKeeps ==
  ASSUME LifeInv, NEW h \in Handlers, CreateRecord(h)
  PROVE LifeInv'
<1> USE DEF LifeInv
<1> h \in Tasks /\ h # Sync /\ "send" \in Places
  BY LifecycleAssumption DEF Tasks, Places
<1>1. /\ Moved(h) /\ clock' \in [now : Nat, passed : BOOLEAN]
      /\ \/ task'[h].at = "send" /\ task'[h].out # <<>>
         \/ task'[h].at = "done" /\ task'[h].out = <<>>
  <2>1. CASE OfAgent(h)
    <3> DEFINE two == <<"running", "running">>
    <3>1. two \in Seq(Status) /\ two # <<>>
      BY TwoToTell DEF Status
    <3>2. Say(h, "send", two) /\ UNCHANGED clock
      BY <2>1 DEF CreateRecord
    <3> HIDE DEF two, LifeInv
    <3>3. task \in [Tasks -> Task] /\ task[h] \in Task /\ clock \in [now : Nat, passed : BOOLEAN]
      BY DEF LifeInv, LifeTypes
    <3>4. Moved(h) /\ task'[h] = [task[h] EXCEPT !.at = "send", !.out = two]
      BY <3>1, <3>2, <3>3 DEF Say, Moved, Task
    <3> QED BY <3>1, <3>2, <3>3, <3>4 DEF Task
  <2>2. CASE ~OfAgent(h)
    BY <2>2, EndMoves DEF CreateRecord
  <2> QED BY <2>1, <2>2
<1>2. Creates(h) /\ rec = NoRecord /\ UNCHANGED <<alive, term, up, rt, view>>
  BY DEF CreateRecord, Sound
<1>3. rec' \in Record /\ rec'.status = "running"
  BY DEF CreateRecord, NewRecord, Record, Status, LifeTypes, now, Never
<1>4. ASSUME NEW y \in Tasks PROVE Sound(y)'
  <2>1. CASE y = h
    BY <1>1, <1>2, <1>3, <2>1, NothingAssumption DEF Sound
  <2>2. CASE y # h
    <3>1. task'[y] = task[y] /\ ~Creates(y)
      BY <1>1, <1>2, <2>2, LifecycleAssumption DEF Moved, Creates
    <3> QED BY <1>2, <1>3, <3>1, NothingAssumption DEF Sound, OfAgent, Creates
  <2> QED BY <2>1, <2>2
<1> QED BY <1>1, <1>2, <1>3, <1>4 DEF LifeTypes, Moved, ExitedIsGone

LEMMA KillBeginKeeps ==
  ASSUME LifeInv, NEW h \in Handlers, KillBegin(h)
  PROVE LifeInv'
<1> USE DEF LifeInv
<1> h \in Tasks /\ h # Sync /\ "killhas" \in Places
  BY LifecycleAssumption DEF Tasks, Places
<1>1. Moved(h) /\ task'[h] = [task[h] EXCEPT !.at = "killhas"] /\ task[h] \in Task
  BY GotoMoves DEF KillBegin, LifeTypes
<1>2. Sound(h)'
  BY <1>1 DEF KillBegin, Sound, Task, Creates
<1> QED BY <1>1, <1>2, QuietMove DEF KillBegin, LifeTypes

LEMMA KillHasKeeps ==
  ASSUME LifeInv, NEW x \in Tasks, KillHas(x)
  PROVE LifeInv'
<1> USE DEF LifeInv
<1> PICK exists \in HasSession : Goto(x, IF exists THEN "kill" ELSE "killed")
  BY DEF KillHas
<1> DEFINE place == IF exists THEN "kill" ELSE "killed"
<1>1. place \in Places /\ place \in {"kill", "killed"} /\ (place = "killed" /\ ~HasFails => ~alive)
  BY DEF Places, HasSession
<1> HIDE DEF place
<1>2. Moved(x) /\ task'[x] = [task[x] EXCEPT !.at = place] /\ task[x] \in Task
  BY <1>1, GotoMoves DEF KillHas, LifeTypes, place
<1>3. Sound(x)'
  BY <1>1, <1>2 DEF KillHas, Sound, Task, Creates
<1> QED BY <1>2, <1>3, QuietMove DEF KillHas, LifeTypes

LEMMA KillTmuxKeeps ==
  ASSUME LifeInv, NEW x \in Tasks, KillTmux(x)
  PROVE LifeInv'
<1> USE DEF LifeInv
<1> task[x] \in Task /\ "killed" \in Places
  BY DEF LifeTypes, Places
<1>1. /\ Moved(x) /\ clock' \in [now : Nat, passed : BOOLEAN]
      /\ \/ task'[x] = [task[x] EXCEPT !.at = "killed"]
         \/ task'[x].at \in {"idle", "done"} /\ task'[x].out = <<>> /\ (x = Sync <=> task'[x].at = "idle")
  BY GotoMoves, EndMoves DEF KillTmux, LifeTypes
<1>2. alive' = FALSE /\ UNCHANGED <<rec, up, rt, view>> /\ rec # NoRecord
  BY DEF KillTmux, Sound
<1>3. Sound(x)'
  BY <1>1, <1>2, LifecycleAssumption DEF KillTmux, Sound, Task, Creates
<1>4. \A y \in Tasks : Sound(y)'
  BY <1>1, <1>2, <1>3, OneMoves
<1>5. LifeTypes'
  BY <1>1, <1>2 DEF KillTmux, LifeTypes, Moved
<1> QED BY <1>2, <1>4, <1>5 DEF ExitedIsGone

LEMMA ExitedType ==
  ASSUME NEW r \in Record
  PROVE Exited(r) \in Record /\ Exited(r).status = "exited"
BY DEF Exited, Record, Status, Never

LEMMA KillRecordKeeps ==
  ASSUME LifeInv, NEW x \in Tasks, KillRecord(x)
  PROVE LifeInv'
<1> USE DEF LifeInv
<1> DEFINE two == <<"exited", "exited">>
<1>0. two \in Seq(Status) /\ two # <<>>
  BY TwoToTell DEF Status
<1> DEFINE place == IF x = Sync THEN "bury" ELSE "send"
<1> task[x] \in Task /\ place \in Places
  BY DEF LifeTypes, Places
<1>1. /\ Moved(x) /\ clock' \in [now : Nat, passed : BOOLEAN]
      /\ \/ task'[x] = [task[x] EXCEPT !.at = place, !.out = two]
         \/ task'[x].at = "done" /\ task'[x].out = <<>>
  <2>1. CASE OfAgent(x)
    <3>1. Say(x, place, two) /\ UNCHANGED clock
      BY <2>1 DEF KillRecord
    <3> HIDE DEF place, two
    <3>2. Moved(x) /\ task'[x] = [task[x] EXCEPT !.at = place, !.out = two]
      BY <1>0, <3>1 DEF LifeTypes, Say, Moved, Task
    <3> QED BY <3>1, <3>2 DEF LifeTypes
  <2>2. CASE ~OfAgent(x)
    BY <2>2, EndMoves DEF KillRecord, OfAgent
  <2> QED BY <2>1, <2>2
<1>2. rec \in Record /\ (HasFails \/ ~alive) /\ UNCHANGED <<alive, term, up, rt, view>> /\ rec' = Exited(rec)
  BY DEF KillRecord, Sound, LifeTypes
<1>3. rec' \in Record /\ rec' # NoRecord /\ rec # NoRecord
  BY <1>2, ExitedType, NothingAssumption
<1>4. Sound(x)'
  <2>1. rt # NoRt \/ x # Sync
    BY DEF KillRecord, Sound
  <2>2. \/ task'[x].at = place /\ task'[x].out # <<>>
        \/ task'[x].at = "done" /\ task'[x].out = <<>>
    <3> HIDE DEF place, two
    <3> QED BY <1>0, <1>1 DEF Task
  <2>3. x = Sync => place = "bury"
    OBVIOUS
  <2>4. x # Sync => place = "send"
    OBVIOUS
  <2> HIDE DEF place
  <2> QED BY <1>2, <1>3, <2>1, <2>2, <2>3, <2>4 DEF Sound
<1>5. \A y \in Tasks : Sound(y)'
  BY <1>1, <1>2, <1>3, <1>4, OneMoves
<1> QED BY <1>1, <1>2, <1>3, <1>5 DEF LifeTypes, Moved, ExitedIsGone

-----------------------------------------------------------------------------
LEMMA OneToTell ==
  ASSUME NEW s \in Status
  PROVE <<s>> \in Seq(Status) /\ <<s>> # <<>>
<1>1. Len(<<s>>) = 1 /\ Len(<<>>) = 0
  OBVIOUS
<1> QED BY <1>1

LEMMA ListKeeps ==
  ASSUME LifeInv, NEW h \in Handlers, List(h)
  PROVE LifeInv'
<1> USE DEF LifeInv
<1> h \in Tasks /\ h # Sync /\ "send" \in Places /\ task[h] \in Task
  BY LifecycleAssumption DEF Tasks, Places, LifeTypes
<1> DEFINE one == <<rec.status>>
<1>1. rec \in Record /\ rec # NoRecord /\ rec.status \in Status
  BY DEF List, LifeTypes, Record
<1>2. one \in Seq(Status) /\ one # <<>>
  BY <1>1, OneToTell
<1>3. Say(h, "send", one)
  BY DEF List
<1> HIDE DEF one
<1>4. Moved(h) /\ task'[h].at = "send" /\ task'[h].out # <<>>
  BY <1>2, <1>3 DEF Say, Moved, Task, LifeTypes
<1>5. Sound(h)'
  BY <1>1, <1>4 DEF List, Sound
<1> QED BY <1>4, <1>5, QuietMove DEF List, LifeTypes

\* What noteRemoteInteraction leaves is an entry.
LEMMA NoteType ==
  ASSUME LifeInv, Note, rec # NoRecord
  PROVE rt' \in Rt
<1>1. rec.status \in Status /\ rt \in Rt \cup {NoRt}
  BY DEF LifeInv, LifeTypes, Record
<1>2. CASE rt = NoRt
  <2>1. rt' = [rendered |-> 0, status |-> rec.status, normalized |-> FALSE]
    BY <1>2 DEF Note
  <2> QED BY <1>1, <2>1 DEF Rt
<1>3. CASE rt # NoRt
  BY <1>1, <1>3 DEF Note
<1> QED BY <1>2, <1>3

LEMMA InputBeginKeeps ==
  ASSUME LifeInv, NEW h \in Handlers, InputBegin(h)
  PROVE LifeInv'
<1> USE DEF LifeInv
<1> h \in Tasks /\ h # Sync /\ "keys" \in Places /\ task[h] \in Task
  BY LifecycleAssumption DEF Tasks, Places, LifeTypes
<1>1. Moved(h) /\ task'[h] = [task[h] EXCEPT !.at = "keys"]
  BY GotoMoves DEF InputBegin, LifeTypes
<1>2. rt' \in Rt /\ rec # NoRecord
  BY NoteType DEF InputBegin
<1>3. Sound(h)'
  BY <1>1, <1>2, NothingAssumption DEF InputBegin, Sound, Task, OfAgent, Creates
<1> QED BY <1>1, <1>2, <1>3, NothingAssumption, QuietMove DEF InputBegin, LifeTypes

\* A handler that is over.
LEMMA HandlerEnds ==
  ASSUME LifeInv, NEW h \in Handlers, End(h), ~Creates(h) \/ rec # NoRecord,
         rt' \in Rt \cup {NoRt}, rt' = NoRt => rt = NoRt, UNCHANGED <<alive, term, rec, up, view>>
  PROVE LifeInv'
<1> USE DEF LifeInv
<1> h \in Tasks /\ h # Sync
  BY LifecycleAssumption DEF Tasks
<1>1. Moved(h) /\ task'[h].at = "done" /\ task'[h].out = <<>>
      /\ clock' \in [now : Nat, passed : BOOLEAN]
  BY EndMoves
<1>2. Sound(h)'
  BY <1>1 DEF Sound
<1> QED BY <1>1, <1>2, QuietMove DEF LifeTypes

\* The pass of the loop is over.
LEMMA LoopEnds ==
  ASSUME LifeInv, End(Sync), UNCHANGED <<alive, term, rec, up, rt, view>>
  PROVE LifeInv'
<1> USE DEF LifeInv
<1> Sync \in Tasks /\ Sync \notin Handlers
  BY LifecycleAssumption DEF Tasks
<1>1. Moved(Sync) /\ task'[Sync].at = "idle" /\ task'[Sync].out = <<>>
      /\ clock' \in [now : Nat, passed : BOOLEAN]
  BY EndMoves
<1>2. Sound(Sync)'
  BY <1>1 DEF Sound, Creates
<1> QED BY <1>1, <1>2, QuietMove DEF LifeTypes

LEMMA InputFailsKeeps ==
  ASSUME LifeInv, NEW h \in Handlers, InputFails(h) \/ PaneMissing(h)
  PROVE LifeInv'
<1> h \in Tasks /\ Sound(h)
  BY DEF Tasks, LifeInv
<1> QED BY HandlerEnds DEF InputFails, PaneMissing, Sound, LifeInv, LifeTypes

LEMMA ReplayKeeps ==
  ASSUME LifeInv, NEW h \in Handlers, Replay(h)
  PROVE LifeInv'
<1>1. rt' \in Rt /\ rec # NoRecord
  BY NoteType DEF Replay
<1> QED BY <1>1, NothingAssumption, HandlerEnds DEF Replay, Creates

LEMMA ResizeBeginKeeps ==
  ASSUME LifeInv, NEW h \in Handlers, ResizeBegin(h)
  PROVE LifeInv'
<1> USE DEF LifeInv
<1> h \in Tasks /\ h # Sync /\ "resize" \in Places /\ task[h] \in Task /\ Sound(h)
  BY LifecycleAssumption DEF Tasks, Places, LifeTypes
<1>1. task' = [task EXCEPT ![h].at = "resize", ![h].snap = rec] /\ rec \in Record /\ rec # NoRecord
  BY DEF ResizeBegin, LifeTypes
<1>2. Moved(h) /\ task'[h].at = "resize" /\ task'[h].snap = rec /\ task'[h].out = task[h].out
  BY <1>1 DEF Moved, Task, LifeTypes
<1>3. rt' \in Rt /\ rt' # NoRt
  BY <1>1, NoteType, NothingAssumption DEF ResizeBegin
<1>4. Sound(h)'
  BY <1>1, <1>2, <1>3 DEF ResizeBegin, Sound, OfAgent, Creates
<1> QED BY <1>1, <1>2, <1>3, <1>4, QuietMove DEF ResizeBegin, LifeTypes

LEMMA ResizeWindowKeeps ==
  ASSUME LifeInv, NEW h \in Handlers, ResizeWindow(h)
  PROVE LifeInv'
<1> USE DEF LifeInv
<1> h \in Tasks /\ h # Sync /\ "capture" \in Places /\ task[h] \in Task /\ Sound(h)
  BY LifecycleAssumption DEF Tasks, Places, LifeTypes
<1>1. CASE ~alive
  BY <1>1, HandlerEnds DEF ResizeWindow, Sound, LifeTypes
<1>2. CASE alive
  <2>1. Moved(h) /\ task'[h] = [task[h] EXCEPT !.at = "capture"]
    BY <1>2, GotoMoves DEF ResizeWindow, LifeTypes
  <2>2. Sound(h)'
    BY <2>1 DEF ResizeWindow, Sound, Task, Creates, OfAgent
  <2> QED BY <1>2, <2>1, <2>2, QuietMove DEF ResizeWindow, LifeTypes
<1> QED BY <1>1, <1>2

LEMMA InputCheckKeeps ==
  ASSUME LifeInv, NEW h \in Handlers, InputCheck(h)
  PROVE LifeInv'
<1> USE DEF LifeInv
<1> h \in Tasks /\ h # Sync /\ "capture" \in Places /\ task[h] \in Task /\ Sound(h)
  BY LifecycleAssumption DEF Tasks, Places, LifeTypes
<1>1. CASE rec.status = "exited"
  BY <1>1, HandlerEnds DEF InputCheck, Sound, LifeTypes
<1>2. CASE rec.status # "exited"
  <2>1. Moved(h) /\ task'[h] = [task[h] EXCEPT !.at = "capture"]
    BY <1>2, GotoMoves DEF InputCheck, LifeTypes
  <2>2. Sound(h)'
    BY <2>1 DEF InputCheck, Sound, Task, Creates, OfAgent
  <2> QED BY <1>2, <2>1, <2>2, QuietMove DEF InputCheck, LifeTypes
<1> QED BY <1>1, <1>2

LEMMA CaptureKeeps ==
  ASSUME LifeInv, NEW x \in Tasks, Capture(x)
  PROVE LifeInv'
<1> USE DEF LifeInv
<1> "answered" \in Places /\ "missing" \in Places /\ task[x] \in Task /\ Sound(x) /\ term.pane \in Nat
  BY DEF Places, LifeTypes
<1>1. /\ Moved(x) /\ task'[x].at = (IF alive THEN "answered" ELSE "missing")
      /\ task'[x].out = task[x].out /\ task'[x].snap = task[x].snap
  <2>1. CASE alive
    <3>1. task' = [task EXCEPT ![x].at = "answered", ![x].shot = term.pane]
      BY <2>1 DEF Capture
    <3> QED BY <2>1, <3>1 DEF LifeTypes, Moved, Task
  <2>2. CASE ~alive
    <3>1. Goto(x, "missing")
      BY <2>2 DEF Capture
    <3>2. Moved(x) /\ task'[x] = [task[x] EXCEPT !.at = "missing"]
      BY <3>1, GotoMoves DEF LifeTypes
    <3> QED BY <2>2, <3>2 DEF Task
  <2> QED BY <2>1, <2>2
<1>2. Sound(x)'
  BY <1>1 DEF Capture, Sound, OfAgent, Creates
<1> QED BY <1>1, <1>2, QuietMove DEF Capture, LifeTypes

LEMMA SendKeeps ==
  ASSUME LifeInv, NEW x \in Tasks, Send(x)
  PROVE LifeInv'
<1> USE DEF LifeInv
<1> task[x] \in Task /\ Sound(x)
  BY DEF LifeTypes
<1> DEFINE out == task[x].out
<1>1. out \in Seq(Status) /\ out # <<>>
  BY DEF Send, Sound, Task
<1>2. Head(out) \in Status /\ Tail(out) \in Seq(Status) /\ (Len(out) > 1 => Tail(out) # <<>>)
  <2>1. Head(out) \in Status /\ Tail(out) \in Seq(Status) /\ Len(Tail(out)) = Len(out) - 1
    BY <1>1, HeadTailProperties
  <2>2. Len(out) \in Nat /\ Len(<<>>) = 0
    BY <1>1
  <2> HIDE DEF out
  <2>3. Len(out) > 1 => Len(Tail(out)) # 0
    BY <2>1, <2>2
  <2> QED BY <2>1, <2>2, <2>3
<1>3. view' = Head(out) /\ UNCHANGED <<alive, term, rec, up>> /\ rec # NoRecord
  BY DEF Send, Sound
<1>4. rt' \in Rt \cup {NoRt} /\ (rt' = NoRt => rt = NoRt)
  <2>1. CASE task[x].at = "bury" /\ Len(out) = 1
    <3>1. rt \in Rt /\ rt' = [rt EXCEPT !.status = "exited"]
      BY <2>1 DEF Send, Sound, LifeTypes
    <3> QED BY <3>1, NothingAssumption DEF Rt, Status
  <2>2. CASE ~(task[x].at = "bury" /\ Len(out) = 1)
    BY <2>2 DEF Send, LifeTypes
  <2> QED BY <2>1, <2>2
<1>5. /\ Moved(x) /\ Sound(x)' /\ clock' \in [now : Nat, passed : BOOLEAN]
  <2>1. CASE Len(out) > 1
    <3>1. task' = [task EXCEPT ![x].out = Tail(out)] /\ clock' = clock
      BY <2>1 DEF Send
    <3> HIDE DEF out
    <3>2. Moved(x) /\ task'[x].at = task[x].at /\ task'[x].out # <<>>
      BY <1>2, <2>1, <3>1 DEF Moved, Task, LifeTypes
    <3> QED BY <1>3, <1>4, <3>1, <3>2 DEF Sound, Send, LifeTypes
  <2>2. CASE ~(Len(out) > 1)
    <3>1. End(x)
      BY <2>2 DEF Send
    <3>2. /\ Moved(x) /\ task'[x].at \in {"idle", "done"} /\ task'[x].out = <<>>
          /\ x = Sync <=> task'[x].at = "idle"
          /\ clock' \in [now : Nat, passed : BOOLEAN]
      BY <3>1, EndMoves
    <3>3. Creates(x) => x # Sync
      BY LifecycleAssumption DEF Creates
    <3> QED BY <3>2, <3>3 DEF Sound
  <2> QED BY <2>1, <2>2
<1>6. \A y \in Tasks : Sound(y)'
  BY <1>3, <1>4, <1>5, OneMoves
<1> QED BY <1>2, <1>3, <1>4, <1>5, <1>6 DEF LifeTypes, ExitedIsGone, Moved

-----------------------------------------------------------------------------
LEMMA MarkExitedKeeps ==
  ASSUME LifeInv, MarkExited
  PROVE LifeInv'
<1> USE DEF LifeInv
<1> DEFINE two == <<"exited", "exited">>
<1> Sync \in Tasks /\ Sync \notin Handlers /\ task[Sync] \in Task /\ Sound(Sync)
  BY LifecycleAssumption DEF Tasks, LifeTypes
<1>1. two \in Seq(Status) /\ two # <<>>
  BY TwoToTell DEF Status
<1>2. Say(Sync, "send", two) /\ UNCHANGED <<alive, term, up, view, clock>> /\ rec' = Exited(rec)
  BY DEF MarkExited
<1> HIDE DEF two
<1>3. Moved(Sync) /\ task'[Sync].at = "send" /\ task'[Sync].out # <<>>
  BY <1>1, <1>2 DEF Say, Moved, Task, LifeTypes, Places
<1>4. rec # NoRecord /\ (HasFails \/ ~alive)
  BY DEF MarkExited, Sound, HasSession
<1>5. rec' \in Record /\ rec' # NoRecord
  BY <1>2, <1>4, ExitedType, NothingAssumption DEF LifeTypes
<1>6. Runtime("exited") \in Rt
  BY DEF MarkExited, Runtime, Sound, LifeTypes, Rt, Status
<1>7. rt' \in Rt /\ rt' # NoRt
  <2>1. rt' = [Runtime("exited") EXCEPT !.status = "exited"]
    BY DEF MarkExited
  <2> QED BY <1>6, <2>1, NothingAssumption DEF Rt, Status
<1>8. Sound(Sync)'
  BY <1>3, <1>5, <1>7 DEF Sound, Creates
<1>9. \A y \in Tasks : Sound(y)'
  BY <1>2, <1>3, <1>4, <1>5, <1>7, <1>8, OneMoves
<1> QED BY <1>2, <1>3, <1>4, <1>5, <1>7, <1>9 DEF LifeTypes, ExitedIsGone, Moved

LEMMA NewOutputKeeps ==
  ASSUME LifeInv, NEW x \in Tasks, NewOutput(x)
  PROVE LifeInv'
<1> USE DEF LifeInv
<1> DEFINE bumped == [rec EXCEPT !.outAt = now, !.suspected = FALSE]
<1> task[x] \in Task /\ Sound(x)
  BY DEF LifeTypes
<1>1. rec \in Record /\ rec # NoRecord /\ rt # NoRt /\ task[x].at = "answered"
  BY DEF NewOutput, Sound, LifeTypes
<1>2. bumped \in Record /\ bumped.status = rec.status /\ bumped.status \in Status
  BY <1>1 DEF Record, LifeTypes, now
<1>3. /\ task' = [task EXCEPT ![x].at = "framing", ![x].next = bumped.status]
      /\ rec' = bumped /\ UNCHANGED <<alive, term, up, view, clock>>
      /\ rt' = IF x = Sync THEN rt ELSE [rendered |-> task[x].shot, status |-> bumped.status, normalized |-> TRUE]
  BY DEF NewOutput, Bumped
<1> HIDE DEF bumped
<1>4. rt' \in Rt /\ rt' # NoRt
  <2>1. CASE x = Sync
    BY <1>1, <1>3, <2>1 DEF LifeTypes
  <2>2. CASE x # Sync
    <3>1. task[x].shot \in Nat
      BY DEF Task
    <3>2. rt' = [rendered |-> task[x].shot, status |-> bumped.status, normalized |-> TRUE]
      BY <1>3, <2>2
    <3>3. rt' \in Rt
      BY <1>2, <3>1, <3>2 DEF Rt
    <3> QED BY <3>3, NothingAssumption
  <2> QED BY <2>1, <2>2
<1>5. Moved(x) /\ task'[x].at = "framing" /\ task'[x].out = task[x].out
  BY <1>2, <1>3 DEF Moved, Task, Places, LifeTypes
<1>6. rec' \in Record /\ rec' # NoRecord
  BY <1>2, <1>3, NothingAssumption
<1>7. Sound(x)'
  BY <1>1, <1>4, <1>5, <1>6 DEF Sound, OfAgent, Creates
<1>8. \A y \in Tasks : Sound(y)'
  BY <1>1, <1>3, <1>4, <1>5, <1>6, <1>7, OneMoves
<1> QED BY <1>1, <1>2, <1>3, <1>4, <1>5, <1>6, <1>8 DEF LifeTypes, ExitedIsGone, Moved

\* A task that tells a status.
Tells(x, status) ==
  /\ task' = [task EXCEPT ![x].at = "send", ![x].out = <<status>>]
  /\ UNCHANGED <<alive, term, rec, up, view, clock>>

LEMMA TellKeeps ==
  ASSUME LifeInv, NEW x \in Tasks, NEW status \in Status, Tells(x, status), rec # NoRecord,
         rt' \in Rt \cup {NoRt}, rt' = NoRt => rt = NoRt
  PROVE LifeInv'
<1> USE DEF LifeInv
<1> DEFINE one == <<status>>
<1>1. one \in Seq(Status) /\ one # <<>>
  BY OneToTell
<1>2. task' = [task EXCEPT ![x].at = "send", ![x].out = one] /\ UNCHANGED <<alive, term, rec, up, view, clock>>
  BY DEF Tells
<1> HIDE DEF one
<1> task \in [Tasks -> Task] /\ task[x] \in Task /\ "send" \in Places
  BY DEF LifeTypes, Places
<1>3. Moved(x) /\ task'[x].at = "send" /\ task'[x].out = one
  BY <1>1, <1>2 DEF Moved, Task
<1>4. Sound(x)'
  BY <1>1, <1>2, <1>3 DEF Sound
<1> QED BY <1>2, <1>3, <1>4, QuietMove DEF LifeTypes

LEMMA NothingNewKeeps ==
  ASSUME LifeInv, NEW x \in Tasks, NothingNew(x)
  PROVE LifeInv'
<1> USE DEF LifeInv
<1> task[x] \in Task /\ Sound(x)
  BY DEF LifeTypes
<1>1. rec # NoRecord /\ task[x].next \in Status /\ task[x].at = "answered"
  BY DEF NothingNew, Sound, Task
<1>2. CASE x = Sync /\ ~task[x].had
  <2> DEFINE status == task[x].next
  <2>1. Tells(x, status) /\ UNCHANGED rt
    BY <1>2 DEF NothingNew, Say, Tells
  <2>2. status \in Status
    BY <1>1
  <2> HIDE DEF status
  <2> QED BY <1>1, <2>1, <2>2, TellKeeps DEF LifeTypes
<1>3. CASE ~(x = Sync /\ ~task[x].had)
  <2>1. End(x) /\ UNCHANGED <<alive, term, rec, up, view>> /\ rt \in Rt /\ rt # NoRt
    BY <1>1, <1>3 DEF NothingNew, Sound, LifeTypes
  <2>2. x = Sync \/ x \in Handlers
    BY DEF Tasks
  <2>3. CASE x # Sync /\ Kind[x] = "resize"
    <3>1. task[x].snap \in Record /\ task[x].snap.status \in Status
      BY <1>1, <2>3 DEF Sound, Task, Record
    <3>2. rt' = [rt EXCEPT !.status = task[x].snap.status, !.normalized = TRUE]
      BY <2>3 DEF NothingNew
    <3>3. rt' \in Rt
      BY <2>1, <3>1, <3>2 DEF Rt
    <3> QED BY <1>1, <2>1, <2>2, <2>3, <3>3, NothingAssumption, HandlerEnds
  <2>4. CASE ~(x # Sync /\ Kind[x] = "resize")
    <3>1. UNCHANGED rt
      BY <2>4 DEF NothingNew
    <3> QED BY <1>1, <2>1, <2>2, <3>1, LoopEnds, HandlerEnds
  <2> QED BY <2>3, <2>4
<1> QED BY <1>2, <1>3

LEMMA TellStateKeeps ==
  ASSUME LifeInv, NEW x \in Tasks, TellState(x)
  PROVE LifeInv'
<1> USE DEF LifeInv
<1> task[x] \in Task /\ Sound(x)
  BY DEF LifeTypes
<1>1. rec # NoRecord /\ task[x].next \in Status /\ task[x].shot \in Nat /\ rt \in Rt /\ rt # NoRt
  BY DEF TellState, Sound, Task, LifeTypes
<1>2. rt' \in Rt
  BY <1>1 DEF TellState, Rt
<1>3. Tells(x, task[x].next)
  BY DEF TellState, Say, Tells
<1>4. rt' # NoRt
  BY <1>2, NothingAssumption
<1> QED BY <1>1, <1>2, <1>3, <1>4, TellKeeps

LEMMA LoadStateKeeps ==
  ASSUME LifeInv, LoadState
  PROVE LifeInv'
<1> USE DEF LifeInv
<1> Sync \in Tasks /\ Sync \notin Handlers /\ task[Sync] \in Task /\ Sound(Sync)
  BY LifecycleAssumption DEF Tasks, LifeTypes
<1>1. task' = [task EXCEPT ![Sync].at = "loaded", ![Sync].snap = rec] /\ rec \in Record
  BY DEF LoadState, LifeTypes
<1>2. Moved(Sync) /\ task'[Sync].at = "loaded" /\ task'[Sync].snap = rec /\ task'[Sync].out = task[Sync].out
  BY <1>1 DEF Moved, Task, Places, LifeTypes
<1>3. Sound(Sync)'
  BY <1>2 DEF LoadState, Sound, Creates
<1> QED BY <1>2, <1>3, QuietMove DEF LoadState, LifeTypes

LEMMA SyncBeginKeeps ==
  ASSUME LifeInv, SyncBegin
  PROVE LifeInv'
<1> USE DEF LifeInv
<1> Sync \in Tasks /\ Sync \notin Handlers /\ task[Sync] \in Task /\ Sound(Sync)
  BY LifecycleAssumption DEF Tasks, LifeTypes
<1>1. task[Sync].at = "loaded" /\ rec # NoRecord /\ UNCHANGED <<alive, term, rec, up, view>>
  BY DEF SyncBegin, Sound
<1> DEFINE known == rt # NoRt
<1>2. CASE /\ task' = [task EXCEPT ![Sync].at = "has", ![Sync].had = known]
           /\ UNCHANGED <<rt, clock>>
  <2>1. known \in BOOLEAN
    OBVIOUS
  <2>2. known => rt # NoRt
    OBVIOUS
  <2> HIDE DEF known
  <2>3. /\ Moved(Sync) /\ task'[Sync].at = "has" /\ task'[Sync].had = known
        /\ task'[Sync].out = task[Sync].out /\ task'[Sync].snap = task[Sync].snap
    BY <1>2, <2>1 DEF Moved, Task, Places, LifeTypes
  <2>4. Sound(Sync)'
    BY <1>1, <1>2, <2>2, <2>3 DEF Sound, Creates
  <2> QED BY <1>1, <1>2, <2>3, <2>4, QuietMove DEF LifeTypes
<1>3. CASE /\ rt # NoRt /\ rt' = [rt EXCEPT !.status = "exited"]
           /\ Say(Sync, "send", <<"exited">>) /\ UNCHANGED clock
  <2>1. rt' \in Rt
    BY <1>3 DEF LifeTypes, Rt, Status
  <2>2. Tells(Sync, "exited")
    BY <1>1, <1>3 DEF Tells, Say
  <2> QED BY <1>1, <2>1, <2>2, NothingAssumption, TellKeeps DEF Status
<1>4. CASE End(Sync) /\ UNCHANGED rt
  BY <1>1, <1>4, LoopEnds
<1> QED BY <1>2, <1>3, <1>4 DEF SyncBegin

LEMMA SyncHasKeeps ==
  ASSUME LifeInv, SyncHas
  PROVE LifeInv'
<1> USE DEF LifeInv
<1> DEFINE place == IF task[Sync].had /\ rt.normalized THEN "count" ELSE "normalize"
<1> Sync \in Tasks /\ Sync \notin Handlers /\ task[Sync] \in Task /\ Sound(Sync) /\ place \in Places
  BY LifecycleAssumption DEF Tasks, LifeTypes, Places
<1>1. Goto(Sync, place) /\ task[Sync].at = "has"
  BY DEF SyncHas
<1>2. (place = "count" => task[Sync].had) /\ place \in {"count", "normalize"}
  OBVIOUS
<1> HIDE DEF place
<1>3. Moved(Sync) /\ task'[Sync] = [task[Sync] EXCEPT !.at = place]
  BY <1>1, GotoMoves DEF LifeTypes
<1>4. Sound(Sync)'
  BY <1>1, <1>2, <1>3 DEF SyncHas, Sound, Creates, Task, OfAgent
<1> QED BY <1>3, <1>4, QuietMove DEF SyncHas, LifeTypes

LEMMA SyncNormalizeKeeps ==
  ASSUME LifeInv, SyncNormalize
  PROVE LifeInv'
<1> USE DEF LifeInv
<1> Sync \in Tasks /\ Sync \notin Handlers /\ task[Sync] \in Task /\ Sound(Sync) /\ "count" \in Places
  BY LifecycleAssumption DEF Tasks, LifeTypes, Places
<1>1. CASE alive
  <2>1. task[Sync].snap \in Record /\ task[Sync].snap.status \in Status
    BY DEF SyncNormalize, Sound, Task, Record
  <2>2. Runtime(task[Sync].snap.status) \in Rt
    BY <2>1 DEF SyncNormalize, Runtime, Sound, LifeTypes, Rt
  <2>3. rt' = [Runtime(task[Sync].snap.status) EXCEPT !.normalized = TRUE]
    BY <1>1 DEF SyncNormalize
  <2>4. rt' \in Rt
    BY <2>2, <2>3 DEF Rt
  <2>5. Moved(Sync) /\ task'[Sync] = [task[Sync] EXCEPT !.at = "count"]
    BY <1>1, GotoMoves DEF SyncNormalize, LifeTypes
  <2>6. Sound(Sync)'
    BY <2>4, <2>5, NothingAssumption DEF SyncNormalize, Sound, Creates, Task, OfAgent
  <2> QED BY <1>1, <2>4, <2>5, <2>6, NothingAssumption, QuietMove DEF SyncNormalize, LifeTypes
<1>2. CASE ~alive
  BY <1>2, LoopEnds DEF SyncNormalize
<1> QED BY <1>1, <1>2

LEMMA SyncCountKeeps ==
  ASSUME LifeInv, SyncCount
  PROVE LifeInv' /\ (rec' # NoRecord /\ rec'.status = rec.status)
<1> USE DEF LifeInv
<1> DEFINE snap == task[Sync].snap
           m == Metadata(snap, term.attached)
           differs == Differs(snap, m)
           place == IF m.cleanupAt # Never /\ now >= m.cleanupAt THEN "killhas" ELSE "capture"
           next == IF differs THEN rec.status ELSE snap.status
<1> Sync \in Tasks /\ Sync \notin Handlers /\ task[Sync] \in Task /\ Sound(Sync)
  BY LifecycleAssumption DEF Tasks, LifeTypes
<1>1. rec \in Record /\ snap \in Record /\ rt # NoRt /\ task[Sync].at = "count" /\ term.attached \in BOOLEAN
  BY DEF SyncCount, Sound, Task, LifeTypes
<1>2. /\ rec' = IF differs THEN WithMetadata(rec, snap, m) ELSE rec
      /\ task' = [task EXCEPT ![Sync].at = place, ![Sync].changed = differs, ![Sync].next = next]
      /\ UNCHANGED <<alive, term, up, rt, view, clock>>
  BY DEF SyncCount
<1>3. /\ m.attached \in BOOLEAN /\ m.detachedAt \in Nat /\ m.idleSince \in Nat
      /\ m.cleanupAt \in Nat /\ m.suspected \in BOOLEAN
  BY <1>1, MetadataType DEF LifeTypes
<1>4. differs \in BOOLEAN
  BY DEF Differs
<1>5. place \in {"killhas", "capture"} /\ place \in Places
  BY DEF Places
<1>6. next \in Status
  BY <1>1 DEF Record
<1> HIDE DEF m, place, next, differs, snap
<1>7. rec' \in Record /\ rec'.status = rec.status
  <2>1. WithMetadata(rec, snap, m) \in Record /\ WithMetadata(rec, snap, m).status = rec.status
    BY <1>1, <1>3 DEF WithMetadata, Record
  <2> QED BY <1>1, <1>2, <2>1
<1>8. Moved(Sync) /\ task'[Sync].at = place /\ task'[Sync].out = task[Sync].out
  BY <1>2, <1>4, <1>5, <1>6 DEF Moved, Task, LifeTypes
<1>9. rec # NoRecord /\ rec' # NoRecord
  BY <1>1, <1>7, NothingAssumption
<1>10. Sound(Sync)'
  BY <1>1, <1>2, <1>5, <1>8, <1>9 DEF Sound, Creates, OfAgent
<1>11. \A y \in Tasks : Sound(y)'
  BY <1>2, <1>8, <1>9, <1>10, OneMoves
<1> QED BY <1>2, <1>7, <1>8, <1>9, <1>11 DEF LifeTypes, ExitedIsGone, Moved

-----------------------------------------------------------------------------
\* A request or a command is started.
Begins(h) ==
  CreateSession(h) \/ KillBegin(h) \/ List(h) \/ Replay(h) \/ InputBegin(h) \/ ResizeBegin(h)

LEMMA LifeInvNext ==
  ASSUME LifeInv, [LifeNext]_lifeVars
  PROVE LifeInv'
<1> Sync \in Tasks /\ \A h \in Handlers : h \in Tasks
  BY DEF Tasks
<1>1. CASE UNCHANGED lifeVars
  BY <1>1 DEF lifeVars, LifeInv, LifeTypes, ExitedIsGone, Sound, OfAgent, Creates
<1>2. CASE Users
  BY <1>2, UsersKeep, StopKeeps DEF Users
<1>3. CASE SyncStep
  BY <1>3, LoadStateKeeps, SyncBeginKeeps, SyncHasKeeps, SyncNormalizeKeeps, SyncCountKeeps,
     MarkExitedKeeps, KillHasKeeps, KillTmuxKeeps, KillRecordKeeps, CaptureKeeps, NewOutputKeeps,
     NothingNewKeeps, TellStateKeeps, SendKeeps
     DEF SyncStep
<1>4. ASSUME NEW h \in Handlers, HandlerStep(h)
      PROVE LifeInv'
  BY <1>4, CreateFailsKeeps, CreateRecordKeeps, KillHasKeeps, KillTmuxKeeps, KillRecordKeeps,
     InputFailsKeeps, InputCheckKeeps, ResizeWindowKeeps, CaptureKeeps, NewOutputKeeps, NothingNewKeeps,
     TellStateKeeps, SendKeeps
     DEF HandlerStep
<1>5. ASSUME NEW h \in Handlers, Begins(h)
      PROVE LifeInv'
  BY <1>5, CreateSessionKeeps, KillBeginKeeps, ListKeeps, ReplayKeeps, InputBeginKeeps, ResizeBeginKeeps
     DEF Begins
<1> QED BY <1>1, <1>2, <1>3, <1>4, <1>5 DEF LifeNext, Begins

LEMMA LifeInvHolds == LifeSpec => []LifeInv
BY LifeInvInit, LifeInvNext, PTL DEF LifeSpec

\* Whoever marks a session, its tmux session is gone by then and never comes back:
\* no program goes on running behind a record that says exited (ExitedIsGone), as
\* long as has-session fails for no other reason than a missing session.
THEOREM ExitedGone ==
  ASSUME ~HasFails
  PROVE LifeSpec => []ExitedIsGone
<1>1. LifeInv => ExitedIsGone
  BY DEF LifeInv
<1> QED BY <1>1, LifeInvHolds, PTL

\* All the tasks are where the state says they can be (LifeTypeOK).
THEOREM LifeTyped == LifeSpec => []LifeTypeOK
<1>1. LifeInv => LifeTypeOK
  BY DEF LifeInv, LifeTypes, LifeTypeOK, Sound
<1> QED BY <1>1, LifeInvHolds, PTL

\* The status of a record never goes back to running, although loop, handlers and
\* commands update it from copies of different ages (ExitedForGood).
THEOREM ExitedStays == LifeSpec => ExitedForGood
<1> DEFINE Stays == rec # NoRecord /\ rec.status = "exited" => rec' # NoRecord /\ rec'.status = "exited"
<1>1. ASSUME LifeInv, [LifeNext]_lifeVars
      PROVE [Stays]_lifeVars
  <2> SUFFICES ASSUME rec # NoRecord, rec.status = "exited"
               PROVE rec' # NoRecord /\ rec'.status = "exited"
    OBVIOUS
  <2>1. rec \in Record /\ \A x \in Tasks : Sound(x)
    BY <1>1 DEF LifeInv, LifeTypes
  <2>2. CASE UNCHANGED rec
    BY <2>2
  <2>3. CASE rec' = Exited(rec)
    BY <2>1, <2>3, ExitedType, NothingAssumption
  <2>4. CASE SyncCount
    BY <1>1, <2>4, SyncCountKeeps
  <2>5. CASE \E x \in Tasks : NewOutput(x)
    <3>1. rec' = [rec EXCEPT !.outAt = now, !.suspected = FALSE]
      BY <2>5 DEF NewOutput, Bumped
    <3>2. now \in Nat
      BY <1>1 DEF LifeInv, LifeTypes, now
    <3>3. rec' \in Record /\ rec'.status = rec.status
      BY <2>1, <3>1, <3>2 DEF Record
    <3> QED BY <3>3, NothingAssumption
  <2>6. ~(\E h \in Handlers : CreateRecord(h))
    BY <2>1 DEF CreateRecord, Sound, Tasks
  <2>7. UNCHANGED rec \/ rec' = Exited(rec) \/ SyncCount \/ (\E x \in Tasks : NewOutput(x))
    BY <1>1, <2>6 DEF LifeNext, Users, SyncStep, HandlerStep, lifeVars, Tasks, Output, AttachOrDetach,
       ProgramEnds, Tick, Stop, Start, CreateSession, KillBegin, List, Replay, InputBegin, ResizeBegin,
       CreateFails, KillHas, KillTmux, KillRecord, InputFails, InputCheck, ResizeWindow, PaneMissing, Capture, NothingNew,
       TellState, Send, LoadState, SyncBegin, SyncHas, SyncNormalize, MarkExited
  <2> QED BY <2>2, <2>3, <2>4, <2>5, <2>7
<1> QED BY <1>1, LifeInvHolds, PTL DEF LifeSpec, ExitedForGood

-----------------------------------------------------------------------------
Idle(r) == IF r.outAt > r.detachedAt THEN r.outAt ELSE r.detachedAt

\* At time t the session needed no warning yet, or the record r has one.
Warned(r, t) ==
  \/ ~Managed \/ ~alive \/ r.status = "exited" \/ r.suspected
  \/ r.attached \/ r.detachedAt = Never
  \/ Idle(r) + WarningAfter > t

\* Where the loop is before and after it has written what it computes from its copy.
Before == {"loaded", "has", "normalize", "count"}
After == {"killhas", "kill", "killed", "capture", "missing", "answered", "framing", "send", "bury"}

\* What is on disk is the loop's copy, unless it was bumped or marked since.
CopyFits(r, snap) ==
  /\ r.status = "exited" \/ r.outAt >= now \/ r = snap
  /\ snap.status = "exited" => r.status = "exited"

\* While the agent is up the record on disk has the warning due at the last tick, and
\* the one due now once the loop has passed; so does the copy the loop decides by.
WarnInv ==
  /\ up
  /\ rec = NoRecord => ~clock.passed
  /\ rec # NoRecord => Warned(rec, now - 1)
  /\ rec # NoRecord /\ (clock.passed \/ task[Sync].at \in After) => Warned(rec, now)
  /\ task[Sync].at \in Before => CopyFits(rec, task[Sync].snap) /\ Warned(task[Sync].snap, now - 1)
  /\ task[Sync].at \in Before \ {"loaded"} => task[Sync].snap.status # "exited"
  /\ task[Sync].at \in {"killhas", "kill"} /\ alive => task[Sync].snap.suspected

\* What every step can count on.
LEMMA WarnFacts ==
  ASSUME LifeInv
  PROVE  /\ rec \in Record \cup {NoRecord} /\ clock \in [now : Nat, passed : BOOLEAN] /\ now \in Nat
         /\ Sync \in Tasks /\ task \in [Tasks -> Task]
         /\ task[Sync].at \in Before => task[Sync].snap \in Record
         /\ task[Sync].at \in Before \cup After => rec # NoRecord
<1>1. Sync \in Tasks
  BY DEF Tasks
<1>2. Sound(Sync) /\ LifeTypes
  BY <1>1 DEF LifeInv
<1>3. task[Sync] \in Task
  BY <1>1, <1>2 DEF LifeTypes
<1> QED BY <1>1, <1>2, <1>3 DEF LifeTypes, Sound, Before, After, Task, now

\* Nothing the warning depends on changes.
LEMMA WarnKept ==
  ASSUME WarnInv, UNCHANGED <<rec, up, clock>>, task'[Sync] = task[Sync], alive' => alive
  PROVE  WarnInv'
BY DEF WarnInv, Warned, CopyFits, Idle, now

\* A handler or a command writes a record that is bumped now, or exited.
LEMMA WarnWritten ==
  ASSUME LifeInv, WarnInv, UNCHANGED <<up, clock>>, task'[Sync] = task[Sync], alive' => alive,
         rec' \in Record, rec'.status = "exited" \/ rec'.outAt = now, WarningAfter > 0,
         rec # NoRecord /\ rec.status = "exited" => rec'.status = "exited"
  PROVE  WarnInv'
<1>0. now' = now /\ now \in Nat /\ WarningAfter \in Nat /\ rec' # NoRecord
  BY WarnFacts, LifecycleAssumption, NothingAssumption DEF now
<1>1. rec'.status = "exited" \/ Idle(rec') + WarningAfter > now'
  <2>1. rec'.outAt \in Nat /\ rec'.detachedAt \in Nat
    BY DEF Record
  <2> QED BY <1>0, <2>1 DEF Idle
<1>2. Warned(rec, now)' /\ Warned(rec, now - 1)'
  <2>1. ASSUME Idle(rec') + WarningAfter > now' PROVE Idle(rec') + WarningAfter > now' - 1
    <3>1. Idle(rec') \in Nat
      BY DEF Idle, Record
    <3> QED BY <1>0, <2>1, <3>1
  <2> QED BY <1>1, <2>1 DEF Warned, Idle
<1>3. task[Sync].at \in Before => CopyFits(rec, task[Sync].snap)' /\ Warned(task[Sync].snap, now - 1)'
  BY <1>0, WarnFacts DEF WarnInv, CopyFits, Warned, Idle
<1> QED BY <1>0, <1>2, <1>3 DEF WarnInv

\* The loop goes on after it has written, or ends its pass.
LEMMA WarnAfter ==
  ASSUME LifeInv, WarnInv, UNCHANGED <<rec, up>>, clock'.now = clock.now, alive' => alive,
         task[Sync].at \in After, task'[Sync].at \in After \cup {"idle"},
         task'[Sync].at \in {"killhas", "kill"} =>
           task[Sync].at = "killhas" /\ task'[Sync].snap = task[Sync].snap
  PROVE  WarnInv'
<1>1. rec # NoRecord /\ now' = now
  BY WarnFacts DEF now
<1>2. Warned(rec, now)' /\ Warned(rec, now - 1)'
  BY <1>1 DEF WarnInv, Warned, Idle
<1>3. task'[Sync].at \notin Before
  BY DEF After, Before
<1> QED BY <1>1, <1>2, <1>3 DEF WarnInv

\* The session is gone, or marked: no warning is due any more.
LEMMA WarnOver ==
  ASSUME WarnInv, UNCHANGED up, rec' # NoRecord, ~alive' \/ rec'.status = "exited",
         task'[Sync].at \in (After \ {"killhas", "kill"}) \cup {"idle"}
  PROVE  WarnInv'
<1>1. Warned(rec, now)' /\ Warned(rec, now - 1)'
  BY DEF Warned
<1>2. task'[Sync].at \notin Before /\ task'[Sync].at \notin {"killhas", "kill"}
  BY DEF After, Before
<1> QED BY <1>1, <1>2 DEF WarnInv

\* What syncSession computes, spelled out.
LEMMA MetadataIs ==
  ASSUME NEW snap \in Record, NEW attached \in BOOLEAN, now \in Nat
  PROVE  LET m == Metadata(snap, attached)
             idle == IF snap.outAt > m.detachedAt THEN snap.outAt ELSE m.detachedAt
         IN  /\ m.attached = attached
             /\ ~Managed \/ attached => m.cleanupAt = Never
             /\ ~attached => m.detachedAt = IF snap.attached \/ snap.detachedAt = Never THEN now ELSE snap.detachedAt
             /\ Managed /\ ~attached => (m.suspected <=> now - idle >= WarningAfter) /\ m.cleanupAt = idle + CleanupAfter
BY LifecycleAssumption DEF Metadata, Suspected, Record

\* The loop writes the warning, and kills only what had it when it was loaded.
LEMMA WarnCount ==
  ASSUME LifeInv, WarnInv, SyncCount, 0 < WarningAfter, WarningAfter < CleanupAfter
  PROVE  WarnInv'
<1> DEFINE snap == task[Sync].snap
           m == Metadata(snap, term.attached)
           differs == Differs(snap, m)
           idle == IF snap.outAt > m.detachedAt THEN snap.outAt ELSE m.detachedAt
           place == IF m.cleanupAt # Never /\ now >= m.cleanupAt THEN "killhas" ELSE "capture"
<1>0. /\ task[Sync].at = "count" /\ snap \in Record /\ rec \in Record /\ now \in Nat /\ term.attached \in BOOLEAN
      /\ WarningAfter \in Nat /\ CleanupAfter \in Nat
  BY WarnFacts, LifecycleAssumption DEF SyncCount, Before, LifeInv, LifeTypes
<1>1. /\ rec' = (IF differs THEN WithMetadata(rec, snap, m) ELSE rec)
      /\ UNCHANGED <<alive, up, clock>> /\ now' = now
      /\ task'[Sync].at = place /\ task'[Sync].snap = snap
  BY <1>0, WarnFacts DEF SyncCount, Task, now
<1>2. /\ m.attached = term.attached
      /\ ~Managed \/ term.attached => m.cleanupAt = Never
      /\ ~term.attached => m.detachedAt = IF snap.attached \/ snap.detachedAt = Never THEN now ELSE snap.detachedAt
      /\ Managed /\ ~term.attached => (m.suspected <=> now - idle >= WarningAfter) /\ m.cleanupAt = idle + CleanupAfter
  BY <1>0, MetadataIs
<1>3. m.detachedAt \in Nat /\ m.attached \in BOOLEAN /\ m.suspected \in BOOLEAN
  BY <1>0, WarnFacts, MetadataType
<1>4. differs \/ (m.attached = snap.attached /\ m.detachedAt = snap.detachedAt /\ m.suspected = snap.suspected)
  BY DEF Differs
<1>5. CopyFits(rec, snap) /\ Warned(snap, now - 1) /\ snap.status # "exited"
  BY <1>0 DEF WarnInv, Before
<1> HIDE DEF m, differs, snap, place
<1>6. /\ rec'.status = rec.status /\ rec'.outAt = rec.outAt
      /\ differs => rec'.attached = m.attached /\ rec'.detachedAt = m.detachedAt /\ rec'.suspected = m.suspected
      /\ ~differs => rec' = rec
  BY <1>0, <1>1 DEF WithMetadata, Record
<1>7. rec' # NoRecord /\ rec'.outAt \in Nat /\ rec'.detachedAt \in Nat
  <2>1. rec.outAt \in Nat /\ rec.detachedAt \in Nat
    BY <1>0 DEF Record
  <2>2. rec' # NoRecord
    BY SyncCountKeeps
  <2> QED BY <1>3, <1>6, <2>1, <2>2
<1>8. snap.outAt \in Nat /\ snap.detachedAt \in Nat
  BY <1>0 DEF Record
<1>9. Warned(rec, now)'
  <2>1. CASE rec.outAt >= now
    <3>1. Idle(rec') + WarningAfter > now'
      BY <1>0, <1>1, <1>6, <1>7, <2>1 DEF Idle
    <3> QED BY <3>1 DEF Warned, Idle
  <2>2. CASE rec.status = "exited" \/ ~Managed
    BY <1>6, <2>2 DEF Warned
  <2>3. CASE rec = snap /\ Managed
    <3>1. rec'.attached = term.attached /\ rec'.detachedAt = m.detachedAt /\ rec'.suspected = m.suspected
      BY <1>2, <1>4, <1>6, <2>3
    <3>2. CASE term.attached
      BY <3>1, <3>2 DEF Warned
    <3>3. CASE ~term.attached
      <4>1. Idle(rec') = idle
        BY <1>6, <2>3, <3>1 DEF Idle
      <4>2. m.suspected \/ now - idle < WarningAfter
        BY <1>0, <1>2, <1>3, <1>8, <2>3, <3>3
      <4>3. m.suspected \/ Idle(rec') + WarningAfter > now'
        BY <1>0, <1>1, <1>3, <1>8, <4>1, <4>2
      <4> QED BY <3>1, <4>3 DEF Warned, Idle
    <3> QED BY <3>2, <3>3
  <2> QED BY <1>5, <2>1, <2>2, <2>3 DEF CopyFits
<1>10. Warned(rec, now - 1)'
  <2>1. ASSUME Idle(rec') + WarningAfter > now' PROVE Idle(rec') + WarningAfter > now' - 1
    <3>1. Idle(rec') \in Nat
      BY <1>7 DEF Idle
    <3> QED BY <1>0, <1>1, <2>1, <3>1
  <2> QED BY <1>9, <2>1 DEF Warned, Idle
<1>11. place = "killhas" /\ alive => snap.suspected
  <2> SUFFICES ASSUME place = "killhas", alive PROVE snap.suspected
    OBVIOUS
  <2>1. m.cleanupAt # Never /\ now >= m.cleanupAt
    BY DEF place
  <2>2. Managed /\ ~term.attached /\ idle + CleanupAfter <= now
    BY <1>2, <2>1, LifecycleAssumption
  <2>3. ~snap.attached /\ snap.detachedAt # Never
    BY <1>0, <1>2, <1>8, <2>2
  <2>4. idle = Idle(snap)
    BY <1>2, <2>2, <2>3 DEF Idle
  <2>5. ~(Idle(snap) + WarningAfter > now - 1)
    BY <1>0, <1>3, <1>8, <2>2, <2>4
  <2> QED BY <1>5, <2>2, <2>3, <2>5 DEF Warned
<1>12. task'[Sync].at \in {"killhas", "capture"} /\ task'[Sync].at \notin Before
  BY <1>1 DEF place, Before
<1> QED BY <1>1, <1>7, <1>9, <1>10, <1>11, <1>12 DEF WarnInv

\* The end of another task is not the end of the loop's pass.
LEMMA OthersMove ==
  ASSUME LifeInv, NEW h \in Handlers,
         \/ \E place \in Places : Goto(h, place)
         \/ \E place \in Places, statuses \in Seq(Status) : Say(h, place, statuses)
         \/ End(h)
  PROVE  task'[Sync] = task[Sync] /\ (End(h) => UNCHANGED clock)
<1>1. h # Sync /\ Sync \in Tasks /\ task \in [Tasks -> Task]
  BY WarnFacts, LifecycleAssumption
<1>2. ASSUME End(h) PROVE UNCHANGED clock
  <2>1. clock' = [clock EXCEPT !.passed = clock.passed \/ h = Sync]
    BY <1>2 DEF End
  <2>2. clock.passed \in BOOLEAN /\ clock \in [now : Nat, passed : BOOLEAN]
    BY WarnFacts
  <2>3. (clock.passed \/ h = Sync) = clock.passed
    BY <1>1, <2>2
  <2> QED BY <2>1, <2>2, <2>3
<1> QED BY <1>1, <1>2 DEF Goto, Say, End

\* What handlers and commands do, to the record and else.
LEMMA WarnHandler ==
  ASSUME LifeInv, WarnInv, NEW h \in Handlers, WarningAfter > 0,
         Begins(h) \/ HandlerStep(h)
  PROVE  WarnInv'
<1>0. /\ h # Sync /\ Sync \in Tasks /\ h \in Tasks /\ task \in [Tasks -> Task] /\ Sound(h)
      /\ rec \in Record \cup {NoRecord} /\ now \in Nat
  BY WarnFacts, LifecycleAssumption DEF LifeInv, Tasks
<1>1. CASE CreateSession(h)
  <2>1. rec = NoRecord /\ UNCHANGED <<rec, up, clock>> /\ Goto(h, "options")
    BY <1>0, <1>1 DEF CreateSession, Sound, Creates
  <2>2. task'[Sync] = task[Sync]
    BY <1>0, <2>1 DEF Goto
  <2>3. task'[Sync].at \notin Before \cup After
    BY <2>1, <2>2, WarnFacts
  <2> QED BY <2>1, <2>3 DEF WarnInv, Before, After
<1>2. CASE KillBegin(h) \/ List(h) \/ InputBegin(h) \/ ResizeBegin(h)
  <2>1. UNCHANGED <<rec, up, clock, alive>> /\ task'[Sync] = task[Sync]
    BY <1>0, <1>2 DEF KillBegin, List, InputBegin, ResizeBegin, Goto, Say
  <2> QED BY <2>1, WarnKept
<1>3. CASE CreateRecord(h)
  <2>1. rec' = NewRecord /\ UNCHANGED <<alive, up>> /\ rec = NoRecord
    BY <1>0, <1>3 DEF CreateRecord, Sound
  <2>2. task'[Sync] = task[Sync] /\ UNCHANGED clock
    <3>1. CASE OfAgent(h)
      BY <1>0, <1>3, <3>1 DEF CreateRecord, Say
    <3>2. CASE ~OfAgent(h)
      BY <1>3, <3>2, OthersMove DEF CreateRecord
    <3> QED BY <3>1, <3>2
  <2>3. rec' \in Record /\ rec'.outAt = now
    BY <1>0, <2>1 DEF NewRecord, Record, Status, Never
  <2> QED BY <2>1, <2>2, <2>3, WarnWritten
<1>4. CASE KillRecord(h)
  <2>1. rec' = Exited(rec) /\ UNCHANGED <<alive, up>> /\ rec \in Record
    BY <1>0, <1>4 DEF KillRecord, Sound
  <2>2. task'[Sync] = task[Sync] /\ UNCHANGED clock
    <3>1. CASE OfAgent(h)
      BY <1>0, <1>4, <3>1 DEF KillRecord, Say
    <3>2. CASE ~OfAgent(h)
      BY <1>4, <3>2, OthersMove DEF KillRecord
    <3> QED BY <3>1, <3>2
  <2> QED BY <2>1, <2>2, ExitedType, WarnWritten
<1>5. CASE NewOutput(h)
  <2>1. /\ rec' = [rec EXCEPT !.outAt = now, !.suspected = FALSE] /\ UNCHANGED <<alive, up, clock>> /\ rec \in Record
        /\ task'[Sync] = task[Sync]
    BY <1>0, <1>5 DEF NewOutput, Bumped, Sound
  <2>2. rec' \in Record /\ rec'.status = rec.status /\ rec'.outAt = now
    BY <1>0, <2>1 DEF Record
  <2> QED BY <2>1, <2>2, WarnWritten
<1>6. CASE Replay(h) \/ CreateFails(h) \/ InputFails(h) \/ PaneMissing(h)
  <2>1. End(h) /\ UNCHANGED <<rec, up, alive>>
    BY <1>6 DEF Replay, CreateFails, InputFails, PaneMissing
  <2> QED BY <2>1, OthersMove, WarnKept
<1>7. CASE KillHas(h) \/ TellState(h)
  <2>1. UNCHANGED <<rec, up, clock, alive>> /\ task'[Sync] = task[Sync]
    BY <1>0, <1>7 DEF KillHas, TellState, Goto, Say
  <2> QED BY <2>1, WarnKept
<1>8. CASE Capture(h)
  <2>1. UNCHANGED <<rec, up, clock, alive>> /\ task'[Sync] = task[Sync]
    BY <1>0, <1>8 DEF Capture, Goto
  <2> QED BY <2>1, WarnKept
<1>9. CASE KillTmux(h)
  <2>1. UNCHANGED <<rec, up>> /\ ~alive' /\ ((Goto(h, "killed") /\ UNCHANGED clock) \/ End(h))
    BY <1>9 DEF KillTmux
  <2>2. task'[Sync] = task[Sync] /\ UNCHANGED clock
    BY <1>0, <2>1, OthersMove DEF Goto
  <2> QED BY <2>1, <2>2, WarnKept
<1>10. CASE InputCheck(h) \/ ResizeWindow(h)
  <2>1. UNCHANGED <<rec, up, alive>> /\ ((Goto(h, "capture") /\ UNCHANGED clock) \/ End(h))
    BY <1>10 DEF InputCheck, ResizeWindow
  <2>2. task'[Sync] = task[Sync] /\ UNCHANGED clock
    BY <1>0, <2>1, OthersMove DEF Goto
  <2> QED BY <2>1, <2>2, WarnKept
<1>11. CASE NothingNew(h)
  <2>1. UNCHANGED <<rec, up, alive>> /\ End(h)
    BY <1>0, <1>11 DEF NothingNew
  <2> QED BY <2>1, OthersMove, WarnKept
<1>12. CASE Send(h)
  <2>1. UNCHANGED <<rec, up, alive>> /\ ((task' = [task EXCEPT ![h].out = Tail(task[h].out)] /\ UNCHANGED clock) \/ End(h))
    BY <1>12 DEF Send
  <2>2. task'[Sync] = task[Sync] /\ UNCHANGED clock
    BY <1>0, <2>1, OthersMove
  <2> QED BY <2>1, <2>2, WarnKept
<1> QED BY <1>1, <1>2, <1>3, <1>4, <1>5, <1>6, <1>7, <1>8, <1>9, <1>10, <1>11, <1>12 DEF Begins, HandlerStep

\* Where the loop is after its moves.
LEMMA LoopMoves ==
  ASSUME LifeInv
  PROVE  /\ \A place : Goto(Sync, place) => task'[Sync].at = place /\ task'[Sync].snap = task[Sync].snap
         /\ \A place, statuses : Say(Sync, place, statuses) => task'[Sync].at = place
         /\ End(Sync) => task'[Sync].at = "idle" /\ clock'.now = clock.now
<1>1. Sync \in Tasks /\ task \in [Tasks -> Task] /\ LifeTypes /\ clock \in [now : Nat, passed : BOOLEAN]
  BY WarnFacts DEF LifeInv
<1>2. ASSUME NEW place, Goto(Sync, place) PROVE task'[Sync].at = place /\ task'[Sync].snap = task[Sync].snap
  BY <1>1, <1>2 DEF Goto, Task
<1>3. ASSUME NEW place, NEW statuses, Say(Sync, place, statuses) PROVE task'[Sync].at = place
  BY <1>1, <1>3 DEF Say, Task
<1>4. ASSUME End(Sync) PROVE task'[Sync].at = "idle" /\ clock'.now = clock.now
  BY <1>1, <1>4, EndMoves DEF End
<1> QED BY <1>2, <1>3, <1>4

\* The steps of the loop.
LEMMA WarnSync ==
  ASSUME LifeInv, WarnInv, SyncStep, 0 < WarningAfter, WarningAfter < CleanupAfter
  PROVE  WarnInv'
<1>0. /\ Sync \in Tasks /\ task \in [Tasks -> Task] /\ LifeTypes /\ Sound(Sync)
      /\ rec \in Record \cup {NoRecord} /\ clock \in [now : Nat, passed : BOOLEAN] /\ now \in Nat
  BY WarnFacts DEF LifeInv
<1>1. CASE LoadState
  <2>1. /\ UNCHANGED <<alive, rec, up, clock>> /\ rec # NoRecord /\ now' = now
        /\ task'[Sync].at = "loaded" /\ task'[Sync].snap = rec
    BY <1>0, <1>1 DEF LoadState, now
  <2> QED BY <2>1 DEF WarnInv, CopyFits, Warned, Idle, Before, After
<1>2. CASE SyncBegin
  <2>0. task[Sync].at = "loaded" /\ UNCHANGED <<alive, rec, up>> /\ rec # NoRecord
    BY <1>2, WarnFacts DEF SyncBegin, Before
  <2>1. CASE task[Sync].snap.status # "exited"
    <3>1. /\ task'[Sync].at = "has" /\ task'[Sync].snap = task[Sync].snap /\ UNCHANGED clock /\ now' = now
      BY <1>0, <1>2, <2>1 DEF SyncBegin, now, Task
    <3> QED BY <2>0, <2>1, <3>1 DEF WarnInv, CopyFits, Warned, Idle, Before, After
  <2>2. CASE task[Sync].snap.status = "exited"
    <3>1. rec'.status = "exited"
      BY <2>0, <2>2 DEF WarnInv, CopyFits, Before
    <3>2. Say(Sync, "send", <<"exited">>) \/ End(Sync)
      BY <1>2, <2>2 DEF SyncBegin
    <3>3. task'[Sync].at \in {"send", "idle"}
      BY <3>2, LoopMoves
    <3> QED BY <2>0, <3>1, <3>3, WarnOver DEF After
  <2> QED BY <2>1, <2>2
<1>3. CASE SyncHas
  <2>1. /\ UNCHANGED <<alive, rec, up, clock>> /\ now' = now /\ task[Sync].at = "has"
        /\ task'[Sync].at \in {"count", "normalize"} /\ task'[Sync].snap = task[Sync].snap
    BY <1>0, <1>3 DEF SyncHas, Goto, now
  <2> QED BY <2>1 DEF WarnInv, CopyFits, Warned, Idle, Before, After
<1>4. CASE SyncNormalize
  <2>0. task[Sync].at = "normalize" /\ UNCHANGED <<alive, rec, up>> /\ rec # NoRecord
    BY <1>4, WarnFacts DEF SyncNormalize, Before
  <2>1. CASE alive
    <3>1. UNCHANGED clock /\ now' = now /\ task'[Sync].at = "count" /\ task'[Sync].snap = task[Sync].snap
      BY <1>4, <2>1, LoopMoves DEF SyncNormalize, now
    <3> QED BY <2>0, <3>1 DEF WarnInv, CopyFits, Warned, Idle, Before, After
  <2>2. CASE ~alive
    <3>1. End(Sync)
      BY <1>4, <2>2 DEF SyncNormalize
    <3> QED BY <2>0, <2>2, <3>1, LoopMoves, WarnOver
  <2> QED BY <2>1, <2>2
<1>5. CASE SyncCount
  BY <1>5, WarnCount
<1>6. CASE MarkExited
  <2>1. rec' = Exited(rec) /\ UNCHANGED up /\ task'[Sync].at = "send" /\ rec \in Record
    BY <1>0, <1>6, LoopMoves DEF MarkExited, Sound
  <2> QED BY <2>1, ExitedType, NothingAssumption, WarnOver DEF After
<1>7. CASE KillHas(Sync)
  <2>1. /\ UNCHANGED <<alive, rec, up, clock>> /\ task[Sync].at = "killhas"
        /\ task'[Sync].at \in {"kill", "killed"} /\ task'[Sync].snap = task[Sync].snap
    BY <1>0, <1>7 DEF KillHas, Goto
  <2> QED BY <2>1, WarnAfter DEF After
<1>8. CASE KillTmux(Sync)
  <2>1. UNCHANGED <<rec, up>> /\ ~alive' /\ task[Sync].at = "kill" /\ (Goto(Sync, "killed") \/ End(Sync))
    BY <1>8 DEF KillTmux
  <2>2. task'[Sync].at \in {"killed", "idle"}
    BY <2>1, LoopMoves
  <2>3. rec' # NoRecord
    BY <2>1, WarnFacts DEF After
  <2> QED BY <2>1, <2>2, <2>3, WarnOver DEF After
<1>9. CASE KillRecord(Sync)
  <2>1. rec' = Exited(rec) /\ UNCHANGED up /\ task'[Sync].at = "bury" /\ rec \in Record
    BY <1>0, <1>9, LoopMoves DEF KillRecord, Sound, OfAgent
  <2> QED BY <2>1, ExitedType, NothingAssumption, WarnOver DEF After
<1>10. CASE Capture(Sync)
  <2>1. UNCHANGED <<alive, rec, up, clock>> /\ task[Sync].at = "capture" /\ task'[Sync].at \in {"answered", "missing"}
    BY <1>0, <1>10, LoopMoves DEF Capture, Task
  <2> QED BY <2>1, WarnAfter DEF After
<1>11. CASE NewOutput(Sync)
  <2>1. /\ rec' = [rec EXCEPT !.outAt = now, !.suspected = FALSE] /\ rec \in Record
        /\ UNCHANGED <<alive, up, clock>> /\ now' = now /\ task'[Sync].at = "framing"
    BY <1>0, <1>11 DEF NewOutput, Bumped, Sound, now
  <2>2. rec' \in Record /\ rec'.outAt = now
    BY <1>0, <2>1 DEF Record
  <2>3. Idle(rec') \in Nat /\ Idle(rec') >= now
    BY <1>0, <2>2 DEF Idle, Record
  <2>4. Idle(rec') + WarningAfter > now /\ Idle(rec') + WarningAfter > now - 1
    BY <1>0, <2>3, LifecycleAssumption
  <2>5. Warned(rec, now)' /\ Warned(rec, now - 1)'
    BY <2>1, <2>4 DEF Warned, Idle
  <2> QED BY <2>1, <2>2, <2>5, NothingAssumption DEF WarnInv, Before
<1>12. CASE NothingNew(Sync)
  <2>1. UNCHANGED <<alive, rec, up>> /\ task[Sync].at = "answered"
        /\ ((Say(Sync, "send", <<task[Sync].next>>) /\ UNCHANGED clock) \/ End(Sync))
    BY <1>12 DEF NothingNew
  <2>2. task'[Sync].at \in {"send", "idle"} /\ clock'.now = clock.now
    BY <2>1, LoopMoves
  <2> QED BY <2>1, <2>2, WarnAfter DEF After
<1>13. CASE TellState(Sync)
  <2>1. UNCHANGED <<alive, rec, up, clock>> /\ task[Sync].at \in {"framing", "answered"} /\ task'[Sync].at = "send"
    BY <1>0, <1>13 DEF TellState, Say
  <2> QED BY <2>1, WarnAfter DEF After
<1>14. CASE Send(Sync)
  <2>1. UNCHANGED <<alive, rec, up>> /\ task[Sync].at \in {"send", "bury"}
        /\ ((task' = [task EXCEPT ![Sync].out = Tail(task[Sync].out)] /\ UNCHANGED clock) \/ End(Sync))
    BY <1>14 DEF Send
  <2>2. task'[Sync].at \in {"send", "bury", "idle"} /\ clock'.now = clock.now
    BY <1>0, <2>1, LoopMoves DEF Task
  <2> QED BY <2>1, <2>2, WarnAfter DEF After
<1> QED BY <1>1, <1>2, <1>3, <1>4, <1>5, <1>6, <1>7, <1>8, <1>9, <1>10, <1>11, <1>12, <1>13, <1>14 DEF SyncStep

\* While the agent is up, every record has the warning it is due.
LEMMA WarnNext ==
  ASSUME LifeInv, WarnInv, [LifeNext]_lifeVars, MaxStops = 0, stops \in Nat,
         0 < WarningAfter, WarningAfter < CleanupAfter
  PROVE  WarnInv'
<1>1. CASE SyncStep
  BY <1>1, WarnSync
<1>2. ASSUME NEW h \in Handlers, Begins(h) \/ HandlerStep(h)
      PROVE  WarnInv'
  BY <1>2, WarnHandler
<1>3. CASE Output \/ AttachOrDetach \/ ProgramEnds \/ UNCHANGED lifeVars
  <2>1. UNCHANGED <<rec, up, clock, task>> /\ (alive' => alive)
    BY <1>3 DEF Output, AttachOrDetach, ProgramEnds, lifeVars
  <2> QED BY <2>1, WarnKept
<1>4. CASE Tick
  <2>1. /\ UNCHANGED <<alive, rec, up, task>> /\ clock' = [now |-> now + 1, passed |-> FALSE]
        /\ task[Sync].at \in {"idle", "done"} /\ (rec # NoRecord => clock.passed)
    BY <1>4, WarnFacts DEF Tick, WarnInv
  <2>2. now' - 1 = now /\ ~clock'.passed
    BY <2>1, WarnFacts DEF now
  <2>3. rec # NoRecord => Warned(rec, now - 1)'
    BY <2>1, <2>2 DEF WarnInv, Warned, Idle
  <2> QED BY <2>1, <2>2, <2>3 DEF WarnInv, Before, After
<1>5. ~Stop /\ ~Start
  BY DEF Stop, Start, WarnInv
<1> QED BY <1>1, <1>2, <1>3, <1>4, <1>5 DEF LifeNext, Users, Begins

\* What an agent that never stops cleans up was shown as suspected before, whatever is
\* typed, attached or printed in between: the copy the loop decides by had the mark
\* (daemon.ts syncSession, orphanWarningMs before orphanCleanupMs).
THEOREM WarnedBeforeCleanup ==
  ASSUME MaxStops = 0, 0 < WarningAfter, WarningAfter < CleanupAfter
  PROVE  LifeSpec => WarnedFirst
<1> DEFINE Up == stops = 0
<1>1. LifeInit => WarnInv /\ Up
  <2> SUFFICES ASSUME LifeInit PROVE WarnInv /\ Up
    OBVIOUS
  <2>1. Sync \in Tasks
    BY DEF Tasks
  <2>2. task[Sync].at = "idle"
    BY <2>1 DEF LifeInit, Fresh
  <2>3. "idle" \notin Before \cup After /\ "idle" \notin {"killhas", "kill"}
    BY DEF Before, After
  <2> QED BY <2>2, <2>3 DEF LifeInit, WarnInv
<1>2. Up /\ [LifeNext]_lifeVars => Up'
  <2> SUFFICES ASSUME Up, [LifeNext]_lifeVars PROVE stops' = stops
    OBVIOUS
  <2>1. ~Stop
    BY DEF Stop
  <2>2. CASE SyncStep
    BY <2>2 DEF SyncStep, LoadState, SyncBegin, SyncHas, SyncNormalize, SyncCount, MarkExited, KillHas,
       KillTmux, KillRecord, Capture, NewOutput, NothingNew, TellState, Send
  <2>3. ASSUME NEW h \in Handlers, HandlerStep(h) PROVE UNCHANGED stops
    BY <2>3 DEF HandlerStep, CreateFails, CreateRecord, KillHas, KillTmux, KillRecord, InputFails,
       InputCheck, ResizeWindow, PaneMissing, Capture, NewOutput, NothingNew, TellState, Send
  <2>4. ASSUME NEW h \in Handlers, Begins(h)
        PROVE UNCHANGED stops
    BY <2>4 DEF Begins, CreateSession, KillBegin, List, Replay, InputBegin, ResizeBegin
  <2>5. CASE Users \/ UNCHANGED lifeVars
    BY <2>1, <2>5 DEF Users, lifeVars, Output, AttachOrDetach, ProgramEnds, Tick, Start
  <2> QED BY <2>2, <2>3, <2>4, <2>5 DEF LifeNext, Begins
<1>3. LifeInv /\ WarnInv /\ Up /\ [LifeNext]_lifeVars => WarnInv'
  BY WarnNext
<1>4. LifeInv /\ WarnInv => (CleansUp => task[Sync].snap.suspected)
  BY DEF CleansUp, WarnInv
<1> QED BY <1>1, <1>2, <1>3, <1>4, LifeInvHolds, PTL DEF LifeSpec, WarnedFirst
=============================================================================
