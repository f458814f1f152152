--------------------------- MODULE Machine_proofs ---------------------------
(***************************************************************************)
(* Proofs about the processes of one machine, which meet in its files:     *)
(* StateLock.tla, the lock around state.json, and BackgroundProcess.tla,   *)
(* the runtime file that names the daemon; for any number of processes,    *)
(* terminals and commands.                                                 *)
(***************************************************************************)
EXTENDS StateLock, BackgroundProcess, TLAPS, FiniteSetTheorems

-----------------------------------------------------------------------------
(***************************************************************************)
(* StateLock: the lock keeps processes apart and their changes in the      *)
(* file, with any times, as long as no lock in use is removed; and none is *)
(* unless an owner is slow or two clear away a dead one's lock at once.    *)
(***************************************************************************)


\* The exclusion itself, and whoever is at work has the lock file.
Excluded ==
  /\ LockTypeOK
  /\ ~robbed => MutualExclusion /\ \A p \in Procs : Holding(p) => lock # Free

\* Beside exclusion: who is about to save has read what the file still holds.
ApartInv ==
  /\ Excluded
  /\ ~robbed /\ ~ReadFails => \A p \in Procs : proc[p].at = "save" => proc[p].copy = file

\* No process is at work at first.
LEMMA ApartInit == LockInit => ApartInv
<1> SUFFICES ASSUME LockInit PROVE ApartInv
  OBVIOUS
<1>1. Resting \in Process
  BY LockAssumption DEF Resting, Process, Places
<1>2. LockTypeOK
  <2>1. lock \in Free .. Stale + 1 /\ deaths \in 0 .. MaxDeaths
    BY LockAssumption DEF LockInit, Free
  <2>2. file \subseteq Procs /\ proc \in [Procs -> Process] /\ robbed \in BOOLEAN /\ crowd \in BOOLEAN
    BY <1>1 DEF LockInit
  <2> QED BY <2>1, <2>2 DEF LockTypeOK
<1>3. \A p \in Procs : proc[p].at = "idle"
  BY DEF LockInit, Resting
<1> QED BY <1>2, <1>3 DEF ApartInv, Excluded, MutualExclusion, Holding

\* Only the task that goes moves, and it gets where it goes.
LEMMA GotoMoves ==
  ASSUME proc \in [Procs -> Process], NEW p \in Procs, NEW place \in Places, Goto(p, place)
  PROVE /\ proc' \in [Procs -> Process]
        /\ proc'[p].at = place /\ proc'[p].copy = proc[p].copy
        /\ \A q \in Procs \ {p} : proc'[q] = proc[q]
BY DEF Goto, Process

LEMMA IdleMoves ==
  ASSUME proc \in [Procs -> Process], NEW p \in Procs, proc' = [proc EXCEPT ![p] = Resting]
  PROVE /\ proc' \in [Procs -> Process]
        /\ proc'[p].at = "idle"
        /\ \A q \in Procs \ {p} : proc'[q] = proc[q]
BY LockAssumption DEF Resting, Process, Places

\* Nobody waits, dies or fails in a way that a process under the lock would notice.
LEMMA QuietStep ==
  ASSUME ApartInv, NEW p \in Procs, Call(p) \/ Stat(p) \/ Die(p)
  PROVE /\ ApartInv'
        /\ UNCHANGED <<lock, file, robbed>>
        /\ proc' \in [Procs -> Process] /\ \A q \in Procs \ {p} : proc'[q] = proc[q]
        /\ proc'[p].at \in {"idle", "open", "remove"}
<1> USE LockAssumption DEF ApartInv, Excluded, LockTypeOK
<1>1. /\ UNCHANGED <<lock, file, robbed>> /\ deaths' \in 0 .. MaxDeaths /\ crowd' \in BOOLEAN
      /\ proc' \in [Procs -> Process] /\ \A q \in Procs \ {p} : proc'[q] = proc[q]
      /\ proc'[p].at \in {"idle", "open", "remove"}
  <2>1. CASE Call(p)
    <3>1. [Resting EXCEPT !.at = "open"] \in Process /\ [Resting EXCEPT !.at = "open"].at = "open"
      BY DEF Resting, Process, Places
    <3> QED BY <2>1, <3>1 DEF Call
  <2>2. CASE Stat(p)
    <3>1. /\ UNCHANGED <<lock, file, deaths, robbed>> /\ crowd' \in BOOLEAN
          /\ \/ Goto(p, "open") \/ Goto(p, "remove")
             \/ proc' = [proc EXCEPT ![p] = Resting]
      BY <2>2 DEF Stat, FoundStale, StatAgain
    <3> QED BY <3>1, GotoMoves, IdleMoves DEF Places
  <2>3. CASE Die(p)
    <3>1. deaths' \in 0 .. MaxDeaths
      BY <2>3 DEF Die
    <3> QED BY <2>3, <3>1, IdleMoves DEF Die
  <2> QED BY <2>1, <2>2, <2>3
<1>2. \A q \in Procs : Holding(q)' => Holding(q)
  BY <1>1 DEF Holding
<1>3. ~robbed => MutualExclusion' /\ \A q \in Procs : Holding(q)' => lock' # Free
  BY <1>1, <1>2 DEF MutualExclusion
<1>4. ~robbed /\ ~ReadFails => \A q \in Procs : proc'[q].at = "save" => proc'[q].copy = file'
  BY <1>1
<1> QED BY <1>1, <1>3, <1>4

LEMMA HolderStep ==
  ASSUME ApartInv, NEW p \in Procs, Open(p) \/ Remove(p) \/ Read(p) \/ Save(p) \/ Release(p)
  PROVE ApartInv'
<1> USE LockAssumption DEF ApartInv, Excluded, LockTypeOK
<1>1. CASE Open(p)
  <2>1. CASE lock = Free
    <3>1. /\ lock' = 0 /\ Goto(p, "read") /\ UNCHANGED <<file, deaths, robbed, crowd>>
      BY <1>1, <2>1 DEF Open
    <3>2. ~robbed => \A q \in Procs : ~Holding(q)
      BY <2>1
    <3> QED BY <3>1, <3>2, GotoMoves DEF Holding, MutualExclusion, Places, Free
  <2>2. CASE lock # Free
    <3>1. UNCHANGED <<lock, file, deaths, robbed, crowd>> /\ Goto(p, "stat")
      BY <1>1, <2>2 DEF Open
    <3> QED BY <3>1, GotoMoves DEF Holding, MutualExclusion, Places
  <2> QED BY <2>1, <2>2
<1>2. CASE Remove(p)
  <2>1. /\ lock' = Free /\ robbed' = (robbed \/ \E q \in Procs \ {p} : Holding(q))
        /\ Goto(p, "open") /\ UNCHANGED <<file, deaths, crowd>>
    BY <1>2 DEF Remove, RemoveLock
  <2>2. robbed' \in BOOLEAN /\ (~robbed' => ~robbed /\ \A q \in Procs \ {p} : ~Holding(q))
    BY <2>1
  <2>3. /\ proc' \in [Procs -> Process] /\ ~Holding(p)'
        /\ \A q \in Procs \ {p} : proc'[q] = proc[q]
    BY <2>1, GotoMoves DEF Holding, Places
  <2>4. ~robbed' => \A q \in Procs : ~Holding(q)'
    BY <2>2, <2>3 DEF Holding
  <2> QED BY <2>1, <2>2, <2>3, <2>4 DEF Holding, MutualExclusion, Free
<1>3. CASE Read(p)
  <2>1. PICK copy \in {file} \cup (IF ReadFails THEN {{}} ELSE {}) :
          proc' = [proc EXCEPT ![p].at = "save", ![p].copy = copy]
    BY <1>3 DEF Read
  <2>2. /\ proc[p].at = "read" /\ UNCHANGED <<lock, file, deaths, robbed, crowd>>
        /\ copy \in SUBSET Procs /\ (~ReadFails => copy = file)
    BY <1>3, <2>1 DEF Read
  <2>3. proc' = [proc EXCEPT ![p] = [proc[p] EXCEPT !.at = "save", !.copy = copy]]
    BY <2>1
  <2>4. /\ [proc[p] EXCEPT !.at = "save", !.copy = copy] \in Process
        /\ [proc[p] EXCEPT !.at = "save", !.copy = copy].at = "save"
        /\ [proc[p] EXCEPT !.at = "save", !.copy = copy].copy = copy
    <3>1. proc[p] \in Process
      OBVIOUS
    <3> QED BY <2>2, <3>1 DEF Process, Places
  <2>5. /\ proc' \in [Procs -> Process] /\ proc'[p].at = "save" /\ proc'[p].copy = copy
        /\ \A q \in Procs \ {p} : proc'[q] = proc[q]
    BY <2>3, <2>4
  <2> QED BY <2>2, <2>5 DEF Holding, MutualExclusion
<1>4. CASE Save(p)
  <2>1. /\ proc[p].at = "save" /\ Goto(p, "release")
        /\ file' \subseteq Procs /\ UNCHANGED <<lock, deaths, robbed, crowd>>
    BY <1>4 DEF Save, Process
  <2>2. ~robbed => \A q \in Procs : proc'[q].at # "save"
    BY <2>1, GotoMoves DEF Holding, MutualExclusion, Places
  <2> QED BY <2>1, <2>2, GotoMoves DEF Holding, MutualExclusion, Places
<1>5. CASE Release(p)
  <2>1. /\ lock' = Free /\ robbed' = (robbed \/ \E q \in Procs \ {p} : Holding(q))
        /\ proc' = [proc EXCEPT ![p] = Resting] /\ UNCHANGED <<file, deaths, crowd>>
    BY <1>5 DEF Release, RemoveLock
  <2>2. robbed' \in BOOLEAN /\ (~robbed' => ~robbed /\ \A q \in Procs \ {p} : ~Holding(q))
    BY <2>1
  <2>3. /\ proc' \in [Procs -> Process] /\ ~Holding(p)'
        /\ \A q \in Procs \ {p} : proc'[q] = proc[q]
    BY <2>1, IdleMoves DEF Holding
  <2>4. ~robbed' => \A q \in Procs : ~Holding(q)'
    BY <2>2, <2>3 DEF Holding
  <2> QED BY <2>1, <2>2, <2>3, <2>4 DEF Holding, MutualExclusion, Free
<1> QED BY <1>1, <1>2, <1>3, <1>4, <1>5

\* The clock moves nobody.
LEMMA TickStep ==
  ASSUME ApartInv, Tick
  PROVE /\ ApartInv'
        /\ UNCHANGED <<file, robbed>>
        /\ \A p \in Procs : proc'[p].at = proc[p].at /\ proc'[p].copy = proc[p].copy
<1> USE LockAssumption DEF ApartInv, Excluded, LockTypeOK
<1>1. /\ lock' \in Free .. Stale + 1 /\ (lock' = Free <=> lock = Free)
      /\ UNCHANGED <<file, deaths, robbed, crowd>>
  BY DEF Tick, Older, Free
<1>2. /\ proc' \in [Procs -> Process]
      /\ \A p \in Procs : proc'[p].at = proc[p].at /\ proc'[p].copy = proc[p].copy
  BY DEF Tick, Process
<1> QED BY <1>1, <1>2 DEF Holding, MutualExclusion

LEMMA ApartStep == ApartInv /\ [LockNext]_lockVars => ApartInv'
<1> SUFFICES ASSUME ApartInv, [LockNext]_lockVars PROVE ApartInv'
  OBVIOUS
<1>1. CASE UNCHANGED lockVars
  BY <1>1 DEF lockVars, ApartInv, Excluded, LockTypeOK, MutualExclusion, Holding
<1> QED BY <1>1, QuietStep, HolderStep, TickStep DEF LockNext, Step

\* Then a step changes the file as one step of StateFile does, if it changes it.
LEMMA ChangesAtOnce ==
  ASSUME ~ReadFails, ApartInv, [LockNext]_lockVars, ~robbed PROVE [OneStep!FileNext]_file
<1>1. CASE UNCHANGED lockVars
  BY <1>1 DEF lockVars
<1>2. ASSUME NEW p \in Procs, Save(p) PROVE [OneStep!FileNext]_file
  BY <1>2 DEF Save, ApartInv, OneStep!FileNext, OneStep!Change
<1>3. ASSUME NEW p \in Procs, Open(p) \/ Remove(p) \/ Read(p) \/ Release(p) PROVE UNCHANGED file
  BY <1>3 DEF Open, Remove, Read, Release
<1>4. ASSUME NEW p \in Procs, Call(p) \/ Stat(p) \/ Die(p) PROVE UNCHANGED file
  BY <1>4, QuietStep
<1> QED BY <1>1, <1>2, <1>3, <1>4, TickStep DEF LockNext, Step

\* Then no saved change is lost to another (upsertSession, updateSession,
\* rewriteSessionsDeviceId), if state.json can be read.
THEOREM ChangesKept == ASSUME ~ReadFails PROVE LockSpec => KeepsChanges
<1>1. ApartInv /\ [LockNext]_lockVars => [~robbed => [OneStep!FileNext]_file]_lockVars
  BY ChangesAtOnce
<1> QED BY <1>1, ApartInit, ApartStep, PTL DEF LockSpec, KeepsChanges

-----------------------------------------------------------------------------
\* Whoever is about to remove a lock is alone with that, and the lock's owner is dead.
Clear ==
  /\ ~robbed
  /\ lock > Stale => \A p \in Procs : ~Holding(p)
  /\ \A p \in Procs : proc[p].at = "remove" => lock > Stale
  /\ \A p, q \in Procs : proc[p].at = "remove" /\ proc[q].at = "remove" => p = q

ClearInv == ApartInv /\ (Prompt /\ ~crowd => Clear)

LEMMA ClearInit == LockInit => ClearInv
<1> SUFFICES ASSUME LockInit PROVE ClearInv
  OBVIOUS
<1>1. lock = Free /\ ~robbed /\ \A p \in Procs : proc[p].at = "idle"
  BY DEF LockInit, Resting
<1> QED BY <1>1, LockAssumption, ApartInit DEF ClearInv, Clear, Free

LEMMA ClearStep == ClearInv /\ [LockNext]_lockVars => ClearInv'
<1> SUFFICES ASSUME ClearInv, [LockNext]_lockVars, Prompt, ~crowd' PROVE Clear'
  BY ApartStep DEF ClearInv
<1> USE LockAssumption
<1>1. crowd => crowd'
  BY DEF LockNext, Step, Call, Open, Stat, FoundStale, StatAgain, Remove, Read, Save, Release,
         Die, Tick, lockVars
<1>2. /\ ApartInv /\ LockTypeOK /\ MutualExclusion /\ Clear
      /\ \A p \in Procs : Holding(p) => lock # Free
  BY <1>1 DEF ClearInv, ApartInv, Excluded, Clear
<1>3. proc \in [Procs -> Process]
  BY <1>2 DEF LockTypeOK
<1>4. ASSUME NEW p \in Procs, Call(p) \/ Die(p) PROVE Clear'
  <2>1. /\ proc'[p].at \in {"idle", "open"} /\ UNCHANGED <<lock, robbed>>
        /\ \A q \in Procs \ {p} : proc'[q] = proc[q]
    BY <1>2, <1>3, <1>4, QuietStep DEF Call, Die, Resting
  <2> QED BY <1>2, <2>1 DEF Clear, Holding
<1>5. ASSUME NEW p \in Procs, Open(p) PROVE Clear'
  <2>1. CASE lock = Free
    <3>1. lock' = 0 /\ Goto(p, "read") /\ UNCHANGED robbed
      BY <1>5, <2>1 DEF Open
    <3>2. \A q \in Procs : proc'[q].at # "remove"
      BY <1>2, <1>3, <2>1, <3>1, GotoMoves DEF Clear, Free, Places
    <3> QED BY <1>2, <3>1, <3>2 DEF Clear
  <2>2. CASE lock # Free
    <3>1. UNCHANGED <<lock, robbed>> /\ Goto(p, "stat")
      BY <1>5, <2>2 DEF Open
    <3> QED BY <1>2, <1>3, <3>1, GotoMoves DEF Clear, Holding, Places
  <2> QED BY <2>1, <2>2
<1>6. ASSUME NEW p \in Procs, Stat(p) PROVE Clear'
  <2>1. UNCHANGED <<lock, robbed>>
    BY <1>6 DEF Stat
  <2>2. CASE lock > Stale
    <3>1. Goto(p, "remove") /\ \A q \in Procs \ {p} : proc[q].at # "remove"
      BY <1>6, <2>2 DEF Stat, FoundStale
    <3>2. proc'[p].at = "remove" /\ \A q \in Procs \ {p} : proc'[q] = proc[q]
      BY <1>3, <3>1, GotoMoves DEF Places
    <3> QED BY <1>2, <2>1, <2>2, <3>1, <3>2 DEF Clear, Holding
  <2>3. CASE ~(lock > Stale)
    <3>1. Goto(p, "open") \/ proc' = [proc EXCEPT ![p] = Resting]
      BY <1>6, <2>3 DEF Stat, StatAgain
    <3>2. proc'[p].at \in {"open", "idle"} /\ \A q \in Procs \ {p} : proc'[q] = proc[q]
      BY <1>3, <3>1, GotoMoves, IdleMoves DEF Places
    <3> QED BY <1>2, <2>1, <3>2 DEF Clear, Holding
  <2> QED BY <2>2, <2>3
<1>7. ASSUME NEW p \in Procs, Remove(p) PROVE Clear'
  <2>1. /\ lock' = Free /\ robbed' = (robbed \/ \E q \in Procs \ {p} : Holding(q))
        /\ proc[p].at = "remove" /\ Goto(p, "open")
    BY <1>7 DEF Remove, RemoveLock
  <2>2. ~robbed'
    BY <1>2, <2>1 DEF Clear
  <2>3. \A q \in Procs : proc'[q].at # "remove"
    BY <1>2, <1>3, <2>1, GotoMoves DEF Clear, Places
  <2> QED BY <2>1, <2>2, <2>3 DEF Clear, Free
<1>8. ASSUME NEW p \in Procs, Read(p) \/ Save(p) PROVE Clear'
  <2>1. Holding(p) /\ UNCHANGED <<lock, robbed>>
    BY <1>8 DEF Read, Save, Holding
  <2>2. proc'[p].at \in {"save", "release"} /\ \A q \in Procs \ {p} : proc'[q] = proc[q]
    BY <1>3, <1>8, GotoMoves DEF Read, Save, Places, Process
  <2> QED BY <1>2, <2>1, <2>2 DEF Clear
<1>9. ASSUME NEW p \in Procs, Release(p) PROVE Clear'
  <2>1. /\ lock' = Free /\ robbed' = (robbed \/ \E q \in Procs \ {p} : Holding(q))
        /\ proc' = [proc EXCEPT ![p] = Resting] /\ Holding(p)
    BY <1>9 DEF Release, RemoveLock, Holding
  <2>2. ~robbed'
    BY <1>2, <2>1 DEF Clear, MutualExclusion
  <2>3. \A q \in Procs : proc'[q].at # "remove"
    BY <1>2, <1>3, <2>1, IdleMoves DEF Clear
  <2> QED BY <2>1, <2>2, <2>3 DEF Clear, Free
<1>10. CASE Tick
  <2>1. (\A p \in Procs : proc'[p].at = proc[p].at) /\ UNCHANGED robbed
    BY <1>2, <1>10, TickStep
  <2>2. lock' > Stale => \A p \in Procs : ~Holding(p)
    <3>1. lock \in Int /\ Older \in Int
      BY <1>2 DEF LockTypeOK, Older, Free
    <3> QED BY <1>10, <3>1 DEF Tick
  <2>3. lock > Stale => lock' > Stale
    BY <1>10 DEF Tick, Older
  <2> QED BY <1>2, <2>1, <2>2, <2>3 DEF Clear, Holding
<1>11. CASE UNCHANGED lockVars
  BY <1>2, <1>11 DEF lockVars, Clear, Holding
<1> QED BY <1>4, <1>5, <1>6, <1>7, <1>8, <1>9, <1>10, <1>11 DEF LockNext, Step

\* Processes that change the state exclude each other as long as no lock in use is
\* removed, and none is unless two of them find the lock of a dead one stale at once or an
\* owner is slow (state-store.ts withStateLock).
THEOREM LockExcludes == LockSpec => []LockInv
<1>1. ClearInv => LockInv
  BY DEF ClearInv, Clear, ApartInv, Excluded, LockInv
<1> QED BY <1>1, ClearInit, ClearStep, PTL DEF LockSpec

\* However many processes die under the lock and however many wait for it, the removal of
\* the stale ones robs nobody, if nobody is slow under the lock (LOCK_STALE_MS) and no two
\* come to remove the same lock at once: what remains is the gap between stat and remove.
THEOREM NoneRobbed == ASSUME Prompt PROVE LockSpec /\ []NoCrowd => []NeverRobbed
<1>1. ClearInv /\ NoCrowd => NeverRobbed
  BY DEF ClearInv, Clear, NoCrowd, NeverRobbed
<1> QED BY <1>1, ClearInit, ClearStep, PTL DEF LockSpec

\* A change under the lock is then the one step that the daemon's other code takes it for:
\* the calls of open, stat, read, rename and remove are StateFile's, with all else stutters,
\* whoever dies in the middle of them.
THEOREM ChangeIsOneStep ==
  ASSUME Prompt, ~ReadFails PROVE LockSpec /\ []NoCrowd => OneStep!FileSpec
<1>1. LockInit => OneStep!FileInit
  BY DEF LockInit, OneStep!FileInit
<1>2. ClearInv /\ NoCrowd /\ [LockNext]_lockVars => [OneStep!FileNext]_file
  BY ChangesAtOnce DEF ClearInv, Clear, NoCrowd
<1> QED BY <1>1, <1>2, ClearInit, ClearStep, PTL DEF LockSpec, OneStep!FileSpec

-----------------------------------------------------------------------------
(***************************************************************************)
(* BackgroundProcess: the commands of a machine and its one daemon.        *)
(***************************************************************************)

\* One command at a time, and one process.
OneAtATime ==
  /\ \A c, e \in Shells : shell[c] # Idle /\ shell[e] # Idle => c = e
  /\ \A p, q \in Living : p = q

\* What the command of the terminal c can rely on between two of its steps: whoever
\* runs is in the file when it looks, nobody is when it starts one, and afterwards
\* nobody but the process it has in hand.
Relies(c) ==
  /\ shell[c].at \in {"read", "stop"} => Living \subseteq {runtime}
  /\ shell[c].at = "spawn" => Living = {}
  /\ shell[c].at \in {"save", "wait"} => Living \subseteq {shell[c].pid}
  /\ shell[c].op = "start" => ~stopped

\* While commands do not overlap.
AloneInv ==
  /\ OneAtATime
  /\ \A c \in Shells : Relies(c)
  /\ ~Busy => \A p \in Living : daemon[p] # "booting" => runtime = p
  /\ stopped => Living = {}

MachineInv == ProcTypeOK /\ (~overlap => AloneInv)

Kinds == {"none", "booting", "up", "leaving", "dead"}
Running == {"booting", "up", "leaving"}
ShellRecord == [op : {"none", "start", "stop"}, at : {"none", "read", "spawn", "save", "stop", "wait"},
                pid : Pids \cup {NoPid}]

\* Who runs after one process became something else.
LEMMA LivingAfter ==
  ASSUME daemon \in [Pids -> Kinds], NEW p \in Pids, NEW w \in Kinds, daemon' = [daemon EXCEPT ![p] = w]
  PROVE  /\ daemon' \in [Pids -> Kinds]
         /\ w \in Running => Living' = Living \cup {p}
         /\ w \notin Running => Living' = Living \ {p}
         /\ daemon'[p] = w /\ \A q \in Pids \ {p} : daemon'[q] = daemon[q]
BY DEF Living, Alive, Kinds, Running

\* The running daemon is one of the processes, and the file names it.
LEMMA StatusIs ==
  ASSUME ProcTypeOK
  PROVE  /\ NoPid \notin Pids /\ Living \subseteq Pids
         /\ Status # NoPid => Status = runtime /\ Status \in Living
         /\ Status = NoPid => runtime \notin Living
BY DEF ProcTypeOK, Status, Living, Alive, NoPid, Pids

\* A process dies, and leaves the connection or the port.
LEMMA DiesTypes ==
  ASSUME ProcTypeOK, NEW p \in Pids, Dies(p)
  PROVE  /\ daemon' \in [Pids -> Kinds] /\ Living' = Living \ {p}
         /\ linked' \subseteq Living' /\ owner' \in linked' \cup {NoPid}
         /\ \A q \in Living' : daemon'[q] = daemon[q]
<1>1. daemon \in [Pids -> Kinds] /\ "dead" \in Kinds /\ "dead" \notin Running
  BY DEF ProcTypeOK, Kinds, Running
<1>2. /\ daemon' \in [Pids -> Kinds] /\ Living' = Living \ {p}
      /\ \A q \in Pids \ {p} : daemon'[q] = daemon[q]
  BY <1>1, LivingAfter DEF Dies
<1>3. Living \subseteq Pids
  BY DEF Living
<1> QED BY <1>2, <1>3 DEF Dies, ProcTypeOK

\* A process goes from one way of running to another.
LEMMA ChangesTypes ==
  ASSUME ProcTypeOK, NEW p \in Living, NEW w \in Running, Changes(p, w)
  PROVE  /\ daemon' \in [Pids -> Kinds] /\ Living' = Living
         /\ linked' \subseteq Living' /\ owner' \in linked' \cup {NoPid}
         /\ daemon'[p] = w /\ \A q \in Living \ {p} : daemon'[q] = daemon[q]
<1>1. daemon \in [Pids -> Kinds] /\ w \in Kinds /\ Living \subseteq Pids
  BY DEF ProcTypeOK, Kinds, Running, Living
<1>2. /\ daemon' \in [Pids -> Kinds] /\ Living' = Living \cup {p}
      /\ daemon'[p] = w /\ \A q \in Pids \ {p} : daemon'[q] = daemon[q]
  BY <1>1, LivingAfter DEF Changes
<1> QED BY <1>1, <1>2 DEF Changes, ProcTypeOK

\* A new process is started.
LEMMA SpawnTypes ==
  ASSUME ProcTypeOK, NEW p \in Pids, Changes(p, "booting")
  PROVE  /\ daemon' \in [Pids -> Kinds] /\ Living' = Living \cup {p}
         /\ linked' \subseteq Living' /\ owner' \in linked' \cup {NoPid}
         /\ daemon'[p] = "booting"
<1>1. daemon \in [Pids -> Kinds] /\ "booting" \in Kinds /\ "booting" \in Running
  BY DEF ProcTypeOK, Kinds, Running
<1>2. daemon' = [daemon EXCEPT ![p] = "booting"]
  BY DEF Changes
<1>3. daemon' \in [Pids -> Kinds] /\ Living' = Living \cup {p} /\ daemon'[p] = "booting"
  BY <1>1, <1>2, LivingAfter
<1> QED BY <1>3 DEF Changes, ProcTypeOK

\* What a step of a process may do to the daemons and the file, in the eyes of the
\* commands: nobody new runs, and who has booted is in the file if it was before.
LEMMA ProcessKeepsAlone ==
  ASSUME AloneInv, UNCHANGED <<shell, stopped>>, Living' \subseteq Living,
         \A q \in Living' : \/ runtime' = q
                            \/ runtime' = runtime /\ (daemon'[q] # "booting" => daemon[q] # "booting")
  PROVE  AloneInv'
<1>1. OneAtATime' /\ (Busy' <=> Busy)
  BY DEF AloneInv, OneAtATime, Busy
<1>2. \A c \in Shells : Relies(c)'
  <2> TAKE c \in Shells
  <2>1. Relies(c)
    BY DEF AloneInv
  <2>2. shell[c].at \in {"read", "stop"} => Living' \subseteq {runtime'}
    BY <2>1 DEF Relies
  <2> QED BY <2>1, <2>2 DEF Relies
<1>3. ~Busy' => \A p \in Living' : daemon'[p] # "booting" => runtime' = p
  BY <1>1 DEF AloneInv
<1>4. stopped' => Living' = {}
  BY DEF AloneInv
<1> QED BY <1>1, <1>2, <1>3, <1>4 DEF AloneInv

\* The steps of the processes.
LEMMA ProcessStep ==
  ASSUME MachineInv, NEW p \in Pids,
         \/ Boot(p) \/ Connect(p) \/ Replaced(p) \/ LoseLink(p)
         \/ Listen(p) \/ PortTaken(p) \/ Exit(p) \/ Crash(p)
  PROVE  MachineInv'
<1> USE DEF MachineInv
<1>0. ProcTypeOK /\ UNCHANGED <<shell, overlap, stopped, program, commands>>
  BY DEF Boot, Connect, Replaced, LoseLink, Listen, PortTaken, Exit, Crash, counts
<1>1. CASE Boot(p)
  <2>1. p \in Living /\ "up" \in Running /\ Changes(p, "up")
    BY <1>1 DEF Boot, Living, Alive, Running
  <2>2. /\ daemon' \in [Pids -> Kinds] /\ Living' = Living
        /\ linked' \subseteq Living' /\ owner' \in linked' \cup {NoPid}
    BY <1>0, <2>1, ChangesTypes
  <2>3. ProcTypeOK'
    BY <1>0, <1>1, <2>2 DEF ProcTypeOK, Kinds, Boot, counts
  <2>4. ~overlap => AloneInv'
    BY <1>0, <1>1, <2>1, <2>2, ProcessKeepsAlone DEF Boot, AloneInv, OneAtATime
  <2> QED BY <1>0, <2>3, <2>4
<1>2. CASE Connect(p) \/ LoseLink(p) \/ Listen(p)
  <2>1. daemon' = daemon /\ runtime' = runtime /\ Living' = Living
    BY <1>2 DEF Connect, LoseLink, Listen, Living, Alive
  <2>2. linked' \subseteq Living' /\ owner' \in linked' \cup {NoPid}
    BY <1>0, <1>2, <2>1 DEF Connect, LoseLink, Listen, ProcTypeOK, Living, Alive
  <2>3. crashes' = crashes /\ losses' \in 0..MaxLosses
    BY <1>0, <1>2, ProcConstants DEF Connect, LoseLink, Listen, ProcTypeOK, counts
  <2>4. ProcTypeOK'
    BY <1>0, <2>1, <2>2, <2>3 DEF ProcTypeOK
  <2>5. ~overlap => AloneInv'
    BY <1>0, <2>1, ProcessKeepsAlone
  <2> QED BY <1>0, <2>4, <2>5
<1>3. CASE Replaced(p)
  <2>1. p \in Living /\ daemon' = [daemon EXCEPT ![p] = "leaving"] /\ linked' = linked \ {p}
        /\ daemon[p] = "up" /\ UNCHANGED <<owner, runtime, counts>> /\ owner # p
    BY <1>3 DEF Replaced, Living, Alive
  <2>2. daemon \in [Pids -> Kinds] /\ "leaving" \in Kinds /\ "leaving" \in Running
    BY <1>0 DEF ProcTypeOK, Kinds, Running
  <2>3. /\ daemon' \in [Pids -> Kinds] /\ Living' = Living \cup {p}
        /\ \A q \in Pids \ {p} : daemon'[q] = daemon[q]
    BY <2>1, <2>2, LivingAfter
  <2>4. ProcTypeOK'
    BY <1>0, <2>1, <2>3 DEF ProcTypeOK, Kinds, counts
  <2>5. ~overlap => AloneInv'
    BY <1>0, <2>1, <2>3, ProcessKeepsAlone DEF Living
  <2> QED BY <1>0, <2>4, <2>5
<1>4. CASE PortTaken(p)
  <2>1. p \in Living /\ "leaving" \in Running /\ Changes(p, "leaving") /\ daemon[p] = "up"
        /\ UNCHANGED <<runtime, counts>>
    BY <1>4 DEF PortTaken, Living, Alive, Running
  <2>2. /\ daemon' \in [Pids -> Kinds] /\ Living' = Living
        /\ linked' \subseteq Living' /\ owner' \in linked' \cup {NoPid}
        /\ \A q \in Living \ {p} : daemon'[q] = daemon[q]
    BY <1>0, <2>1, ChangesTypes
  <2>3. ProcTypeOK'
    BY <1>0, <2>1, <2>2 DEF ProcTypeOK, Kinds, counts
  <2>4. ~overlap => AloneInv'
    BY <1>0, <2>1, <2>2, ProcessKeepsAlone
  <2> QED BY <1>0, <2>3, <2>4
<1>5. CASE Exit(p) \/ Crash(p)
  <2>1. /\ Dies(p) /\ runtime' \in {runtime, ClearedOf(p)} /\ losses' = losses /\ crashes' \in 0..MaxCrashes
        /\ p \in Living
    BY <1>0, <1>5, ProcConstants DEF Exit, Crash, ProcTypeOK, counts, Living, Alive
  <2>2. /\ daemon' \in [Pids -> Kinds] /\ Living' = Living \ {p}
        /\ linked' \subseteq Living' /\ owner' \in linked' \cup {NoPid}
    BY <1>0, <2>1, DiesTypes
  <2>3. ProcTypeOK'
    BY <1>0, <2>1, <2>2 DEF ProcTypeOK, Kinds, ClearedOf
  <2>4. ~overlap => Living' = {}
    BY <2>1, <2>2 DEF AloneInv, OneAtATime
  <2>5. ~overlap => AloneInv'
    BY <1>0, <2>2, <2>4, ProcessKeepsAlone
  <2> QED BY <1>0, <2>3, <2>5
<1> QED BY <1>1, <1>2, <1>3, <1>4, <1>5

\* A command goes on.
LEMMA GoesTypes ==
  ASSUME shell \in [Shells -> ShellRecord], NEW c \in Shells, NEW at \in {"none", "read", "spawn", "save", "stop", "wait"},
         NEW p \in Pids \cup {NoPid}, Goes(c, at, p)
  PROVE  /\ shell' \in [Shells -> ShellRecord]
         /\ shell'[c].op = shell[c].op /\ shell'[c].at = at /\ shell'[c].pid = p
         /\ \A e \in Shells \ {c} : shell'[e] = shell[e]
BY DEF Goes, ShellRecord

\* Or it ends.
LEMMA EndsTypes ==
  ASSUME shell \in [Shells -> ShellRecord], NEW c \in Shells, Ends(c)
  PROVE  /\ shell' \in [Shells -> ShellRecord] /\ shell'[c] = Idle
         /\ \A e \in Shells \ {c} : shell'[e] = shell[e]
BY DEF Ends, ShellRecord, Idle

\* The one command there is goes on, and can rely on what its next step wants.
LEMMA CommandGoesAlone ==
  ASSUME AloneInv, NEW c \in Shells, shell[c] # Idle, shell' \in [Shells -> ShellRecord],
         shell'[c].op = shell[c].op, shell'[c].at # "none",
         \A e \in Shells \ {c} : shell'[e] = shell[e], stopped' = stopped,
         shell[c].op = "start" \/ Living' \subseteq Living,
         \A p, q \in Living' : p = q, Relies(c)'
  PROVE  AloneInv'
<1>1. \A e \in Shells \ {c} : shell'[e] = Idle
  BY DEF AloneInv, OneAtATime
<1>2. OneAtATime'
  BY <1>1 DEF OneAtATime
<1>3. shell'[c] # Idle /\ Busy'
  BY DEF Idle, Busy
<1>4. \A e \in Shells \ {c} : Relies(e)'
  BY <1>1 DEF Relies, Idle
<1>5. stopped' => Living' = {}
  BY DEF AloneInv, Relies
<1> QED BY <1>2, <1>3, <1>4, <1>5 DEF AloneInv

\* The one command there is ends, with nobody running unless the file says so.
LEMMA CommandEndsAlone ==
  ASSUME AloneInv, NEW c \in Shells, shell[c] # Idle, shell'[c] = Idle,
         \A e \in Shells \ {c} : shell'[e] = shell[e],
         Living' \subseteq {runtime'}, stopped' => Living' = {}
  PROVE  AloneInv'
<1>1. \A e \in Shells : shell'[e] = Idle
  BY DEF AloneInv, OneAtATime
<1>2. OneAtATime'
  BY <1>1 DEF OneAtATime
<1>3. \A e \in Shells : Relies(e)'
  BY <1>1 DEF Relies, Idle
<1> QED BY <1>2, <1>3 DEF AloneInv

\* The end of a stop, or of the stop in a start, when nobody runs any more.
LEMMA StopEndsAlone ==
  ASSUME ProcTypeOK, NEW c \in Shells, shell[c] # Idle, StopEnds(c)
  PROVE  /\ shell' \in [Shells -> ShellRecord] /\ stopped' \in BOOLEAN
         /\ AloneInv /\ Living' = {} => AloneInv'
<1>0. shell \in [Shells -> ShellRecord] /\ NoPid \in Pids \cup {NoPid}
  BY DEF ProcTypeOK, ShellRecord
<1>1. CASE shell[c].op = "start"
  <2>1. Goes(c, "spawn", NoPid) /\ stopped' = stopped
    BY <1>1 DEF StopEnds
  <2>2. /\ shell' \in [Shells -> ShellRecord]
        /\ shell'[c].op = shell[c].op /\ shell'[c].at = "spawn"
        /\ \A e \in Shells \ {c} : shell'[e] = shell[e]
    BY <1>0, <2>1, GoesTypes
  <2>3. AloneInv /\ Living' = {} => Relies(c)'
    BY <2>1, <2>2 DEF AloneInv, Relies
  <2>4. AloneInv /\ Living' = {} => AloneInv'
    BY <1>1, <2>1, <2>2, <2>3, CommandGoesAlone
  <2> QED BY <2>1, <2>2, <2>4 DEF ProcTypeOK
<1>2. CASE shell[c].op # "start"
  <2>1. Ends(c) /\ stopped' = TRUE
    BY <1>2 DEF StopEnds
  <2>2. /\ shell' \in [Shells -> ShellRecord] /\ shell'[c] = Idle
        /\ \A e \in Shells \ {c} : shell'[e] = shell[e]
    BY <1>0, <2>1, EndsTypes
  <2>3. AloneInv /\ Living' = {} => AloneInv'
    BY <2>1, <2>2, CommandEndsAlone
  <2> QED BY <2>1, <2>2, <2>3
<1> QED BY <1>1, <1>2

\* The file's types, when a step of a command leaves the rest.
LEMMA RestOfTypes ==
  ASSUME ProcTypeOK, daemon' \in [Pids -> Kinds], linked' \subseteq Living', owner' \in linked' \cup {NoPid},
         runtime' \in Pids \cup {NoPid}, shell' \in [Shells -> ShellRecord], stopped' \in BOOLEAN,
         overlap' \in BOOLEAN, commands' \in 0..MaxCommands, UNCHANGED <<program, counts>>
  PROVE  ProcTypeOK'
BY DEF ProcTypeOK, Kinds, ShellRecord, counts

\* A start looks who runs.
LEMMA StartReadStep == ASSUME MachineInv, NEW c \in Shells, StartRead(c) PROVE MachineInv'
<1>0. /\ ProcTypeOK /\ shell \in [Shells -> ShellRecord] /\ shell[c] # Idle
      /\ shell[c].op = "start" /\ shell[c].at = "read"
      /\ runtime' = Status /\ UNCHANGED <<program, procs, commands, counts, overlap, stopped>>
  BY DEF MachineInv, ProcTypeOK, ShellRecord, StartRead, At, Idle
<1>1. Living' = Living /\ daemon' = daemon /\ NoPid \in Pids \cup {NoPid} /\ Status \in Pids \cup {NoPid}
  BY <1>0, StatusIs DEF procs, Living, Alive
<1>2. AloneInv => Living \subseteq {runtime}
  BY <1>0 DEF AloneInv, Relies
<1>3. ASSUME NEW at \in {"spawn", "stop"}, Goes(c, at, NoPid), at = "spawn" => Status = NoPid
      PROVE  shell' \in [Shells -> ShellRecord] /\ (AloneInv => AloneInv')
  <2>1. /\ shell' \in [Shells -> ShellRecord]
        /\ shell'[c].op = shell[c].op /\ shell'[c].at = at
        /\ \A e \in Shells \ {c} : shell'[e] = shell[e]
    BY <1>0, <1>3, GoesTypes
  <2>2. AloneInv => Relies(c)'
    <3> SUFFICES ASSUME AloneInv PROVE Relies(c)'
      OBVIOUS
    <3>1. at = "spawn" => Living = {}
      BY <1>0, <1>2, <1>3, StatusIs
    <3>2. at = "stop" => Living \subseteq {Status}
      BY <1>0, <1>2, StatusIs
    <3> QED BY <1>0, <1>1, <2>1, <3>1, <3>2 DEF AloneInv, Relies
  <2>3. AloneInv => AloneInv'
    BY <1>0, <1>1, <2>1, <2>2, CommandGoesAlone DEF AloneInv, OneAtATime
  <2> QED BY <2>1, <2>3
<1>4. ASSUME Ends(c), Status # NoPid
      PROVE  shell' \in [Shells -> ShellRecord] /\ (AloneInv => AloneInv')
  <2>1. /\ shell' \in [Shells -> ShellRecord] /\ shell'[c] = Idle
        /\ \A e \in Shells \ {c} : shell'[e] = shell[e]
    BY <1>0, <1>4, EndsTypes
  <2>2. AloneInv => Living' \subseteq {runtime'}
    BY <1>0, <1>1, <1>2, <1>4, StatusIs
  <2>3. AloneInv => AloneInv'
    BY <1>0, <1>1, <2>1, <2>2, CommandEndsAlone DEF AloneInv
  <2> QED BY <2>1, <2>3
<1>5. shell' \in [Shells -> ShellRecord] /\ (AloneInv => AloneInv')
  BY <1>3, <1>4 DEF StartRead
<1>6. ProcTypeOK'
  BY <1>0, <1>1, <1>5, RestOfTypes DEF procs, ProcTypeOK, Kinds
<1> QED BY <1>0, <1>5, <1>6 DEF MachineInv

\* A start clears the file and makes the process.
LEMMA StartSpawnStep == ASSUME MachineInv, NEW c \in Shells, StartSpawn(c) PROVE MachineInv'
<1>0. /\ ProcTypeOK /\ shell \in [Shells -> ShellRecord] /\ shell[c] # Idle
      /\ shell[c].op = "start" /\ shell[c].at = "spawn"
      /\ runtime' = NoPid /\ UNCHANGED <<program, commands, counts, overlap, stopped>>
  BY DEF MachineInv, ProcTypeOK, ShellRecord, StartSpawn, At, Idle
<1>1. PICK p \in Pids : Changes(p, "booting") /\ Goes(c, "save", p)
  BY DEF StartSpawn
<1>2. /\ daemon' \in [Pids -> Kinds] /\ Living' = Living \cup {p}
      /\ linked' \subseteq Living' /\ owner' \in linked' \cup {NoPid}
  BY <1>0, <1>1, SpawnTypes
<1>3. /\ shell' \in [Shells -> ShellRecord]
      /\ shell'[c].op = shell[c].op /\ shell'[c].at = "save" /\ shell'[c].pid = p
      /\ \A e \in Shells \ {c} : shell'[e] = shell[e]
  BY <1>0, <1>1, GoesTypes
<1>4. AloneInv => Living' = {p}
  BY <1>0, <1>2 DEF AloneInv, Relies
<1>5. AloneInv => Relies(c)'
  BY <1>0, <1>3, <1>4 DEF AloneInv, Relies
<1>6. AloneInv => AloneInv'
  BY <1>0, <1>3, <1>4, <1>5, CommandGoesAlone
<1>7. ProcTypeOK'
  BY <1>0, <1>2, <1>3, RestOfTypes DEF ProcTypeOK
<1> QED BY <1>0, <1>6, <1>7 DEF MachineInv

\* A start records the process and ends.
LEMMA StartSaveStep == ASSUME MachineInv, NEW c \in Shells, StartSave(c) PROVE MachineInv'
<1>0. /\ ProcTypeOK /\ shell \in [Shells -> ShellRecord] /\ shell[c] # Idle
      /\ shell[c].op = "start" /\ shell[c].at = "save" /\ shell[c].pid \in Pids \cup {NoPid}
      /\ runtime' = shell[c].pid /\ Ends(c) /\ UNCHANGED <<program, procs, commands, counts, overlap, stopped>>
  BY DEF MachineInv, ProcTypeOK, ShellRecord, StartSave, At, Idle
<1>1. Living' = Living /\ daemon' = daemon
  BY <1>0 DEF procs, Living, Alive
<1>2. /\ shell' \in [Shells -> ShellRecord] /\ shell'[c] = Idle
      /\ \A e \in Shells \ {c} : shell'[e] = shell[e]
  BY <1>0, EndsTypes
<1>3. AloneInv => Living' \subseteq {runtime'} /\ (stopped' => Living' = {})
  BY <1>0, <1>1 DEF AloneInv, Relies
<1>4. AloneInv => AloneInv'
  BY <1>0, <1>2, <1>3, CommandEndsAlone
<1>5. ProcTypeOK'
  BY <1>0, <1>1, <1>2, RestOfTypes DEF procs, ProcTypeOK, Kinds
<1> QED BY <1>0, <1>4, <1>5 DEF MachineInv

\* A stop finds nobody, or sends SIGTERM to whom the file names.
LEMMA StopReadStep == ASSUME MachineInv, NEW c \in Shells, StopRead(c) PROVE MachineInv'
<1>0. /\ ProcTypeOK /\ shell \in [Shells -> ShellRecord] /\ shell[c] # Idle
      /\ shell[c].at \in {"read", "stop"} /\ UNCHANGED <<program, commands, counts, overlap>>
  BY DEF MachineInv, ProcTypeOK, ShellRecord, StopRead, At, Idle
<1>1. AloneInv => Living \subseteq {runtime}
  BY <1>0 DEF AloneInv, Relies
<1>2. CASE Status = NoPid
  <2>1. runtime' = NoPid /\ StopEnds(c) /\ UNCHANGED procs
    BY <1>2 DEF StopRead
  <2>2. Living' = Living /\ daemon' = daemon
    BY <2>1 DEF procs, Living, Alive
  <2>3. AloneInv => Living' = {}
    BY <1>0, <1>1, <1>2, <2>2, StatusIs
  <2>4. shell' \in [Shells -> ShellRecord] /\ stopped' \in BOOLEAN /\ (AloneInv => AloneInv')
    BY <1>0, <2>1, <2>3, StopEndsAlone
  <2>5. ProcTypeOK'
    BY <1>0, <2>1, <2>2, <2>4, RestOfTypes DEF procs, ProcTypeOK, Kinds
  <2> QED BY <1>0, <2>4, <2>5 DEF MachineInv
<1>3. CASE Status # NoPid
  <2>1. Terminate(Status) /\ Goes(c, "wait", Status) /\ UNCHANGED <<runtime, stopped>>
    BY <1>3 DEF StopRead
  <2>2. Status = runtime /\ Status \in Living /\ Status \in Pids
    BY <1>0, <1>3, StatusIs
  <2>3. /\ daemon' \in [Pids -> Kinds] /\ Living' \subseteq Living
        /\ linked' \subseteq Living' /\ owner' \in linked' \cup {NoPid}
    <3>1. CASE Changes(Status, "leaving")
      BY <1>0, <2>2, <3>1, ChangesTypes DEF Running
    <3>2. CASE Dies(Status)
      BY <1>0, <2>2, <3>2, DiesTypes
    <3> QED BY <2>1, <3>1, <3>2 DEF Terminate
  <2>4. /\ shell' \in [Shells -> ShellRecord]
        /\ shell'[c].op = shell[c].op /\ shell'[c].at = "wait" /\ shell'[c].pid = Status
        /\ \A e \in Shells \ {c} : shell'[e] = shell[e]
    BY <1>0, <2>1, <2>2, GoesTypes
  <2>5. AloneInv => Living' \subseteq {Status}
    BY <1>1, <2>2, <2>3
  <2>6. AloneInv => Relies(c)'
    BY <2>1, <2>4, <2>5 DEF AloneInv, Relies
  <2>7. AloneInv => AloneInv'
    BY <1>0, <2>1, <2>3, <2>4, <2>5, <2>6, CommandGoesAlone
  <2>8. ProcTypeOK'
    BY <1>0, <2>1, <2>3, <2>4, RestOfTypes DEF ProcTypeOK
  <2> QED BY <1>0, <2>7, <2>8 DEF MachineInv
<1> QED BY <1>2, <1>3

\* A stop sees the process gone, or kills it after two seconds.
LEMMA StopWaitStep == ASSUME MachineInv, NEW c \in Shells, StopSeen(c) \/ StopForce(c) PROVE MachineInv'
<1> DEFINE p == shell[c].pid
<1>0. /\ ProcTypeOK /\ shell \in [Shells -> ShellRecord] /\ shell[c] # Idle
      /\ shell[c].at = "wait" /\ runtime' = ClearedOf(p) /\ StopEnds(c)
      /\ UNCHANGED <<program, commands, counts, overlap>>
  BY DEF MachineInv, ProcTypeOK, ShellRecord, StopSeen, StopForce, Idle
<1>1. /\ daemon' \in [Pids -> Kinds] /\ Living' \subseteq Living /\ p \notin Living'
      /\ linked' \subseteq Living' /\ owner' \in linked' \cup {NoPid}
  <2>1. CASE StopSeen(c)
    <3>1. UNCHANGED procs /\ p \notin Living
      BY <2>1 DEF StopSeen, Living
    <3>2. Living' = Living
      BY <3>1 DEF procs, Living, Alive
    <3> QED BY <1>0, <3>1, <3>2 DEF ProcTypeOK, procs, Kinds
  <2>2. CASE StopForce(c)
    <3>1. Dies(p) /\ p \in Pids
      BY <2>2 DEF StopForce, Alive
    <3> QED BY <1>0, <3>1, DiesTypes
  <2> QED BY <2>1, <2>2
<1>2. AloneInv => Living' = {}
  BY <1>0, <1>1 DEF AloneInv, Relies
<1>3. shell' \in [Shells -> ShellRecord] /\ stopped' \in BOOLEAN /\ (AloneInv => AloneInv')
  BY <1>0, <1>2, StopEndsAlone
<1>4. runtime' \in Pids \cup {NoPid}
  BY <1>0 DEF ClearedOf, ProcTypeOK
<1>5. ProcTypeOK'
  BY <1>0, <1>1, <1>3, <1>4, RestOfTypes DEF ProcTypeOK
<1> QED BY <1>0, <1>3, <1>5 DEF MachineInv

\* A command is typed: if it overlaps with nothing it finds whoever runs recorded.
LEMMA TypeStep ==
  ASSUME MachineInv, NEW c \in Shells, NEW op \in {"start", "stop"}, Type(c, op)
  PROVE  MachineInv'
<1> DEFINE new == [op |-> op, at |-> "read", pid |-> NoPid]
<1>0. /\ ProcTypeOK /\ shell \in [Shells -> ShellRecord] /\ shell' = [shell EXCEPT ![c] = new]
      /\ overlap' = (overlap \/ Busy \/ Unrecorded) /\ stopped' = (stopped /\ op = "stop")
      /\ commands' = commands + 1 /\ commands < MaxCommands /\ UNCHANGED <<program, procs, runtime, counts>>
  BY DEF MachineInv, ProcTypeOK, ShellRecord, Type
<1>1. Living' = Living /\ daemon' = daemon
  BY <1>0 DEF procs, Living, Alive
<1>2. new \in ShellRecord /\ new.op = op /\ new.at = "read" /\ new # Idle
  BY DEF ShellRecord, Idle
<1> HIDE DEF new
<1>3. /\ shell' \in [Shells -> ShellRecord] /\ shell'[c] = new
      /\ \A e \in Shells \ {c} : shell'[e] = shell[e]
  BY <1>0, <1>2
<1>4. ASSUME ~overlap' PROVE AloneInv'
  <2>1. ~overlap /\ ~Busy /\ \A p \in Living : runtime = p
    BY <1>0, <1>4 DEF Unrecorded
  <2>2. AloneInv /\ \A e \in Shells : shell[e] = Idle
    BY <2>1 DEF MachineInv, Busy
  <2>3. OneAtATime'
    BY <1>1, <1>3, <2>2 DEF AloneInv, OneAtATime
  <2>4. op = "start" => ~stopped'
    BY <1>0
  <2>5. \A e \in Shells : Relies(e)'
    <3>1. Relies(c)'
      BY <1>0, <1>1, <1>2, <1>3, <2>1, <2>4 DEF Relies
    <3>2. \A e \in Shells \ {c} : Relies(e)'
      BY <1>3, <2>2 DEF Relies, Idle
    <3> QED BY <3>1, <3>2
  <2>6. Busy'
    BY <1>2, <1>3 DEF Busy
  <2>7. stopped' => Living' = {}
    BY <1>0, <1>1, <2>2 DEF AloneInv
  <2> QED BY <2>3, <2>5, <2>6, <2>7 DEF AloneInv
<1>5. commands' \in 0..MaxCommands /\ overlap' \in BOOLEAN /\ stopped' \in BOOLEAN
  BY <1>0, ProcConstants DEF ProcTypeOK
<1>6. ProcTypeOK'
  BY <1>0, <1>1, <1>3, <1>5, RestOfTypes DEF procs, ProcTypeOK, Kinds
<1> QED BY <1>4, <1>6 DEF MachineInv

\* A daemon in the foreground: it overlaps with any other and with any command.
LEMMA ForegroundStep == ASSUME MachineInv, NEW p \in Pids, Foreground(p) PROVE MachineInv'
<1>0. /\ ProcTypeOK /\ Changes(p, "booting")
      /\ overlap' = (overlap \/ Busy \/ Living # {}) /\ stopped' = FALSE
      /\ commands' = commands + 1 /\ commands < MaxCommands /\ UNCHANGED <<program, runtime, shell, counts>>
  BY DEF MachineInv, Foreground
<1>1. /\ daemon' \in [Pids -> Kinds] /\ Living' = Living \cup {p} /\ daemon'[p] = "booting"
      /\ linked' \subseteq Living' /\ owner' \in linked' \cup {NoPid}
  BY <1>0, SpawnTypes
<1>2. ASSUME ~overlap' PROVE AloneInv'
  <2>1. \A e \in Shells : shell'[e] = Idle
    BY <1>0, <1>2 DEF Busy
  <2>2. Living' = {p}
    BY <1>0, <1>1, <1>2
  <2>3. \A e \in Shells : Relies(e)'
    BY <2>1 DEF Relies, Idle
  <2> QED BY <1>0, <1>1, <2>1, <2>2, <2>3 DEF AloneInv, OneAtATime
<1>3. commands' \in 0..MaxCommands /\ overlap' \in BOOLEAN /\ shell \in [Shells -> ShellRecord]
  BY <1>0, ProcConstants DEF ProcTypeOK, ShellRecord
<1>4. ProcTypeOK'
  BY <1>0, <1>1, <1>3, RestOfTypes DEF ProcTypeOK
<1> QED BY <1>2, <1>4 DEF MachineInv

\* Nothing runs at first.
LEMMA MachineInvInit == Init => MachineInv
<1> SUFFICES ASSUME Init PROVE MachineInv
  OBVIOUS
<1>1. Living = {} /\ ~Busy
  BY DEF Init, Living, Alive, Busy
<1>2. ProcTypeOK
  <2>1. commands \in 0..MaxCommands /\ crashes \in 0..MaxCrashes /\ losses \in 0..MaxLosses
    BY ProcConstants DEF Init
  <2>2. Idle \in ShellRecord
    BY DEF Idle, ShellRecord
  <2>3. shell \in [Shells -> ShellRecord]
    BY <2>2 DEF Init
  <2>4. daemon \in [Pids -> Kinds]
    BY DEF Init, Kinds
  <2> QED BY <2>1, <2>3, <2>4 DEF Init, ProcTypeOK, ShellRecord, Kinds
<1>3. \A c \in Shells : Relies(c)
  BY DEF Init, Relies, Idle
<1> QED BY <1>1, <1>2, <1>3 DEF Init, MachineInv, AloneInv, OneAtATime

\* Every step keeps the invariant.
LEMMA MachineInvStep == MachineInv /\ [Next]_vars => MachineInv'
<1> SUFFICES ASSUME MachineInv, [Next]_vars PROVE MachineInv'
  OBVIOUS
<1>1. CASE UNCHANGED vars
  <2>1. UNCHANGED <<program, daemon, linked, owner, runtime, shell, commands, crashes, losses, overlap, stopped>>
    BY <1>1 DEF vars
  <2>2. Living' = Living /\ Busy' = Busy
    BY <2>1 DEF Living, Alive, Busy
  <2>3. ProcTypeOK'
    BY <2>1, <2>2 DEF MachineInv, ProcTypeOK
  <2>4. AloneInv => AloneInv'
    BY <2>1, <2>2 DEF AloneInv, OneAtATime, Relies
  <2> QED BY <2>1, <2>3, <2>4 DEF MachineInv
<1>2. ASSUME NEW c \in Shells, Command(c) PROVE MachineInv'
  BY <1>2, StartReadStep, StartSpawnStep, StartSaveStep, StopReadStep, StopWaitStep DEF Command
<1> QED BY <1>1, <1>2, ProcessStep, ForegroundStep, TypeStep DEF Next

\* The invariant holds all along.
LEMMA MachineInvariant == ProcSpec => []MachineInv
BY MachineInvInit, MachineInvStep, PTL DEF ProcSpec

\* Commands typed one after the other never have two daemons running, whatever
\* crashed in between and however slowly a daemon stops, and a daemon that has booted
\* is the one the file names whenever no command is under way.
THEOREM OneDaemonRecorded == ProcSpec => []ProcInv
<1>1. MachineInv => ProcInv
  <2> SUFFICES ASSUME MachineInv PROVE ProcInv
    OBVIOUS
  <2>1. OneDaemon
    <3> SUFFICES ASSUME ~overlap PROVE Cardinality(Living) <= 1
      BY DEF OneDaemon
    <3>1. CASE Living = {}
      BY <3>1, FS_EmptySet
    <3>2. CASE Living # {}
      <4>1. PICK p : Living = {p}
        BY <3>2 DEF MachineInv, AloneInv, OneAtATime
      <4>2. Cardinality({p}) = 1
        BY FS_Singleton
      <4> QED BY <4>1, <4>2
    <3> QED BY <3>1, <3>2
  <2>2. Recorded
    BY DEF MachineInv, AloneInv, Recorded
  <2> QED BY <2>1, <2>2 DEF MachineInv, ProcInv
<1> QED BY <1>1, MachineInvariant, PTL

\* After a stop nothing is left running until something is started.
THEOREM StopLeavesNothing == ProcSpec => []StoppedMeansGone
<1>1. MachineInv => StoppedMeansGone
  BY DEF MachineInv, AloneInv, StoppedMeansGone
<1> QED BY <1>1, MachineInvariant, PTL
=============================================================================
