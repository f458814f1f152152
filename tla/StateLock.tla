----------------------------- MODULE StateLock -----------------------------
(***************************************************************************)
(* agent/src/state-store.ts, withStateLock and the functions that change   *)
(* state.json under it (upsertSession, updateSession,                      *)
(* rewriteSessionsDeviceId): the daemon and the commands typed in          *)
(* terminals are processes of their own, and a lock file made with "wx"    *)
(* keeps their read, change and rename apart.  A lock that is older than   *)
(* LOCK_STALE_MS is taken for one whose owner died and is removed.         *)
(*                                                                         *)
(* Each process changes a part of the state of its own; the file is the    *)
(* set of the processes whose change it holds.                             *)
(***************************************************************************)
EXTENDS Integers

CONSTANTS
  Procs,       \* the daemon and the commands
  Stale,       \* LOCK_STALE_MS, in ticks of the clock
  Timeout,     \* LOCK_TIMEOUT_MS, likewise
  Prompt,      \* a process that holds the lock is done before it counts as stale
  ReadFails,   \* a read of state.json may fail, for want of file descriptors or a disk
  MaxDeaths   \* bound on how often a process dies in the middle of its call

ASSUME LockAssumption ==
  Stale \in Nat /\ Timeout \in Nat /\ Prompt \in BOOLEAN /\ ReadFails \in BOOLEAN
  /\ MaxDeaths \in Nat

VARIABLES
  lock,      \* the lock file: its age in ticks, at most Stale + 1, or Free
  file,      \* state.json
  proc,      \* where each process is, the state it read, how long it has waited
  deaths,
  robbed,    \* history: a lock was removed while another process was at work under it
  crowd      \* history: two processes were about to remove the lock they had found stale

lockVars == <<lock, file, proc, deaths, robbed, crowd>>

Free == -1
Places == {"idle", "open", "stat", "remove", "read", "save", "release"}
Process == [at : Places, copy : SUBSET Procs, waited : 0 .. Timeout]
Resting == [at |-> "idle", copy |-> {}, waited |-> 0]

\* Between openSync and the end of the finally block.
Holding(p) == proc[p].at \in {"read", "save", "release"}

Goto(p, place) == proc' = [proc EXCEPT ![p].at = place]

LockInit ==
  /\ lock = Free
  /\ file = {}
  /\ proc = [p \in Procs |-> Resting]
  /\ deaths = 0
  /\ robbed = FALSE /\ crowd = FALSE

\* A function that changes the state is called.
Call(p) ==
  /\ proc[p].at = "idle"
  /\ proc' = [proc EXCEPT ![p] = [Resting EXCEPT !.at = "open"]]
  /\ UNCHANGED <<lock, file, deaths, robbed, crowd>>

\* openSync(lockPath, "wx")
Open(p) ==
  /\ proc[p].at = "open"
  /\ IF lock = Free THEN lock' = 0 /\ Goto(p, "read")
                    ELSE Goto(p, "stat") /\ UNCHANGED lock
  /\ UNCHANGED <<file, deaths, robbed, crowd>>

\* The history is kept where a process turns to remove the lock.
FoundStale(p) ==
  /\ Goto(p, "remove")
  /\ crowd' = (crowd \/ \E q \in Procs \ {p} : proc[q].at = "remove")

\* A lock that is gone meanwhile or fresh: the call fails when its time is up, and tries
\* again after a poll if it is not.
StatAgain(p) ==
  /\ CASE lock = Free -> Goto(p, "open")
       [] lock # Free /\ proc[p].waited = Timeout -> proc' = [proc EXCEPT ![p] = Resting]
       [] lock # Free /\ proc[p].waited # Timeout -> Goto(p, "open")
  /\ UNCHANGED crowd

\* Mutant of Stat: a lock is never taken for stale.
StatNever(p) ==
  /\ proc[p].at = "stat" /\ StatAgain(p)
  /\ UNCHANGED <<lock, file, deaths, robbed>>

\* Mutant of Stat: a lock counts as stale one tick too early.
StatEarly(p) ==
  /\ proc[p].at = "stat"
  /\ IF lock >= Stale THEN FoundStale(p) ELSE StatAgain(p)
  /\ UNCHANGED <<lock, file, deaths, robbed>>

\* statSync: the lock is stale, or the process is to try again.
Stat(p) ==
  /\ proc[p].at = "stat"
  /\ IF lock > Stale THEN FoundStale(p) ELSE StatAgain(p)
  /\ UNCHANGED <<lock, file, deaths, robbed>>

\* rmSync removes the file that is there now, whoever made it.
RemoveLock(p) ==
  /\ lock' = Free
  /\ robbed' = (robbed \/ \E q \in Procs \ {p} : Holding(q))

Remove(p) ==
  /\ proc[p].at = "remove"
  /\ RemoveLock(p)
  /\ Goto(p, "open")
  /\ UNCHANGED <<file, deaths, crowd>>

\* Mutant of Read: the file is caught half written, which counts as no sessions.
ReadNothing(p) ==
  /\ proc[p].at = "read"
  /\ proc' = [proc EXCEPT ![p].at = "save", ![p].copy = {}]
  /\ UNCHANGED <<lock, file, deaths, robbed, crowd>>

\* loadStateFromDisk: what cannot be read or parsed counts as no sessions.
Read(p) ==
  /\ proc[p].at = "read"
  /\ \E copy \in {file} \cup (IF ReadFails THEN {{}} ELSE {}) :
       proc' = [proc EXCEPT ![p].at = "save", ![p].copy = copy]
  /\ UNCHANGED <<lock, file, deaths, robbed, crowd>>

\* saveStateToDisk: writes a file of its own and renames it, or fails (a full disk).
Save(p) ==
  /\ proc[p].at = "save"
  /\ file' = proc[p].copy \cup {p} \/ UNCHANGED file
  /\ Goto(p, "release")
  /\ UNCHANGED <<lock, deaths, robbed, crowd>>

\* finally
Release(p) ==
  /\ proc[p].at = "release"
  /\ RemoveLock(p)
  /\ proc' = [proc EXCEPT ![p] = Resting]
  /\ UNCHANGED <<file, deaths, crowd>>

\* The process dies where it is; another may take its place.
Die(p) ==
  /\ proc[p].at # "idle" /\ deaths < MaxDeaths
  /\ deaths' = deaths + 1
  /\ proc' = [proc EXCEPT ![p] = Resting]
  /\ UNCHANGED <<lock, file, robbed, crowd>>

\* Time passes, for the lock's age and for those who wait.
Older == IF lock = Free \/ lock > Stale THEN lock ELSE lock + 1
Tick ==
  /\ Prompt => \A p \in Procs : Holding(p) => Older <= Stale
  /\ lock' = Older
  /\ proc' = [p \in Procs |-> IF proc[p].at \in {"open", "stat", "remove"} /\ proc[p].waited < Timeout
                              THEN [proc[p] EXCEPT !.waited = @ + 1] ELSE proc[p]]
  /\ UNCHANGED <<file, deaths, robbed, crowd>>

Step(p) == Open(p) \/ Stat(p) \/ Remove(p) \/ Read(p) \/ Save(p) \/ Release(p)

LockNext ==
  \/ \E p \in Procs : Call(p) \/ Step(p) \/ Die(p)
  \/ Tick

LockSpec == LockInit /\ [][LockNext]_lockVars

\* Time passes, processes go on, and there is always somebody who calls again.
LockFairSpec ==
  /\ LockSpec /\ WF_lockVars(Tick)
  /\ \A p \in Procs : WF_lockVars(Step(p)) /\ WF_lockVars(Call(p))

-----------------------------------------------------------------------------
LockTypeOK ==
  /\ lock \in Free .. Stale + 1
  /\ file \subseteq Procs
  /\ proc \in [Procs -> Process]
  /\ deaths \in 0 .. MaxDeaths
  /\ robbed \in BOOLEAN /\ crowd \in BOOLEAN

\* One process at a time is between its read and its rename.
MutualExclusion == \A p, q \in Procs : Holding(p) /\ Holding(q) => p = q

\* Processes exclude each other, and whoever is at work has the lock file, unless a
\* lock in use was removed; and that takes two processes that had both found the lock of
\* a dead one stale (the second removes what the first has made since), or an owner that
\* is slow: one process alone clears the lock of a dead one away and robs nobody.
LockInv ==
  /\ LockTypeOK
  /\ ~robbed => MutualExclusion /\ \A p \in Procs : Holding(p) => lock # Free
  /\ Prompt /\ ~crowd => ~robbed

\* A change of the file is one step that starts from all the changes before it, whatever
\* the order of reads and renames of daemon and commands, unless a lock in use was
\* removed or a read failed: no saved change is lost.
OneStep == INSTANCE StateFile
KeepsChanges == [][~robbed => [OneStep!FileNext]_file]_lockVars

\* A lock whose owner died does not block the state for ever.
LockFreed == []<>(lock = Free)

\* No lock in use is removed, whoever dies.
NeverRobbed == ~robbed

\* Nobody comes to remove a stale lock while another is about to.
NoCrowd == ~crowd
=============================================================================
