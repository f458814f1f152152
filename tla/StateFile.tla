----------------------------- MODULE StateFile -----------------------------
(***************************************************************************)
(* What upsertSession, updateSession and rewriteSessionsDeviceId of        *)
(* agent/src/state-store.ts promise: a change of state.json is one step,   *)
(* which starts from all the changes before it.  SessionLifecycle.tla      *)
(* takes them for that; StateLock.tla, where a change is made of calls of  *)
(* the file system, is shown to keep the promise.                          *)
(***************************************************************************)
CONSTANT Procs   \* who changes the file

VARIABLE file    \* those whose change it holds

FileInit == file = {}

Change(p) == file' = file \cup {p}

FileNext == \E p \in Procs : Change(p)

FileSpec == FileInit /\ [][FileNext]_file
=============================================================================
