------------------------------ MODULE AppBuild ------------------------------
(***************************************************************************)
(* A tab that was opened before the relay was upgraded finds that out and  *)
(* reloads itself, once for each change: app/src/App.tsx                   *)
(* reconcileAppBuild, against relay/src/server.ts /health and the static   *)
(* files.  A marker in the tab's session storage names the change that it  *)
(* has already reloaded for.                                               *)
(*                                                                         *)
(* The relay reads the files at every request and its own version once:    *)
(* between an upgrade of the package and the restart of the relay the two  *)
(* disagree.  A build is a number; two may have the same build id and      *)
(* differ in their script only.                                            *)
(***************************************************************************)
EXTENDS Integers

CONSTANTS
  Builds,      \* builds of the app, in the order of their release: 1 .. n
  Id,          \* the build id of each
  Tasks,       \* reconciliations in progress: the effect's, the timer's, a focus event's
  Rollbacks,   \* an older build may be installed again
  Cached,      \* something between relay and browser keeps documents
  MaxOccurrences    \* bound on upgrades, restarts, failed requests and the user's reloads

ASSUME BuildAssumption ==
  /\ Builds \subseteq Nat /\ 1 \in Builds /\ MaxOccurrences \in Nat
  /\ Rollbacks \in BOOLEAN /\ Cached \in BOOLEAN

VARIABLES
  files,       \* the build in webDir
  health,      \* the build id /health tells
  build,       \* the build the tab runs
  task,        \* where each reconciliation is and what it was answered
  marker,      \* APP_BUILD_RELOAD_MARKER_KEY
  past         \* the events so far

buildVars == <<files, health, build, task, marker, past>>

None == 0
Quiet == [at |-> "idle", health |-> None, shell |-> None]

\* The id of the build, or what TERMPILOT_APP_BUILD_ID was set to when the relay started.
OtherId == -1
RelayIds(b) == {Id[b], OtherId}

BuildInit ==
  /\ files = 1 /\ health \in RelayIds(1)
  /\ build = 1 /\ marker = <<>>
  /\ task = [t \in Tasks |-> Quiet]
  /\ past = 0

Occurs == past < MaxOccurrences /\ past' = past + 1

\* The package is upgraded under the running relay, which is restarted later.
Upgrade ==
  /\ Occurs
  /\ files' \in {b \in Builds : b > files \/ Rollbacks}
  /\ UNCHANGED <<health, build, task, marker>>

Restart ==
  /\ Occurs
  /\ health' \in RelayIds(files)
  /\ UNCHANGED <<files, build, task, marker>>

\* The document the browser gets for the page's address.
Load ==
  /\ build' \in {files} \cup (IF Cached THEN {build} ELSE {})
  /\ task' = [t \in Tasks |-> Quiet]

Reload ==
  /\ Occurs /\ Load
  /\ UNCHANGED <<files, health, marker>>

\* Both requests are sent; their answers come one by one, or one fails.
Ask(t) ==
  /\ task[t].at = "idle"
  /\ task' = [task EXCEPT ![t] = [Quiet EXCEPT !.at = "asking"]]
  /\ UNCHANGED <<files, health, build, marker, past>>

AnswerHealth(t) ==
  /\ task[t].at = "asking" /\ task[t].health = None
  /\ task' = [task EXCEPT ![t].health = health]
  /\ UNCHANGED <<files, health, build, marker, past>>

AnswerShell(t) ==
  /\ task[t].at = "asking" /\ task[t].shell = None
  /\ task' = [task EXCEPT ![t].shell = files]
  /\ UNCHANGED <<files, health, build, marker, past>>

Fail(t) ==
  /\ task[t].at = "asking" /\ Occurs
  /\ task' = [task EXCEPT ![t] = Quiet]
  /\ UNCHANGED <<files, health, build, marker>>

\* Mutant of UpToDate: only the id that /health tells is compared.
UpToDateById(t) == task[t].health = Id[build]

\* Neither build id, script nor /health differ from the tab's own.
UpToDate(t) == task[t].health = Id[build] /\ task[t].shell = build

Change(t) == <<build, task[t].shell>>

Compare(t) ==
  /\ task[t].at = "asking" /\ task[t].health # None /\ task[t].shell # None
  /\ \/ /\ UpToDate(t)
        /\ marker' = <<>> /\ task' = [task EXCEPT ![t] = Quiet]
     \/ /\ ~UpToDate(t) /\ marker = Change(t)
        /\ task' = [task EXCEPT ![t] = Quiet] /\ UNCHANGED marker
     \/ /\ ~UpToDate(t) /\ marker # Change(t)
        /\ marker' = Change(t) /\ task' = [task EXCEPT ![t].at = "leaving"]
  /\ UNCHANGED <<files, health, build, past>>

\* clearStaleAppCaches is done: location.replace.
Leave(t) ==
  /\ task[t].at = "leaving"
  /\ Load
  /\ UNCHANGED <<files, health, marker, past>>

Reconcile(t) == Ask(t) \/ AnswerHealth(t) \/ AnswerShell(t) \/ Compare(t) \/ Leave(t)

BuildNext ==
  \/ Upgrade \/ Restart \/ Reload
  \/ \E t \in Tasks : Reconcile(t) \/ Fail(t)

BuildSpec == BuildInit /\ [][BuildNext]_buildVars

\* The tab is visible again and again; every request is answered or fails.
BuildFairSpec == BuildSpec /\ \A t \in Tasks : WF_buildVars(Reconcile(t))

-----------------------------------------------------------------------------
Leaving == \E t \in Tasks : task[t].at = "leaving"

\* The marker of an earlier change never stops the reload that would bring what is served.
NeverHeldBack == build # files => marker # <<build, files>> \/ Leaving

\* ... and once upgrades and restarts are over, the tab runs what the relay serves and has
\* stopped reloading, even if /health never tells the id of what is served.
BuildSettles == []NeverHeldBack /\ <>[](build = files /\ ~Leaving)
=============================================================================
