------------------------------ MODULE MC_Page ------------------------------
(***************************************************************************)
(* Two things the page does beside the terminal, each by itself: it keeps  *)
(* up with the relay's build, and it keeps to the session the user chose.  *)
(***************************************************************************)
EXTENDS AppBuild, SessionSelection

CONSTANTS s1, s2, s3, t1, t2

SameIds == <<1, 1, 2>>

Run(sid) == [sid |-> sid, running |-> TRUE]
SomeLists ==
  {<<>>, <<Run(s1)>>, <<Run(s2), Run(s3)>>, <<Run(s3), [sid |-> s2, running |-> FALSE], Run(s1)>>}

VARIABLE part

PartInit ==
  /\ part \in {"build", "selection"}
  /\ BuildInit /\ SelectionInit
  /\ part # "build" => health = Id[1]
  /\ part # "selection" => desktop /\ ~suppressed /\ active = NoSid

PartNext ==
  /\ \/ part = "build" /\ BuildNext /\ UNCHANGED selectionVars
     \/ part = "selection" /\ SelectionNext /\ UNCHANGED buildVars
  /\ UNCHANGED part

\* The fairness of BuildFairSpec.
InBuild(A) == part = "build" /\ A /\ UNCHANGED <<selectionVars, part>>
PartSpec ==
  /\ PartInit /\ [][PartNext]_<<buildVars, selectionVars, part>>
  /\ \A t \in Tasks : WF_buildVars(InBuild(Reconcile(t)))

\* BuildSettles of the part that is about builds.
BuildSettlesHere == part = "build" => BuildSettles
=============================================================================
