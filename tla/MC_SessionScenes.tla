------------------------- MODULE MC_SessionScenes -------------------------
(***************************************************************************)
(* Three scenes of one session, each with bounds of its own: a managed     *)
(* command that several parties close, over hours; a session that a        *)
(* browser creates, lists and types into, whose agent may be restarted;    *)
(* and one that is resized and replayed while its program may end.         *)
(***************************************************************************)
EXTENDS MC_SessionLifecycle

VARIABLE scene

Asked == INSTANCE SessionLifecycle
           WITH Kind <- CreateInputList, Managed <- FALSE, MaxTime <- 1, MaxStops <- 1

Sized == INSTANCE SessionLifecycle
           WITH Kind <- CreateResizeReplay, Managed <- FALSE, MaxTime <- 1, MaxStops <- 0

SceneInit ==
  \/ scene = "governed" /\ LifeInit
  \/ scene = "requests" /\ Asked!LifeInit
  \/ scene = "sized" /\ Sized!LifeInit

SceneNext ==
  /\ \/ scene = "governed" /\ LifeNext
     \/ scene = "requests" /\ Asked!LifeNext
     \/ scene = "sized" /\ Sized!LifeNext
  /\ UNCHANGED scene

LoopGoesOn ==
  \/ scene = "governed" /\ SyncStep
  \/ scene = "requests" /\ Asked!SyncStep
  \/ scene = "sized" /\ Sized!SyncStep
GoesOn(h) ==
  \/ scene = "governed" /\ HandlerStep(h)
  \/ scene = "requests" /\ Asked!HandlerStep(h)
  \/ scene = "sized" /\ Sized!HandlerStep(h)

SceneSpec ==
  /\ SceneInit /\ [][SceneNext]_<<lifeVars, scene>>
  /\ WF_lifeVars(LoopGoesOn)
  /\ \A h \in Handlers : WF_lifeVars(GoesOn(h))
=============================================================================
