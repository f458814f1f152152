-------------------------- MODULE MC_AgentOutput --------------------------
EXTENDS AgentOutput

CONSTANTS h1, h2, h3

\* A screen that is cleared, grows by a line, and loses it again.
MCScreens == {<<>>, <<"a">>, <<"a", "b">>}

OneInput == [h \in {h1} |-> "input"]
OneOfEach == [h \in {h1, h2, h3} |-> CASE h = h1 -> "input" [] h = h2 -> "resize" [] h = h3 -> "replay"]

\* The run's two scenes: a replay, with as many changes and restarts as the constants
\* say, or an input and a resize beside the loop of an agent that stays up, with one.
InScene ==
  \/ OnlyLooked
  \/ task[h3].at = "idle" /\ changes <= 1 /\ restarts = 0

SceneSpec ==
  /\ OutputInit /\ [][OutputNext /\ InScene']_outputVars
  /\ WF_outputVars(SyncStep)
  /\ \A h \in Handlers : WF_outputVars(TaskStep(h))
=============================================================================
