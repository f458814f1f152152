-------------------------- MODULE MC_BrowserView --------------------------
(***************************************************************************)
(* How things go in the instances of BrowserView.  The run has two scenes: *)
(* a browser that joins and loses its connection while React keeps up, and *)
(* one that is up to date at first, whose numbers lag behind its messages  *)
(* while the agent loses its connection.                                   *)
(***************************************************************************)
EXTENDS BrowserView

CONSTANTS r1, r2

Joins == [lags |-> FALSE, steady |-> TRUE, impatient |-> FALSE, watching |-> FALSE,
          drops |-> 1, cuts |-> 0, queue |-> 0]
Lagging == [lags |-> TRUE, steady |-> FALSE, impatient |-> FALSE, watching |-> TRUE,
            drops |-> 0, cuts |-> 2, queue |-> 1]
Scenes == {Joins, Lagging}

\* Of the further instances.
Captures == {[Joins EXCEPT !.steady = FALSE, !.drops = 0]}
Twice == {[Joins EXCEPT !.lags = TRUE, !.watching = TRUE]}
ByHand == {[Joins EXCEPT !.steady = FALSE, !.impatient = TRUE]}
Reconnects == {[Joins EXCEPT !.steady = FALSE, !.watching = TRUE]}
=============================================================================
