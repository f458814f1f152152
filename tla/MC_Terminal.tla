---------------------------- MODULE MC_Terminal ----------------------------
(***************************************************************************)
(* Three things the page's terminal does, each by itself: it draws         *)
(* snapshots, it forwards keys, and it sends its size.                     *)
(***************************************************************************)
EXTENDS TerminalScreen, TerminalKeys, TerminalSize

CONSTANTS x, y, inv
SomeScreens == {<<>>, <<x>>, <<x, y>>, <<y>>, <<x, inv>>}

VARIABLE part

PartInit ==
  /\ part \in {"screen", "keys", "size"}
  /\ ScreenInit /\ KeysInit /\ SizeInit
  /\ part # "size" => width = Least /\ window = Local

PartNext ==
  /\ \/ part = "screen" /\ ScreenNext /\ UNCHANGED <<keysVars, sizeVars>>
     \/ part = "keys" /\ KeysNext /\ UNCHANGED <<screenVars, sizeVars>>
     \/ part = "size" /\ SizeNext /\ UNCHANGED <<screenVars, keysVars>>
  /\ UNCHANGED part

\* The fairness of SizeFairSpec.
InSize(A) == part = "size" /\ A /\ UNCHANGED <<screenVars, keysVars, part>>
PartSpec ==
  /\ PartInit /\ [][PartNext]_<<screenVars, keysVars, sizeVars, part>>
  /\ WF_sizeVars(InSize(Connect)) /\ WF_sizeVars(InSize(Render))
  /\ WF_sizeVars(InSize(Resize)) /\ WF_sizeVars(InSize(Capture))

\* SizeReached of the part that is about sizes.
SizeReachedHere == part = "size" => SizeReached
=============================================================================
