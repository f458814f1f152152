---------------------------- MODULE TerminalSize ----------------------------
(***************************************************************************)
(* The size of a session's tmux window.  A desktop page fits its terminal  *)
(* to its container (XtermTerminal.tsx safeFit), shrinks the letters when  *)
(* a snapshot needs more columns (the effect on deferredSnapshot), and     *)
(* sends every size that differs from the last one it sent (App.tsx        *)
(* handleTerminalResize).  The agent sizes the window, or hands it to the  *)
(* clients attached on its own computer (daemon.ts handleResize), and what *)
(* it captures then decides how many columns the page needs.               *)
(*                                                                         *)
(* A size is its columns; letters have two sizes, of which the smaller one *)
(* makes room for Gain more (the code comes to it in up to eight steps,    *)
(* each of which sends a size).  Phones send no size.                      *)
(***************************************************************************)
EXTENDS Integers, Sequences

CONSTANTS
  Widths,     \* columns that fit a container at the usual size of letters
  Gain,       \* columns gained by shrinking them
  Least,      \* the least columns of resizeSession
  Longest,    \* the pane's longest line: a narrower window wraps it
  Local,      \* the columns of a client attached on the agent's computer
  Calm,       \* the agent captures only when no resize and no frame is on its way
  MaxEvents   \* bound on what users and networks do

ASSUME SizeAssumption ==
  /\ Widths \subseteq Nat \ {0} /\ Gain \in Nat /\ Least \in Nat /\ Longest \in Nat /\ Local \in Nat
  /\ Calm \in BOOLEAN /\ MaxEvents \in Nat

VARIABLES
  width,       \* what the page's container fits
  small,       \* the letters are shrunk
  needed,      \* columns of the snapshot the page shows: estimateRequiredCols
  sent,        \* terminalSentSizeRef, 0 for none
  open,        \* canControlDevice
  wire,        \* session.resize messages on their way
  window,      \* the tmux window's columns
  attached,    \* a client is attached on the agent's computer
  captured,    \* columns of the frame the agent sent last
  frames,      \* frames on their way
  disturbed,   \* history: somebody else changed the window since a size was last sent, or it was lost
  events

sizeVars == <<width, small, needed, sent, open, wire, window, attached, captured, frames, disturbed, events>>

Smaller(m, n) == IF m < n THEN m ELSE n
Larger(m, n) == IF m < n THEN n ELSE m
Cols(w, s) == IF s THEN w + Gain ELSE w
Wrapped(columns) == Smaller(Longest, columns)

SizeInit ==
  /\ width \in Widths /\ small = FALSE
  /\ sent = 0 /\ open = FALSE /\ wire = <<>>
  /\ window \in Widths \cup {Local} /\ attached = FALSE
  /\ needed = 0 /\ captured = Wrapped(window) /\ frames = <<captured>>
  /\ disturbed = FALSE /\ events = 0

Event == events < MaxEvents /\ events' = events + 1

\* The terminal takes one size after the other: those that differ from the one before.
Changed(first, last) ==
  (IF first = sent THEN <<>> ELSE <<first>>) \o (IF last = first THEN <<>> ELSE <<last>>)

\* Mutant of Tell: a size is noted before it is known whether it can be sent.
TellNoted(first, last) ==
  /\ sent' = last
  /\ wire' = IF open THEN wire \o Changed(first, last) ELSE wire
  /\ disturbed' = IF open /\ Changed(first, last) # <<>> THEN attached ELSE disturbed

\* handleTerminalResize, for both
Tell(first, last) ==
  IF open
  THEN /\ sent' = last
       /\ wire' = wire \o Changed(first, last)
       /\ disturbed' = IF Changed(first, last) = <<>> THEN disturbed ELSE attached
  ELSE UNCHANGED <<sent, wire, disturbed>>

\* The container changes: the resize observer, the visual viewport, loaded fonts.
Fit(w) ==
  /\ Event /\ width' = w
  /\ Tell(Cols(w, small), Cols(w, small))
  /\ UNCHANGED <<small, needed, open, window, attached, captured, frames>>

\* The page can control the device: the effect on canControlDevice sends what it missed.
\* Sizes measured before the session's terminal was there are of its first fit.
Connect ==
  /\ ~open /\ open' = TRUE
  /\ sent' = Cols(width, small)
  /\ wire' = IF sent' = sent THEN wire ELSE Append(wire, sent')
  /\ disturbed' = IF sent' = sent THEN disturbed ELSE attached
  /\ UNCHANGED <<width, small, needed, window, attached, captured, frames, events>>

\* The connection is lost with what is on its way.
Disconnect ==
  /\ open /\ Event
  /\ open' = FALSE /\ wire' = <<>>
  /\ disturbed' = (disturbed \/ wire # <<>>)
  /\ UNCHANGED <<width, small, needed, sent, window, attached, captured, frames>>

\* A frame is rendered; the effect starts from the usual size of letters, but compares
\* what the snapshot needs with the columns there were before.
Render ==
  /\ frames # <<>> /\ frames' = Tail(frames) /\ needed' = Head(frames)
  /\ small' = (needed' > Cols(width, small))
  /\ Tell(width, Cols(width, small'))
  /\ UNCHANGED <<width, open, window, attached, captured, events>>

\* handleResize: resizeSession, or normalizeSessionWindow beside a local client.
Resize ==
  /\ wire # <<>> /\ wire' = Tail(wire)
  /\ window' = IF attached THEN Local ELSE Larger(Least, Head(wire))
  /\ UNCHANGED <<width, small, needed, sent, open, attached, captured, frames, disturbed, events>>

\* The capture after the resize's delay, or the sync loop's: a frame if it differs.
Capture ==
  /\ Calm => wire = <<>> /\ frames = <<>>
  /\ captured # Wrapped(window) /\ captured' = Wrapped(window)
  /\ frames' = Append(frames, captured')
  /\ UNCHANGED <<width, small, needed, sent, open, wire, window, attached, disturbed, events>>

\* attachSession gives the window to the local client, and nothing takes it back.
Attach ==
  /\ ~attached /\ Event
  /\ attached' = TRUE /\ window' = Local /\ disturbed' = TRUE
  /\ UNCHANGED <<width, small, needed, sent, open, wire, captured, frames>>

Detach ==
  /\ attached /\ Event
  /\ attached' = FALSE
  /\ UNCHANGED <<width, small, needed, sent, open, wire, window, captured, frames, disturbed>>

SizeNext ==
  \/ \E w \in Widths : Fit(w)
  \/ Connect \/ Disconnect \/ Render \/ Resize \/ Capture \/ Attach \/ Detach

SizeSpec == SizeInit /\ [][SizeNext]_sizeVars
SizeFairSpec ==
  /\ SizeSpec
  /\ WF_sizeVars(Connect) /\ WF_sizeVars(Render) /\ WF_sizeVars(Resize) /\ WF_sizeVars(Capture)

-----------------------------------------------------------------------------
InForce == window = Larger(Least, Cols(width, small))

\* Where the page controls the device and nothing is on its way, the window is as wide as
\* the page's terminal, unless it was attached to elsewhere or a size was lost after it
\* was sent: no size the page has noted as sent was left out.
SizeHeld == open /\ wire = <<>> => disturbed \/ InForce

\* ... and fitting, shrinking and wrapping come to rest.
SizeReached == []SizeHeld /\ <>[](disturbed \/ InForce)

\* The page's size comes to be the window's whatever happened.
SizeRestored == <>[](attached \/ InForce)
=============================================================================
