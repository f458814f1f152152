--------------------------- MODULE TerminalScreen ---------------------------
(***************************************************************************)
(* app/src/components/XtermTerminal.tsx draws a session's snapshot, which  *)
(* App.tsx passes down behind useDeferredValue, into an xterm terminal.    *)
(* Two effects draw: one rewrites everything when the cursor object        *)
(* changes, as it does with every frame that brings a cursor; the other    *)
(* follows the snapshot and writes only what was added to it, where the    *)
(* terminal's cursor stands.  xterm parses what is written later, in the   *)
(* order written, and calls back then.                                     *)
(*                                                                         *)
(* A snapshot is a sequence of cells and the cursor a place between them:  *)
(* rows, scrolling and colours are left out, except the inverse cell with  *)
(* which programs draw a cursor of their own.                              *)
(***************************************************************************)
EXTENDS Integers, SequencesExt

CONSTANTS
  Screens,     \* the snapshots a session may have: sequences of cells
  Mark,        \* the cell that is shown in inverse
  Columns,     \* where the cursor of a pane may be, counted from 0
  MaxChanges   \* bound on frames and session switches

ASSUME ScreenAssumption ==
  Screens \subseteq Seq(UNION {Range(s) : s \in Screens}) /\ Columns \subseteq Nat /\ MaxChanges \in Nat

VARIABLES
  page,      \* text and cursor of the session shown: buffers, bufferCursors
  shown,     \* deferredSnapshot
  runtime,   \* the module's xtermRuntimePromise
  term,      \* the widget: loading, failed, or ready
  expected,  \* expectedSnapshotRef
  writes,    \* what xterm has been given and has not parsed
  screen,    \* the cells it shows, and where its cursor is
  whole,     \* history: the text came with a cursor, or before the terminal was ready
  hurried,   \* history: something was drawn before xterm had parsed the last
  changes

screenVars == <<page, shown, runtime, term, expected, writes, screen, whole, hurried, changes>>

NoCursor == -1   \* a session no frame of which brought a cursor
Stay == -2       \* nothing moves the terminal's cursor
Same == -3       \* a frame without a cursor
Blank == "blank"

\* moveCursorSequence, unless findVisibleCursorCell finds a cell.
CursorFor(text, cursor) ==
  IF Mark \in Range(text) \/ cursor = NoCursor THEN Stay ELSE cursor

Write(clear, text, move, after) == [clear |-> clear, text |-> text, move |-> move, after |-> after]
Clear == Write(TRUE, <<>>, Stay, Stay)
Draw(text, cursor) ==
  IF text = <<>> THEN Clear ELSE Write(TRUE, text, CursorFor(text, cursor), Stay)

\* The text goes over what is there, from the terminal's cursor on.
Put(cells, at, text) ==
  IF text = <<>> THEN cells
  ELSE [i \in 1 .. (IF Len(cells) > at + Len(text) THEN Len(cells) ELSE at + Len(text)) |->
          IF i \in at + 1 .. at + Len(text) THEN text[i - at]
          ELSE IF i <= Len(cells) THEN cells[i] ELSE Blank]

Fresh == [cells |-> <<>>, at |-> 0]
Parsed(scr, w) ==
  LET from == IF w.clear THEN Fresh ELSE scr
  IN  [cells |-> Put(from.cells, from.at, w.text),
       at |-> IF w.move = Stay THEN from.at + Len(w.text) ELSE w.move]

\* The effect on [deferredSnapshot, ...], when the terminal holds old.
Follow(old, text, cursor) ==
  /\ expected' = text
  /\ \/ text = old /\ UNCHANGED writes
     \/ /\ text \notin {old, <<>>} /\ IsPrefix(old, text)
        /\ writes' = Append(writes, Write(FALSE, SubSeq(text, Len(old) + 1, Len(text)), Stay, CursorFor(text, cursor)))
     \/ /\ text # old /\ (text = <<>> \/ ~IsPrefix(old, text))
        /\ writes' = Append(writes, Draw(text, cursor))

\* Mutant of Redraw: a new cursor object does not run the first effect.
RedrawChanged(text, cursor) == Follow(expected, text, cursor)

\* The effect on [props.cursor, props.sessionKey].
Redraw(text, cursor) ==
  /\ expected' = text
  /\ writes' = Append(writes, Draw(text, cursor))

ScreenInit ==
  /\ page = [text |-> <<>>, cursor |-> NoCursor] /\ shown = <<>>
  /\ runtime = "absent" /\ term = "loading"
  /\ expected = <<>> /\ writes = <<>> /\ screen = Fresh
  /\ whole = TRUE /\ hurried = FALSE /\ changes = 0

\* prefetchXtermRuntime or the first terminal starts the import; its promise is kept.
Import ==
  /\ runtime = "absent"
  /\ runtime' \in {"loaded", "rejected"}
  /\ UNCHANGED <<page, shown, term, expected, writes, screen, whole, hurried, changes>>

Boot ==
  /\ term = "loading" /\ runtime = "loaded"
  /\ term' = "ready"
  /\ Follow(<<>>, shown, page.cursor)
  /\ whole' = (shown = page.text) /\ hurried' = FALSE
  /\ UNCHANGED <<page, shown, runtime, screen, changes>>

BootFails ==
  /\ term = "loading" /\ runtime = "rejected"
  /\ term' = "failed"
  /\ UNCHANGED <<page, shown, runtime, expected, writes, screen, whole, hurried, changes>>

\* The button shown beside the error.
Retry ==
  /\ term = "failed"
  /\ term' = "loading"
  /\ UNCHANGED <<page, shown, runtime, expected, writes, screen, whole, hurried, changes>>

\* session.output: one transition renders text, cursor and deferred value together.
Frame(text, cursor) ==
  /\ changes < MaxChanges /\ changes' = changes + 1
  /\ page' = [text |-> text, cursor |-> IF cursor = Same THEN page.cursor ELSE cursor]
  /\ shown' = text
  /\ \/ term # "ready" /\ UNCHANGED <<expected, writes>>
     \/ term = "ready" /\ cursor # Same /\ Redraw(text, cursor)
     \/ term = "ready" /\ cursor = Same /\ Follow(expected, text, page.cursor)
  /\ whole' = (term # "ready" \/ cursor # Same)
  /\ hurried' = (writes # <<>>)
  /\ UNCHANGED <<runtime, term, screen>>

\* Another session is shown, in a terminal of its own (the key is the session's): the
\* deferred value is the text of the last one for a render.
Switch(text, cursor) ==
  /\ changes < MaxChanges /\ changes' = changes + 1
  /\ page' = [text |-> text, cursor |-> cursor]
  /\ term' = "loading" /\ expected' = <<>> /\ writes' = <<>> /\ screen' = Fresh
  /\ whole' = FALSE
  /\ UNCHANGED <<shown, runtime, hurried>>

\* The deferred render.
CatchUp ==
  /\ shown # page.text
  /\ shown' = page.text
  /\ IF term = "ready" THEN Follow(expected, page.text, page.cursor) ELSE UNCHANGED <<expected, writes>>
  /\ hurried' = (writes # <<>>)
  /\ UNCHANGED <<page, runtime, term, screen, whole, changes>>

\* xterm parses a write; the callback of an addition writes the cursor's move.
Parse ==
  /\ writes # <<>>
  /\ LET w == Head(writes) IN
     /\ screen' = Parsed(screen, w)
     /\ writes' = Tail(writes) \o (IF w.after = Stay THEN <<>> ELSE <<Write(FALSE, <<>>, w.after, Stay)>>)
  /\ UNCHANGED <<page, shown, runtime, term, expected, whole, hurried, changes>>

ScreenNext ==
  \/ Import \/ Boot \/ BootFails \/ Retry \/ CatchUp \/ Parse
  \/ \E text \in Screens, cursor \in Columns \cup {Same} : Frame(text, cursor)
  \/ \E text \in Screens, cursor \in Columns \cup {NoCursor} : Switch(text, cursor)

ScreenSpec == ScreenInit /\ [][ScreenNext]_screenVars
ScreenFairSpec ==
  ScreenSpec /\ WF_screenVars(Import \/ Boot \/ BootFails \/ CatchUp \/ Parse) /\ WF_screenVars(Retry)

-----------------------------------------------------------------------------
\* Nothing is left to do for the render and for xterm.
Settled == term = "ready" /\ shown = page.text /\ writes = <<>>
CursorPlace ==
  IF page.text = <<>> \/ CursorFor(page.text, page.cursor) = Stay THEN Len(page.text) ELSE page.cursor
DrawnRight == screen.cells = page.text

\* Whatever was drawn before, a frame that brings its cursor puts the terminal right, as
\* does a terminal that starts with the session's own text: it shows the snapshot, with
\* the cursor where the pane has it if xterm kept up with the frames.
ScreenInv ==
  Settled /\ whole => DrawnRight /\ (~hurried => screen.at = CursorPlace)

\* The terminal shows the snapshot whenever it comes to rest.
AlwaysDrawn == Settled => DrawnRight

\* The cursor is right even if frames come faster than xterm parses them.
CursorRight == Settled /\ whole => screen.at = CursorPlace

\* Who asks again after a failed import gets the terminal.
RetryHelps == (term = "failed") ~> (term = "ready")
=============================================================================
