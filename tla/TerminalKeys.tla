---------------------------- MODULE TerminalKeys ----------------------------
(***************************************************************************)
(* app/src/components/XtermTerminal.tsx turns what happens in xterm's      *)
(* textarea into input for the session.  One key causes several events     *)
(* (keydown, keypress, beforeinput, xterm's onKey and onData, the end of a *)
(* composition), any of which may be the only one on some keyboard: the    *)
(* first forwards the key and leaves a note by which the others know, for  *)
(* 48 ms for special keys and 160 ms for text.                             *)
(*                                                                         *)
(* xterm is external.  It reports the text that soft keyboards and         *)
(* compositions put into its textarea through onData, after the page's own *)
(* handlers.  It cancels the keydown of most letters, which then cause no  *)
(* more events; space and capitals it leaves to the keypress, which it     *)
(* reports by onKey and onData and does not cancel, so that beforeinput    *)
(* follows.  Nor does it cancel the keydown of a special key: Enter's      *)
(* keypress, which the custom handler lets pass, it reports by onData.     *)
(***************************************************************************)
EXTENDS Naturals, Sequences

CONSTANTS
  Specials,     \* keys that mapSpecialKey knows
  Enter,        \* the one that also causes beforeinput insertLineBreak
  Letters,
  Late,         \* those that xterm reports at their keypress: space and capitals
  KeyTime,      \* the notes' times, in ticks
  TextTime,
  Habits,       \* subset of {"repeats", "ahead", "slow", "ime", "hasty"}: see below
  MaxTyped      \* bound on the keys typed

ASSUME KeysAssumption ==
  /\ Enter \in Specials /\ Late \subseteq Letters /\ Specials \cap Letters = {}
  /\ KeyTime \in Nat \ {0} /\ TextTime \in Nat \ {0} /\ MaxTyped \in Nat

VARIABLES
  typed,       \* history: the keys meant for the session, where forwarding each began, and
               \* how often at most it should be forwarded
  forwarded,   \* the calls of onSpecialKey and onData
  keyNote,     \* optimisticSpecialKeyRef: a key and the ticks left
  textNote,    \* optimisticInputRef: letters and the ticks left
  composing,   \* compositionStateRef
  due,         \* events that a key has caused and that have not been handled
  rest         \* the ticks for which each special key is not pressed again

keysVars == <<typed, forwarded, keyNote, textNote, composing, due, rest>>

\* "ahead": a key is pressed before the events of the last have been handled.
\* "repeats": a held key repeats within KeyTime.
\* "ime": a key that steers an input method reaches the page under its own name.
\* "slow": time passes between the events of a key.
\* "hasty": a soft keyboard or a composition puts text in while a letter's note is left.
MayType == Len(typed) < MaxTyped /\ (due = <<>> \/ "ahead" \in Habits)
Rested(k) == rest[k] = 0 \/ "repeats" \in Habits

NoKey == [key |-> {}, left |-> 0]
Pending(k) == keyNote.left > 0 /\ keyNote.key = {k}
NoteKey(k) == keyNote' = [key |-> {k}, left |-> KeyTime]

\* rememberOptimisticInput, hasOptimisticInput, consumeOptimisticInput
Held == IF textNote.left > 0 THEN textNote.letters ELSE <<>>
NoteText(letters) == textNote' = [letters |-> letters, left |-> IF letters = <<>> THEN 0 ELSE TextTime]
HasNoted(c) == Held # <<>> /\ Head(Held) = c

Meant(k, most) == typed' = Append(typed, [key |-> k, at |-> Len(forwarded) + 1, most |-> most])

Cause(events, k) == due' = due \o [n \in DOMAIN events |-> [event |-> events[n], key |-> k]]
Handles(event) == due # <<>> /\ Head(due).event = event /\ due' = Tail(due)

KeysInit ==
  /\ typed = <<>> /\ forwarded = <<>> /\ due = <<>>
  /\ keyNote = NoKey /\ textNote = [letters |-> <<>>, left |-> 0]
  /\ composing = FALSE /\ rest = [k \in Specials |-> 0]

ForwardKey(k) ==
  IF Pending(k) THEN UNCHANGED <<forwarded, keyNote>> ELSE forwarded' = Append(forwarded, k) /\ NoteKey(k)

\* keydown of a special key: customKeyHandler, which asks nothing about compositions, and
\* handleTextareaKeyDown, which finds its note and cancels nothing: Enter goes on to its
\* keypress and to beforeinput.
Press(k) ==
  /\ MayType /\ Rested(k)
  /\ composing => "ime" \in Habits
  /\ IF composing THEN UNCHANGED typed ELSE Meant(k, IF k = Enter THEN 2 ELSE 1)
  /\ ForwardKey(k)
  /\ rest' = [rest EXCEPT ![k] = KeyTime]
  /\ IF k = Enter /\ ~composing THEN Cause(<<"keypress", "linebreak">>, Enter) ELSE UNCHANGED due
  /\ UNCHANGED <<textNote, composing>>

\* Mutant of BreakLine: the note is not looked at.
BreakLineAlways == forwarded' = Append(forwarded, Enter) /\ NoteKey(Enter)

\* handleBeforeInput, insertLineBreak
BreakLine ==
  IF Pending(Enter) THEN keyNote' = NoKey /\ UNCHANGED forwarded
                    ELSE forwarded' = Append(forwarded, Enter) /\ NoteKey(Enter)

LineBreak ==
  /\ Handles("linebreak")
  /\ BreakLine
  /\ UNCHANGED <<typed, textNote, composing, rest>>

\* Enter of a soft keyboard that sends no keydown.
SoftEnter ==
  /\ MayType /\ ~composing /\ Rested(Enter)
  /\ Meant(Enter, 1)
  /\ BreakLine
  /\ rest' = [rest EXCEPT ![Enter] = KeyTime]
  /\ UNCHANGED <<textNote, composing, due>>

\* onData
Report(c) ==
  IF HasNoted(c)
  THEN /\ textNote' = [letters |-> Tail(Held), left |-> IF Tail(Held) = <<>> THEN 0 ELSE textNote.left]
       /\ UNCHANGED forwarded
  ELSE forwarded' = Append(forwarded, c) /\ UNCHANGED textNote

\* Enter's keypress: customKeyHandler lets it pass, onKey ignores it, and onData reports "\r",
\* which to the session is Enter again.
Keypress ==
  /\ Handles("keypress")
  /\ Report(Enter)
  /\ UNCHANGED <<typed, keyNote, composing, rest>>

\* A letter of a keyboard: xterm's onKey notes it and forwards it; onData comes at once.
Type(c) ==
  /\ MayType /\ ~composing
  /\ Meant(c, 1 + (IF c \in Late THEN 1 ELSE 0) + (IF Held # <<>> THEN 1 ELSE 0))
  /\ LET held == Append(Held, c) IN
     /\ NoteText(IF Head(held) = c THEN Tail(held) ELSE held)
     /\ forwarded' = IF Head(held) = c THEN Append(forwarded, c) ELSE forwarded \o <<c, c>>
  /\ IF c \in Late THEN Cause(<<"beforeinput">>, c) ELSE UNCHANGED due
  /\ UNCHANGED <<keyNote, composing, rest>>

\* handleBeforeInput with text, handleCompositionEnd
Offer(c) ==
  IF HasNoted(c) THEN UNCHANGED <<textNote, forwarded>>
                 ELSE NoteText(Append(Held, c)) /\ forwarded' = Append(forwarded, c)

\* beforeinput of a letter that xterm reported at its keypress, and does not report again.
BeforeInput ==
  /\ Handles("beforeinput")
  /\ Offer(Head(due).key)
  /\ UNCHANGED <<typed, keyNote, composing, rest>>

\* Text that no keydown announced; xterm reports it later.
Insert(c) ==
  /\ Held = <<>> \/ "hasty" \in Habits
  /\ Meant(c, 1)
  /\ Offer(c)
  /\ Cause(<<"data">>, c)

SoftType(c) ==
  /\ MayType /\ ~composing
  /\ Insert(c)
  /\ UNCHANGED <<keyNote, composing, rest>>

ComposeStart ==
  /\ MayType /\ ~composing
  /\ composing' = TRUE
  /\ UNCHANGED <<typed, forwarded, keyNote, textNote, due, rest>>

\* A word is committed (composingText stands in where the event has none), or nothing.
ComposeEnd ==
  /\ MayType /\ composing
  /\ composing' = FALSE
  /\ (\E c \in Letters : Insert(c)) \/ UNCHANGED <<typed, textNote, forwarded, due>>
  /\ UNCHANGED <<keyNote, rest>>

Reported ==
  /\ Handles("data")
  /\ Report(Head(due).key)
  /\ UNCHANGED <<typed, keyNote, composing, rest>>

Less(n) == IF n > 0 THEN n - 1 ELSE 0
Pass ==
  /\ due = <<>> \/ "slow" \in Habits
  /\ keyNote' = [keyNote EXCEPT !.left = Less(@)]
  /\ textNote' = [textNote EXCEPT !.left = Less(@)]
  /\ rest' = [k \in Specials |-> Less(rest[k])]
  /\ UNCHANGED <<typed, forwarded, composing, due>>

KeysNext ==
  \/ \E k \in Specials : Press(k)
  \/ \E c \in Letters : Type(c) \/ SoftType(c)
  \/ SoftEnter \/ Keypress \/ LineBreak \/ BeforeInput \/ ComposeStart \/ ComposeEnd \/ Reported \/ Pass

KeysSpec == KeysInit /\ [][KeysNext]_keysVars

-----------------------------------------------------------------------------
\* Where the forwarding of the i-th key begins, or of the next one will.
Begin(i) == IF i \in DOMAIN typed THEN typed[i].at ELSE Len(forwarded) + 1

\* What the session gets is what was typed, in order: no key is lost to the note of another,
\* and none comes more often than xterm reports it behind the notes' back.  A special key, the
\* text of a soft keyboard or of a composition, and a letter whose keydown xterm cancels come
\* once.  Enter of a keyboard comes twice (xterm's "\r"), space and capitals twice (their
\* beforeinput finds the note spent), and a letter typed over the note that one of these has
\* left, once more.
KeysArrive ==
  /\ Begin(1) = 1
  /\ \A i \in DOMAIN typed :
       /\ Begin(i + 1) \in Begin(i) + 1 .. Begin(i) + typed[i].most
       /\ \A p \in Begin(i) .. Begin(i + 1) - 1 : forwarded[p] = typed[i].key

\* Every key comes once; Enter, space and capitals of a keyboard refute it.
KeysOnce == forwarded = [i \in DOMAIN typed |-> typed[i].key]
=============================================================================
