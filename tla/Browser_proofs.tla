-------------------------- MODULE Browser_proofs --------------------------
(***************************************************************************)
(* Proofs about the browser's page: TerminalKeys.tla, which forwards what  *)
(* is typed, TerminalScreen.tla, which draws, TerminalSize.tla, which      *)
(* sends sizes, SessionSelection.tla, which decides what is shown, and     *)
(* AppBuild.tla, which keeps the build up to date; for any keys and        *)
(* letters, snapshots, sizes, sessions, lists and builds.                  *)
(***************************************************************************)
EXTENDS TerminalKeys, TerminalScreen, TerminalSize, SessionSelection, AppBuild, SequenceTheorems, WellFoundedInduction, TLAPS

-----------------------------------------------------------------------------
(***************************************************************************)
(* TerminalKeys: why nothing typed is lost, and what comes how often.      *)
(* What is due is what the notes know, or what the last key still has to   *)
(* come; and a note of a special key is gone before the key is pressed     *)
(* again.                                                                  *)
(***************************************************************************)

Key == Specials \cup Letters

NotesTypeOK ==
  /\ keyNote \in [key : SUBSET Specials, left : Nat]
  /\ textNote \in [letters : Seq(Letters), left : Nat]
  /\ rest \in [Specials -> Nat]
  /\ forwarded \in Seq(Key)
  /\ typed \in Seq([key : Key, at : Nat, most : Nat])
  /\ \A i \in DOMAIN typed : typed[i].at \in 1 .. Len(forwarded)

Caused(e, k) == [event |-> e, key |-> k]

\* The last key was k, and may be forwarded once more.
Again(k) ==
  LET n == Len(typed) IN
  n > 0 /\ typed[n].key = k /\ Len(forwarded) + 1 < typed[n].at + typed[n].most

\* What is due was forwarded, and a note says so; or may be forwarded once more.
DueIsNoted ==
  \/ due = <<>>
  \/ due = <<Caused("keypress", Enter), Caused("linebreak", Enter)>> /\ Pending(Enter) /\ Again(Enter)
  \/ due = <<Caused("linebreak", Enter)>> /\ Pending(Enter)
  \/ \E c \in Letters : due = <<Caused("beforeinput", c)>> /\ Again(c)
  \/ \E c \in Letters : due = <<Caused("data", c)>> /\ Held = <<c>>

\* A note does not outlast the time for which its key rests.
NoteIsShort == \A k \in Specials : Pending(k) => rest[k] >= keyNote.left

NotesInv == NotesTypeOK /\ DueIsNoted /\ NoteIsShort /\ KeysArrive

\* Nothing is due at first, and nothing noted.
LEMMA NotesInit == KeysInit => NotesInv
  BY KeysAssumption DEF KeysInit, NotesInv, NotesTypeOK, DueIsNoted, NoteIsShort, KeysArrive, Begin, Pending, NoKey

\* A new key whose forwarding begins with this step, once or more.
LEMMA KeyBegins ==
  ASSUME NotesTypeOK, KeysArrive, NEW k \in Key, NEW most \in Nat, Meant(k, most),
         forwarded' \in Seq(Key), Len(forwarded') \in Len(forwarded) + 1 .. Len(forwarded) + most,
         \A p \in 1 .. Len(forwarded) : forwarded'[p] = forwarded[p],
         \A p \in Len(forwarded) + 1 .. Len(forwarded') : forwarded'[p] = k
  PROVE  /\ typed' \in Seq([key : Key, at : Nat, most : Nat])
         /\ \A i \in DOMAIN typed' : typed'[i].at \in 1 .. Len(forwarded')
         /\ KeysArrive'
         /\ Len(forwarded') < Len(forwarded) + most => Again(k)'
<1>1. /\ typed \in Seq([key : Key, at : Nat, most : Nat]) /\ Len(typed) \in Nat /\ DOMAIN typed = 1 .. Len(typed)
      /\ Len(forwarded) \in Nat /\ Len(forwarded') \in Nat
      /\ \A i \in 1 .. Len(typed) : typed[i].at \in 1 .. Len(forwarded)
  BY DEF NotesTypeOK
<1>2. PICK n \in Nat : n = Len(typed)
  BY <1>1
<1>3. PICK m \in Nat : m = Len(forwarded)
  BY <1>1
<1>4. PICK mm \in m + 1 .. m + most : mm = Len(forwarded')
  BY <1>3
<1>5. /\ typed' \in Seq([key : Key, at : Nat, most : Nat])
      /\ Len(typed') = n + 1 /\ DOMAIN typed' = 1 .. n + 1
      /\ \A i \in 1 .. n : typed'[i] = typed[i]
      /\ typed'[n + 1] = [key |-> k, at |-> m + 1, most |-> most]
  <2>1. [key |-> k, at |-> m + 1, most |-> most] \in [key : Key, at : Nat, most : Nat]
    OBVIOUS
  <2>2. typed' = Append(typed, [key |-> k, at |-> m + 1, most |-> most])
    BY <1>3 DEF Meant
  <2> QED BY <1>1, <1>2, <2>1, <2>2, AppendProperties
<1>6. \A i \in 1 .. n : typed[i].at \in 1 .. m
  BY <1>1, <1>2, <1>3
<1>7. ASSUME NEW i \in DOMAIN typed' PROVE typed'[i].at \in 1 .. Len(forwarded')
  <2>1. typed'[n + 1].at = m + 1
    BY <1>5
  <2>2. i \in 1 .. n => typed'[i].at \in 1 .. m
    BY <1>5, <1>6
  <2>3. i \in 1 .. n \/ i = n + 1
    BY <1>5
  <2>4. typed'[i].at \in 1 .. m + 1
    BY <2>1, <2>2, <2>3
  <2> QED BY <1>4, <2>4
<1>8. /\ \A i \in 1 .. n + 1 : Begin(i)' = Begin(i)
      /\ Begin(n + 1) = m + 1 /\ Begin(n + 2)' = mm + 1
  <2>1. \A i \in 1 .. n : Begin(i) = typed[i].at /\ Begin(i)' = typed'[i].at
    BY <1>1, <1>2, <1>5 DEF Begin
  <2>2. Begin(n + 1) = m + 1
    BY <1>1, <1>2, <1>3 DEF Begin
  <2>3. Begin(n + 1)' = typed'[n + 1].at
    BY <1>5 DEF Begin
  <2>4. Begin(n + 2)' = mm + 1
    BY <1>4, <1>5 DEF Begin
  <2>5. ASSUME NEW i \in 1 .. n + 1 PROVE Begin(i)' = Begin(i)
    <3>1. CASE i \in 1 .. n
      BY <3>1, <1>5, <2>1
    <3>2. CASE i = n + 1
      BY <3>2, <1>5, <2>2, <2>3
    <3> QED BY <3>1, <3>2
  <2> QED BY <2>2, <2>4, <2>5
<1>9. \A i \in 1 .. n + 1 : Begin(i) \in 1 .. m + 1
  <2>1. \A i \in 1 .. n : Begin(i) = typed[i].at
    BY <1>1, <1>2 DEF Begin
  <2> SUFFICES ASSUME NEW i \in 1 .. n + 1 PROVE Begin(i) \in 1 .. m + 1
    OBVIOUS
  <2>2. CASE i \in 1 .. n
    <3>1. Begin(i) \in 1 .. m
      BY <1>6, <2>1, <2>2
    <3> QED BY <3>1
  <2>3. CASE i = n + 1
    BY <1>8, <2>3
  <2> QED BY <2>2, <2>3
<1>10. ASSUME NEW i \in DOMAIN typed'
       PROVE  /\ Begin(i + 1)' \in Begin(i)' + 1 .. Begin(i)' + typed'[i].most
              /\ \A p \in Begin(i)' .. Begin(i + 1)' - 1 : forwarded'[p] = typed'[i].key
  <2>1. CASE i \in 1 .. n
    <3>1. i + 1 \in 1 .. n + 1 /\ i \in 1 .. n + 1
      BY <2>1
    <3>2. /\ Begin(i)' = Begin(i) /\ Begin(i + 1)' = Begin(i + 1)
          /\ typed'[i] = typed[i]
      BY <3>1, <2>1, <1>5, <1>8
    <3>3. /\ Begin(i + 1) \in Begin(i) + 1 .. Begin(i) + typed[i].most
          /\ \A p \in Begin(i) .. Begin(i + 1) - 1 : forwarded[p] = typed[i].key
      BY <2>1, <1>1, <1>2 DEF KeysArrive
    <3>4. \A p \in Begin(i) .. Begin(i + 1) - 1 : p \in 1 .. Len(forwarded)
      BY <3>1, <1>3, <1>9
    <3> QED BY <3>2, <3>3, <3>4
  <2>2. CASE i = n + 1
    <3>1. i + 1 = n + 2 /\ i \in 1 .. n + 1
      BY <2>2
    <3>2. Begin(i)' = m + 1 /\ Begin(i + 1)' = mm + 1
      BY <2>2, <3>1, <1>8
    <3>3. typed'[i].most = most /\ typed'[i].key = k
      BY <2>2, <1>5
    <3>4. \A p \in m + 1 .. mm : forwarded'[p] = k
      BY <1>3, <1>4
    <3> QED BY <3>2, <3>3, <3>4, <1>4
  <2>3. i \in 1 .. n \/ i = n + 1
    BY <1>5
  <2> QED BY <2>1, <2>2, <2>3
<1>11. Begin(1)' = 1
  BY <1>8 DEF KeysArrive
<1>12. KeysArrive'
  BY <1>10, <1>11 DEF KeysArrive
<1>13. Len(forwarded') < Len(forwarded) + most => Again(k)'
  <2>1. Len(typed') > 0 /\ typed'[Len(typed')].key = k /\ typed'[Len(typed')].at = m + 1
        /\ typed'[Len(typed')].most = most
    BY <1>5
  <2> QED BY <2>1, <1>3, <1>4 DEF Again
<1> QED BY <1>5, <1>7, <1>12, <1>13

\* The last key is forwarded once more, and may be.
LEMMA KeyAgain ==
  ASSUME NotesTypeOK, KeysArrive, NEW k \in Key, Again(k), forwarded' = Append(forwarded, k), UNCHANGED typed
  PROVE  /\ forwarded' \in Seq(Key)
         /\ \A i \in DOMAIN typed' : typed'[i].at \in 1 .. Len(forwarded')
         /\ KeysArrive'
<1>1. /\ typed \in Seq([key : Key, at : Nat, most : Nat]) /\ Len(typed) \in Nat /\ DOMAIN typed = 1 .. Len(typed)
      /\ forwarded \in Seq(Key) /\ Len(forwarded) \in Nat
      /\ \A i \in 1 .. Len(typed) : typed[i].at \in 1 .. Len(forwarded) /\ typed[i].most \in Nat
  <2>1. typed \in Seq([key : Key, at : Nat, most : Nat]) /\ forwarded \in Seq(Key)
        /\ \A i \in DOMAIN typed : typed[i].at \in 1 .. Len(forwarded)
    BY DEF NotesTypeOK
  <2>2. \A i \in 1 .. Len(typed) : typed[i] \in [key : Key, at : Nat, most : Nat]
    BY <2>1, ElementOfSeq
  <2> QED BY <2>1, <2>2
<1>2. PICK n \in Nat : n = Len(typed)
  BY <1>1
<1>3. PICK m \in Nat : m = Len(forwarded)
  BY <1>1
<1>4. /\ forwarded' \in Seq(Key) /\ Len(forwarded') = m + 1
      /\ \A p \in 1 .. m : forwarded'[p] = forwarded[p]
      /\ forwarded'[m + 1] = k
  BY <1>1, <1>3, AppendProperties
<1>5. \A i \in 1 .. n : typed[i].at \in 1 .. m /\ typed[i].most \in Nat
  BY <1>1, <1>2, <1>3
<1>6. n > 0 /\ typed[n].key = k /\ m + 1 < typed[n].at + typed[n].most
  BY <1>2, <1>3 DEF Again
<1>7. /\ \A i \in 1 .. n : Begin(i)' = typed[i].at /\ Begin(i) = typed[i].at
      /\ Begin(n + 1) = m + 1 /\ Begin(n + 1)' = m + 2
  BY <1>1, <1>2, <1>3, <1>4 DEF Begin
<1>8. ASSUME NEW i \in DOMAIN typed'
      PROVE  /\ Begin(i + 1)' \in Begin(i)' + 1 .. Begin(i)' + typed'[i].most
             /\ \A p \in Begin(i)' .. Begin(i + 1)' - 1 : forwarded'[p] = typed'[i].key
  <2>0. i \in 1 .. n /\ typed' = typed
    BY <1>1, <1>2
  <2>1. /\ Begin(i + 1) \in Begin(i) + 1 .. Begin(i) + typed[i].most
        /\ \A p \in Begin(i) .. Begin(i + 1) - 1 : forwarded[p] = typed[i].key
    BY <2>0, <1>1, <1>2 DEF KeysArrive
  <2>2. typed[i].most \in Nat /\ typed[i].at \in 1 .. m
    BY <2>0, <1>5
  <2>3. CASE i # n
    <3>1. i + 1 \in 1 .. n
      BY <2>0, <2>3
    <3>2. typed[i + 1].at \in 1 .. m
      BY <3>1, <1>5
    <3>3. Begin(i + 1)' = Begin(i + 1) /\ Begin(i)' = Begin(i) /\ Begin(i + 1) \in 1 .. m /\ Begin(i) \in 1 .. m
      BY <2>0, <3>1, <1>7, <2>2, <3>2
    <3>4. \A p \in Begin(i) .. Begin(i + 1) - 1 : p \in 1 .. m
      BY <3>3
    <3> QED BY <2>0, <2>1, <3>3, <3>4, <1>4
  <2>4. CASE i = n
    <3>1. PICK at \in 1 .. m : at = typed[i].at
      BY <2>2
    <3>2. Begin(i)' = at /\ Begin(i) = at /\ Begin(i + 1) = m + 1 /\ Begin(i + 1)' = m + 2
      BY <2>0, <2>4, <3>1, <1>7
    <3>3. \A p \in at .. m : forwarded[p] = k
      BY <2>1, <2>4, <3>2, <1>6
    <3>4. \A p \in at .. m + 1 : forwarded'[p] = k
      <4> SUFFICES ASSUME NEW p \in at .. m + 1 PROVE forwarded'[p] = k
        OBVIOUS
      <4>1. p = m + 1 \/ (p \in at .. m /\ p \in 1 .. m)
        OBVIOUS
      <4> QED BY <4>1, <3>3, <1>4
    <3>5. m + 2 \in at + 1 .. at + typed[i].most
      BY <2>2, <2>4, <3>1, <1>6
    <3>6. (m + 2) - 1 = m + 1
      OBVIOUS
    <3> QED BY <2>0, <2>4, <3>2, <3>4, <3>5, <3>6, <1>6
  <2> QED BY <2>3, <2>4
<1>9. Begin(1)' = 1
  <2>1. 1 \in 1 .. n
    BY <1>6
  <2> QED BY <2>1, <1>7 DEF KeysArrive
<1>10. KeysArrive'
  BY <1>8, <1>9 DEF KeysArrive
<1>11. \A i \in DOMAIN typed' : typed'[i].at \in 1 .. Len(forwarded')
  BY <1>1, <1>3, <1>4, <1>5
<1> QED BY <1>4, <1>10, <1>11

\* A key forwarded once, for which Append is enough.
LEMMA KeyOnce ==
  ASSUME NotesTypeOK, KeysArrive, NEW k \in Key, NEW most \in Nat \ {0}, Meant(k, most),
         forwarded' = Append(forwarded, k)
  PROVE  /\ forwarded' \in Seq(Key) /\ typed' \in Seq([key : Key, at : Nat, most : Nat])
         /\ \A i \in DOMAIN typed' : typed'[i].at \in 1 .. Len(forwarded')
         /\ KeysArrive'
         /\ most > 1 => Again(k)'
<1>1. forwarded \in Seq(Key) /\ Len(forwarded) \in Nat
  BY DEF NotesTypeOK
<1>2. /\ forwarded' \in Seq(Key) /\ Len(forwarded') = Len(forwarded) + 1
      /\ \A p \in 1 .. Len(forwarded) : forwarded'[p] = forwarded[p]
      /\ forwarded'[Len(forwarded) + 1] = k
  BY <1>1
<1>3. \A p \in Len(forwarded) + 1 .. Len(forwarded') : forwarded'[p] = k
  BY <1>1, <1>2
<1>4. Len(forwarded') \in Len(forwarded) + 1 .. Len(forwarded) + most
  BY <1>1, <1>2
<1>5. most \in Nat
  OBVIOUS
<1>6. /\ typed' \in Seq([key : Key, at : Nat, most : Nat])
      /\ \A i \in DOMAIN typed' : typed'[i].at \in 1 .. Len(forwarded')
      /\ KeysArrive'
      /\ Len(forwarded') < Len(forwarded) + most => Again(k)'
  BY <1>2, <1>3, <1>4, <1>5, KeyBegins
<1>7. most > 1 => Len(forwarded') < Len(forwarded) + most
  BY <1>1, <1>2
<1> QED BY <1>2, <1>6, <1>7

\* What a key causes when nothing is due.
LEMMA CausesOne == ASSUME due = <<>>, NEW e, NEW k, Cause(<<e>>, k) PROVE due' = <<Caused(e, k)>>
<1>1. [n \in DOMAIN <<e>> |-> Caused(<<e>>[n], k)] = <<Caused(e, k)>>
  OBVIOUS
<1> QED BY <1>1 DEF Cause, Caused
LEMMA CausesTwo ==
  ASSUME due = <<>>, NEW e, NEW f, NEW k, Cause(<<e, f>>, k) PROVE due' = <<Caused(e, k), Caused(f, k)>>
<1>1. [n \in DOMAIN <<e, f>> |-> Caused(<<e, f>>[n], k)] = <<Caused(e, k), Caused(f, k)>>
  OBVIOUS
<1> QED BY <1>1 DEF Cause, Caused

\* The steps at which a letter is inserted (SoftType, ComposeEnd).
LEMMA InsertNotes ==
  ASSUME NotesInv, Habits = {}, due = <<>>, NEW c \in Letters, Insert(c), UNCHANGED <<keyNote, rest>>
  PROVE  NotesInv'
<1>1. Held = <<>> /\ ~HasNoted(c)
  BY DEF Insert, HasNoted
<1>2. /\ textNote' = [letters |-> <<c>>, left |-> TextTime]
      /\ forwarded' = Append(forwarded, c) /\ Meant(c, 1)
  BY <1>1 DEF Insert, Offer, NoteText
<1>3. due' = <<Caused("data", c)>>
  BY CausesOne DEF Insert
<1>4. NotesTypeOK /\ KeysArrive /\ c \in Key /\ 1 \in Nat \ {0}
  BY DEF NotesInv, Key
<1>5. /\ forwarded' \in Seq(Key) /\ typed' \in Seq([key : Key, at : Nat, most : Nat])
      /\ \A i \in DOMAIN typed' : typed'[i].at \in 1 .. Len(forwarded')
      /\ KeysArrive'
  BY <1>2, <1>4, KeyOnce
<1>6. NotesTypeOK'
  BY <1>2, <1>4, <1>5, KeysAssumption DEF NotesTypeOK
<1>7. DueIsNoted'
  BY <1>2, <1>3, KeysAssumption DEF DueIsNoted, Held
<1> QED BY <1>2, <1>5, <1>6, <1>7 DEF NotesInv, NoteIsShort, Pending

\* The steps at which Enter or another special key is forwarded and noted: its last note is
\* over, since the key has rested.
LEMMA RestedNotPending ==
  ASSUME NotesInv, NEW k \in Specials, rest[k] = 0
  PROVE  ~Pending(k)
  BY DEF NotesInv, NotesTypeOK, NoteIsShort, Pending

\* The note made at such a step is as short as the rest that begins with it.
LEMMA NewNoteShort ==
  ASSUME NotesInv, NEW k \in Specials,
         keyNote' = [key |-> {k}, left |-> KeyTime], rest' = [rest EXCEPT ![k] = KeyTime]
  PROVE  NoteIsShort'
<1> SUFFICES ASSUME NEW q \in Specials, Pending(q)' PROVE rest'[q] >= keyNote'.left
  BY DEF NoteIsShort
<1>1. q \in {k}
  BY DEF Pending
<1>2. rest'[k] = KeyTime
  BY DEF NotesInv, NotesTypeOK
<1> QED BY <1>1, <1>2, KeysAssumption

\* No handler breaks the invariant, on keyboards without habits.
LEMMA NotesStep == ASSUME Habits = {} PROVE NotesInv /\ [KeysNext]_keysVars => NotesInv'
<1> SUFFICES ASSUME NotesInv, [KeysNext]_keysVars PROVE NotesInv'
  OBVIOUS
<1> USE KeysAssumption
<1>types. NotesTypeOK /\ KeysArrive
  BY DEF NotesInv
<1>1. MayType => due = <<>>
  BY DEF MayType
<1>2. ASSUME NEW k \in Specials, Press(k) PROVE NotesInv'
  <2> DEFINE most == IF k = Enter THEN 2 ELSE 1
  <2>1. /\ due = <<>> /\ rest[k] = 0 /\ ~composing
        /\ Meant(k, most) /\ textNote' = textNote
        /\ rest' = [rest EXCEPT ![k] = KeyTime]
    BY <1>1, <1>2 DEF Press, Rested
  <2>2. forwarded' = Append(forwarded, k) /\ keyNote' = [key |-> {k}, left |-> KeyTime]
    BY <1>2, <2>1, RestedNotPending DEF Press, ForwardKey, NoteKey
  <2>3. k \in Key /\ most \in Nat \ {0}
    BY DEF Key
  <2> HIDE DEF most
  <2>4. /\ forwarded' \in Seq(Key) /\ typed' \in Seq([key : Key, at : Nat, most : Nat])
        /\ \A i \in DOMAIN typed' : typed'[i].at \in 1 .. Len(forwarded')
        /\ KeysArrive' /\ (most > 1 => Again(k)')
    BY <1>types, <2>1, <2>2, <2>3, KeyOnce
  <2>5. NotesTypeOK'
    BY <2>1, <2>2, <2>4 DEF NotesInv, NotesTypeOK
  <2>6. DueIsNoted'
    <3>1. CASE k = Enter
      <4>1. due' = <<Caused("keypress", Enter), Caused("linebreak", Enter)>>
        BY <1>2, <2>1, <3>1, CausesTwo DEF Press
      <4>2. Pending(Enter)' /\ Again(Enter)'
        BY <2>2, <2>4, <3>1 DEF Pending, most
      <4> QED BY <4>1, <4>2 DEF DueIsNoted
    <3>2. CASE k # Enter
      BY <1>2, <2>1, <3>2 DEF Press, DueIsNoted
    <3> QED BY <3>1, <3>2
  <2>7. NoteIsShort'
    BY <2>1, <2>2, NewNoteShort
  <2> QED BY <2>4, <2>5, <2>6, <2>7 DEF NotesInv
<1>3. ASSUME SoftEnter PROVE NotesInv'
  <2>1. /\ due = <<>> /\ due' = <<>> /\ rest[Enter] = 0
        /\ Meant(Enter, 1) /\ textNote' = textNote
        /\ rest' = [rest EXCEPT ![Enter] = KeyTime]
    BY <1>1, <1>3 DEF SoftEnter, Rested
  <2>2. forwarded' = Append(forwarded, Enter) /\ keyNote' = [key |-> {Enter}, left |-> KeyTime]
    BY <1>3, <2>1, RestedNotPending DEF SoftEnter, BreakLine, NoteKey
  <2>3. /\ forwarded' \in Seq(Key) /\ typed' \in Seq([key : Key, at : Nat, most : Nat])
        /\ \A i \in DOMAIN typed' : typed'[i].at \in 1 .. Len(forwarded')
        /\ KeysArrive'
    <3>1. Enter \in Key /\ 1 \in Nat \ {0}
      BY DEF Key
    <3> QED BY <1>types, <2>1, <2>2, <3>1, KeyOnce
  <2>4. NotesTypeOK'
    BY <2>1, <2>2, <2>3 DEF NotesInv, NotesTypeOK
  <2>5. NoteIsShort'
    BY <2>1, <2>2, NewNoteShort
  <2> QED BY <2>1, <2>3, <2>4, <2>5 DEF NotesInv, DueIsNoted
<1>4. ASSUME LineBreak PROVE NotesInv'
  <2>1. due # <<>> /\ Head(due).event = "linebreak"
    BY <1>4 DEF LineBreak, Handles
  <2>2. due = <<Caused("linebreak", Enter)>> /\ Pending(Enter)
    BY <2>1 DEF NotesInv, DueIsNoted, Caused
  <2>3. /\ due' = <<>> /\ keyNote' = NoKey
        /\ UNCHANGED <<forwarded, typed, textNote, rest>>
    BY <1>4, <2>2 DEF LineBreak, Handles, BreakLine
  <2>4. NotesTypeOK' /\ NoteIsShort' /\ KeysArrive'
    BY <2>3 DEF NotesInv, NotesTypeOK, NoteIsShort, Pending, NoKey, KeysArrive, Begin
  <2> QED BY <2>3, <2>4 DEF NotesInv, DueIsNoted
<1>5. ASSUME Keypress PROVE NotesInv'
  <2>1. due # <<>> /\ Head(due).event = "keypress"
    BY <1>5 DEF Keypress, Handles
  <2>2. /\ due = <<Caused("keypress", Enter), Caused("linebreak", Enter)>>
        /\ Pending(Enter) /\ Again(Enter)
    BY <2>1 DEF NotesInv, DueIsNoted, Caused
  <2>3. ~HasNoted(Enter)
    BY DEF NotesInv, NotesTypeOK, HasNoted, Held
  <2>4. /\ due' = <<Caused("linebreak", Enter)>> /\ forwarded' = Append(forwarded, Enter)
        /\ UNCHANGED <<typed, textNote, keyNote, rest>>
    BY <1>5, <2>2, <2>3 DEF Keypress, Handles, Report
  <2>5. /\ forwarded' \in Seq(Key)
        /\ \A i \in DOMAIN typed' : typed'[i].at \in 1 .. Len(forwarded')
        /\ KeysArrive'
    BY <1>types, <2>2, <2>4, KeyAgain DEF Key
  <2>6. NotesTypeOK' /\ NoteIsShort'
    BY <2>4, <2>5 DEF NotesInv, NotesTypeOK, NoteIsShort, Pending
  <2> QED BY <2>2, <2>4, <2>5, <2>6 DEF NotesInv, DueIsNoted, Pending
<1>6. ASSUME NEW c \in Letters, Type(c) PROVE NotesInv'
  <2> DEFINE late == IF c \in Late THEN 1 ELSE 0
             over == IF Held # <<>> THEN 1 ELSE 0
             most == 1 + late + over
  <2>1. /\ due = <<>> /\ Meant(c, most) /\ keyNote' = keyNote /\ rest' = rest /\ c \in Key
    BY <1>1, <1>6 DEF Type, Key
  <2>2. Held \in Seq(Letters) /\ Append(Held, c) \in Seq(Letters) /\ Append(Held, c) # <<>>
    <3>1. Held \in Seq(Letters)
      BY DEF NotesInv, NotesTypeOK, Held
    <3> QED BY <3>1
  <2>3. textNote' \in [letters : Seq(Letters), left : Nat]
    BY <1>6, <2>2 DEF Type, NoteText
  <2>4. forwarded \in Seq(Key) /\ Len(forwarded) \in Nat
    BY DEF NotesInv, NotesTypeOK
  <2>5. Held = <<>> => Head(Append(Held, c)) = c
    OBVIOUS
  <2>6. /\ forwarded' \in Seq(Key)
        /\ Len(forwarded') \in Len(forwarded) + 1 .. Len(forwarded) + 1 + over
        /\ \A p \in 1 .. Len(forwarded) : forwarded'[p] = forwarded[p]
        /\ \A p \in Len(forwarded) + 1 .. Len(forwarded') : forwarded'[p] = c
    <3>1. CASE Head(Append(Held, c)) = c
      <4>1. forwarded' = Append(forwarded, c)
        BY <1>6, <3>1 DEF Type
      <4> QED BY <4>1, <2>1, <2>4
    <3>2. CASE Head(Append(Held, c)) # c
      <4>1. forwarded' = forwarded \o <<c, c>> /\ over = 1
        BY <1>6, <2>5, <3>2 DEF Type
      <4>2. /\ forwarded' \in Seq(Key) /\ Len(forwarded') = Len(forwarded) + 2
            /\ \A p \in 1 .. Len(forwarded) : forwarded'[p] = forwarded[p]
            /\ forwarded'[Len(forwarded) + 1] = c /\ forwarded'[Len(forwarded) + 2] = c
        BY <4>1, <2>1, <2>4
      <4> QED BY <4>1, <4>2, <2>4
    <3> QED BY <3>1, <3>2
  <2>7. late \in {0, 1} /\ over \in {0, 1} /\ most = 1 + late + over /\ (c \in Late => late = 1)
    OBVIOUS
  <2> HIDE DEF late, over, most
  <2>8. most \in Nat /\ Len(forwarded') \in Len(forwarded) + 1 .. Len(forwarded) + most
        /\ (c \in Late => Len(forwarded') < Len(forwarded) + most)
    BY <2>4, <2>6, <2>7
  <2>9. /\ typed' \in Seq([key : Key, at : Nat, most : Nat])
        /\ \A i \in DOMAIN typed' : typed'[i].at \in 1 .. Len(forwarded')
        /\ KeysArrive' /\ (c \in Late => Again(c)')
    BY <1>types, <2>1, <2>6, <2>8, KeyBegins
  <2>10. NotesTypeOK' /\ NoteIsShort'
    BY <2>1, <2>3, <2>6, <2>9 DEF NotesInv, NotesTypeOK, NoteIsShort, Pending
  <2>11. DueIsNoted'
    <3>1. CASE c \in Late
      BY <1>6, <2>1, <2>9, <3>1, CausesOne DEF Type, DueIsNoted
    <3>2. CASE c \notin Late
      BY <1>6, <2>1, <3>2 DEF Type, DueIsNoted
    <3> QED BY <3>1, <3>2
  <2> QED BY <2>9, <2>10, <2>11 DEF NotesInv
<1>7. ASSUME BeforeInput PROVE NotesInv'
  <2>1. due # <<>> /\ Head(due).event = "beforeinput"
    BY <1>7 DEF BeforeInput, Handles
  <2>2. PICK c \in Letters : due = <<Caused("beforeinput", c)>> /\ Again(c)
    BY <2>1 DEF NotesInv, DueIsNoted, Caused
  <2>3. due' = <<>> /\ Offer(c) /\ UNCHANGED <<typed, keyNote, rest>>
    BY <1>7, <2>2 DEF BeforeInput, Handles, Caused
  <2>4. CASE HasNoted(c)
    BY <2>3, <2>4 DEF Offer, NotesInv, NotesTypeOK, DueIsNoted, NoteIsShort, Pending, KeysArrive, Begin
  <2>5. CASE ~HasNoted(c)
    <3>1. NoteText(Append(Held, c)) /\ forwarded' = Append(forwarded, c)
      BY <2>3, <2>5 DEF Offer
    <3>2. textNote' \in [letters : Seq(Letters), left : Nat]
      BY <3>1 DEF NoteText, NotesInv, NotesTypeOK, Held
    <3>3. /\ forwarded' \in Seq(Key)
          /\ \A i \in DOMAIN typed' : typed'[i].at \in 1 .. Len(forwarded')
          /\ KeysArrive'
      BY <1>types, <2>2, <2>3, <3>1, KeyAgain DEF Key
    <3> QED BY <2>3, <3>2, <3>3 DEF NotesInv, NotesTypeOK, DueIsNoted, NoteIsShort, Pending
  <2> QED BY <2>4, <2>5
<1>8. ASSUME NEW c \in Letters, SoftType(c) PROVE NotesInv'
  BY <1>1, <1>8, InsertNotes DEF SoftType
<1>9. ASSUME ComposeEnd PROVE NotesInv'
  <2>1. ASSUME NEW c \in Letters, Insert(c) PROVE NotesInv'
    BY <1>1, <1>9, <2>1, InsertNotes DEF ComposeEnd
  <2>2. ASSUME UNCHANGED <<typed, textNote, forwarded, due>> PROVE NotesInv'
    BY <1>1, <1>9, <2>2
       DEF ComposeEnd, NotesInv, NotesTypeOK, DueIsNoted, NoteIsShort, Pending, KeysArrive, Begin
  <2> QED BY <1>9, <2>1, <2>2 DEF ComposeEnd
<1>10. ASSUME Reported PROVE NotesInv'
  <2>1. due # <<>> /\ Head(due).event = "data"
    BY <1>10 DEF Reported, Handles
  <2>2. PICK c \in Letters : due = <<Caused("data", c)>> /\ Held = <<c>>
    BY <2>1 DEF NotesInv, DueIsNoted, Caused
  <2>3. Head(due).key = c /\ Tail(due) = <<>> /\ Held # <<>> /\ Head(Held) = c /\ Tail(Held) = <<>>
    BY <2>2 DEF Caused
  <2>4. /\ due' = <<>> /\ textNote' = [letters |-> <<>>, left |-> 0]
        /\ UNCHANGED <<forwarded, typed, keyNote, rest>>
    BY <1>10, <2>3 DEF Reported, Handles, Report, HasNoted
  <2>5. NotesTypeOK' /\ NoteIsShort' /\ KeysArrive'
    BY <2>4 DEF NotesInv, NotesTypeOK, NoteIsShort, Pending, KeysArrive, Begin
  <2> QED BY <2>4, <2>5 DEF NotesInv, DueIsNoted
<1>11. ASSUME Pass PROVE NotesInv'
  <2>1. due = <<>> /\ UNCHANGED <<typed, forwarded, due>>
    BY <1>11 DEF Pass
  <2>2. /\ keyNote' = [key |-> keyNote.key, left |-> Less(keyNote.left)]
        /\ textNote' = [letters |-> textNote.letters, left |-> Less(textNote.left)]
        /\ rest' = [k \in Specials |-> Less(rest[k])]
    BY <1>11 DEF Pass, NotesInv, NotesTypeOK
  <2>below. \A n \in Nat : Less(n) \in Nat /\ Less(n) <= n
    BY DEF Less
  <2>monotone. \A m, n \in Nat : m >= n => Less(m) >= Less(n)
    BY DEF Less
  <2>3. NotesTypeOK'
    BY <2>1, <2>2, <2>below DEF NotesInv, NotesTypeOK
  <2>4. DueIsNoted'
    BY <2>1 DEF DueIsNoted
  <2>5. NoteIsShort'
    <3> SUFFICES ASSUME NEW q \in Specials, Pending(q)' PROVE rest'[q] >= keyNote'.left
      BY DEF NoteIsShort
    <3>1. Less(keyNote.left) > 0 /\ keyNote.key = {q}
      BY <2>2 DEF Pending
    <3>2. keyNote.left \in Nat /\ rest[q] \in Nat
      BY DEF NotesInv, NotesTypeOK
    <3>3. keyNote.left > 0
      BY <3>1, <3>2, <2>below
    <3>4. rest[q] >= keyNote.left
      BY <3>1, <3>3 DEF NotesInv, NoteIsShort, Pending
    <3> QED BY <2>2, <2>monotone, <3>2, <3>4
  <2>6. KeysArrive'
    BY <2>1 DEF NotesInv, KeysArrive, Begin
  <2> QED BY <2>3, <2>4, <2>5, <2>6 DEF NotesInv
<1>12. ASSUME ComposeStart \/ UNCHANGED keysVars PROVE NotesInv'
  BY <1>12
     DEF ComposeStart, keysVars, NotesInv, NotesTypeOK, DueIsNoted, NoteIsShort, Pending, Held, KeysArrive, Begin, Again
<1> QED BY <1>2, <1>3, <1>4, <1>5, <1>6, <1>7, <1>8, <1>9, <1>10, <1>11, <1>12 DEF KeysNext

\* customKeyHandler, handleTextareaKeyDown, handleBeforeInput, handleCompositionEnd, onKey
\* and onData between them forward every key, in order and no more often than its events say,
\* for any keys and letters, whichever of them xterm reports at their keypress, and any times
\* of the notes; if keys come one at a time, none repeats within its time, and no soft
\* keyboard puts text in while a letter's note is left.
THEOREM KeysForwarded == ASSUME Habits = {} PROVE KeysSpec => []KeysArrive
<1>1. NotesInv => KeysArrive
  BY DEF NotesInv
<1> QED BY <1>1, NotesInit, NotesStep, PTL DEF KeysSpec

-----------------------------------------------------------------------------
(***************************************************************************)
(* TerminalScreen: what the terminal will show when xterm has parsed what  *)
(* it was given.                                                           *)
(***************************************************************************)

Cells == UNION {Range(s) : s \in Screens}
WriteRec == [clear : BOOLEAN, text : Seq(Cells), move : Int, after : Int]

ScreenTypeOK ==
  /\ page \in [text : Seq(Cells), cursor : Int] /\ shown \in Seq(Cells) /\ expected \in Seq(Cells)
  /\ writes \in Seq(WriteRec)
  /\ term \in {"loading", "failed", "ready"}
  /\ whole \in BOOLEAN /\ hurried \in BOOLEAN

\* A terminal that is not there was given nothing.
NothingBefore == term # "ready" => writes = <<>> /\ screen = Fresh

\* A write that draws nothing: it moves the cursor at most.
Pure(w) == ~w.clear /\ w.text = <<>>
PureFrom(n) == \A j \in 1 .. Len(writes) : j >= n => Pure(writes[j])

\* A new terminal is given the text as an addition to nothing.
FirstText == Write(FALSE, page.text, Stay, CursorFor(page.text, page.cursor))

\* The last write that draws starts from a cleared screen and has the whole text.
DrawnSoon ==
  \/ screen.cells = page.text /\ PureFrom(1)
  \/ \E k \in 1 .. Len(writes) : writes[k].clear /\ writes[k].text = page.text /\ PureFrom(k + 1)
  \/ screen = Fresh /\ writes = <<FirstText>>

\* What is on its way if xterm had parsed everything when it was given it.
PlacedSoon ==
  \/ writes = <<>> /\ screen.at = CursorPlace
  \/ writes = <<Draw(page.text, page.cursor)>>
  \/ screen = Fresh /\ page.text # <<>> /\ writes = <<FirstText>>
  \/ /\ screen.at = Len(page.text) /\ page.text # <<>>
     /\ CursorFor(page.text, page.cursor) # Stay
     /\ writes = <<Write(FALSE, <<>>, CursorFor(page.text, page.cursor), Stay)>>

WholeInv ==
  /\ shown = page.text
  /\ term = "ready" => DrawnSoon /\ (~hurried => PlacedSoon)

DrawInv == ScreenTypeOK /\ NothingBefore /\ (whole => WholeInv)

\* A cursor is a number, and so is where a drawing leaves it.
LEMMA CursorIsInt == ASSUME NEW text, NEW cursor \in Int PROVE CursorFor(text, cursor) \in Int
BY DEF CursorFor, Stay

\* A drawing clears, has all of the text, and nothing comes after it.
LEMMA DrawIs ==
  ASSUME NEW text \in Seq(Cells), NEW cursor \in Int
  PROVE  /\ Draw(text, cursor) \in WriteRec /\ Draw(text, cursor).clear /\ Draw(text, cursor).text = text
         /\ Draw(text, cursor).after = Stay
         /\ Draw(text, cursor).move = IF text = <<>> THEN Stay ELSE CursorFor(text, cursor)
<1>1. CursorFor(text, cursor) \in Int /\ Stay \in Int /\ <<>> \in Seq(Cells)
  BY CursorIsInt DEF Stay
<1>2. CASE text = <<>>
  BY <1>1, <1>2 DEF Draw, Clear, Write, WriteRec
<1>3. CASE text # <<>>
  BY <1>1, <1>3 DEF Draw, Write, WriteRec
<1> QED BY <1>2, <1>3

\* What the second effect adds is a write.
LEMMA FollowTypes ==
  ASSUME NEW old \in Seq(Cells), NEW text \in Seq(Cells), NEW cursor \in Int, writes \in Seq(WriteRec),
         Follow(old, text, cursor)
  PROVE  writes' \in Seq(WriteRec) /\ expected' = text
<1> DEFINE added == SubSeq(text, Len(old) + 1, Len(text))
<1>1. CursorFor(text, cursor) \in Int /\ Stay \in Int
  BY CursorIsInt DEF Stay
<1>2. added \in Seq(Cells)
  <2>1. \A i \in Len(old) + 1 .. Len(text) : text[i] \in Cells
    BY ElementOfSeq
  <2> QED BY <2>1, SubSeqProperties
<1> HIDE DEF added
<1>3. Write(FALSE, added, Stay, CursorFor(text, cursor)) \in WriteRec
  BY <1>1, <1>2 DEF Write, WriteRec
<1>4. Draw(text, cursor) \in WriteRec
  BY DrawIs
<1> DEFINE w == Write(FALSE, added, Stay, CursorFor(text, cursor))
           d == Draw(text, cursor)
<1>5. expected' = text /\ (writes' = writes \/ writes' = Append(writes, w) \/ writes' = Append(writes, d))
  BY DEF Follow, added
<1> HIDE DEF w, d
<1>6. w \in WriteRec /\ d \in WriteRec
  BY <1>3, <1>4 DEF w, d
<1>7. Append(writes, w) \in Seq(WriteRec) /\ Append(writes, d) \in Seq(WriteRec)
  BY <1>6, AppendProperties
<1>8. writes' \in Seq(WriteRec)
  BY <1>5, <1>7
<1> QED BY <1>5, <1>8

\* What is added to nothing is the whole text.
LEMMA FollowNothing ==
  ASSUME NEW text \in Seq(Cells), NEW cursor, writes = <<>>, Follow(<<>>, text, cursor)
  PROVE  writes' = IF text = <<>> THEN <<>> ELSE <<Write(FALSE, text, Stay, CursorFor(text, cursor))>>
<1>1. CASE text = <<>>
  BY <1>1 DEF Follow
<1>2. CASE text # <<>>
  <2>1. IsPrefix(<<>>, text)
    <3>1. SubSeq(text, 1, 0) = <<>>
      BY SubSeqEmpty
    <3>2. SubSeq(<<>>, 1, 0) = <<>>
      BY SubSeqEmpty
    <3> QED BY <3>1, <3>2 DEF IsPrefix
  <2>2. SubSeq(text, Len(<<>>) + 1, Len(text)) = text
    <3>1. Len(<<>>) + 1 = 1
      OBVIOUS
    <3> QED BY <3>1, SubSeqFull
  <2>3. writes' = Append(<<>>, Write(FALSE, SubSeq(text, Len(<<>>) + 1, Len(text)), Stay, CursorFor(text, cursor)))
    BY <1>2, <2>1 DEF Follow
  <2> DEFINE w == Write(FALSE, text, Stay, CursorFor(text, cursor))
  <2>4. writes' = Append(<<>>, w)
    BY <2>2, <2>3
  <2> HIDE DEF w
  <2>5. Append(<<>>, w) = <<w>>
    OBVIOUS
  <2> QED BY <1>2, <2>4, <2>5 DEF w
<1> QED BY <1>1, <1>2

\* Text put on a cleared screen is what the screen shows; no text changes nothing.
LEMMA PutOnFresh == ASSUME NEW text \in Seq(Cells) PROVE Put(<<>>, 0, text) = text
<1>1. CASE text = <<>>
  BY <1>1 DEF Put
<1>2. CASE text # <<>>
  <2>1. Len(text) \in Nat /\ text = [i \in 1 .. Len(text) |-> text[i]] /\ Len(<<>>) = 0
    OBVIOUS
  <2>2. Put(<<>>, 0, text) = [i \in 1 .. (0 + Len(text)) |->
          IF i \in 0 + 1 .. 0 + Len(text) THEN text[i - 0] ELSE IF i <= 0 THEN <<>>[i] ELSE Blank]
    BY <1>2, <2>1 DEF Put
  <2> QED BY <2>1, <2>2
<1> QED BY <1>1, <1>2

\* What xterm does with a write.
LEMMA ParsedIs ==
  ASSUME NEW w \in WriteRec
  PROVE  /\ Pure(w) => Parsed(screen, w).cells = screen.cells
         /\ w.clear \/ screen = Fresh => /\ Parsed(screen, w).cells = w.text
                                         /\ Parsed(screen, w).at = IF w.move = Stay THEN Len(w.text) ELSE w.move
         /\ w.move # Stay => Parsed(screen, w).at = w.move
<1>1. w.text \in Seq(Cells)
  BY DEF WriteRec
<1>2. Fresh.cells = <<>> /\ Fresh.at = 0
  BY DEF Fresh
<1>3. Put(Fresh.cells, Fresh.at, w.text) = w.text
  BY <1>1, <1>2, PutOnFresh
<1>4. Put(screen.cells, screen.at, <<>>) = screen.cells
  BY DEF Put
<1>5. Pure(w) => Parsed(screen, w).cells = screen.cells
  BY <1>4 DEF Parsed, Pure
<1>6. 0 + Len(w.text) = Len(w.text)
  BY <1>1
<1>7. w.clear \/ screen = Fresh =>
         /\ Parsed(screen, w).cells = w.text
         /\ Parsed(screen, w).at = IF w.move = Stay THEN Len(w.text) ELSE w.move
  BY <1>2, <1>3, <1>6 DEF Parsed
<1>8. w.move # Stay => Parsed(screen, w).at = w.move
  BY DEF Parsed
<1> QED BY <1>5, <1>7, <1>8

\* What is left to parse: the rest, and the move that comes after the write.
LEMMA ParseLeaves ==
  ASSUME writes \in Seq(WriteRec), Parse
  PROVE  /\ writes # <<>> /\ Head(writes) = writes[1] /\ writes[1] \in WriteRec /\ Len(writes) \in Nat /\ Len(writes) >= 1
         /\ screen' = Parsed(screen, writes[1])
         /\ writes' \in Seq(WriteRec)
         /\ Len(writes') \in {Len(writes) - 1, Len(writes)}
         /\ \A j \in 1 .. Len(writes) - 1 : writes'[j] = writes[j + 1]
         /\ Len(writes') = Len(writes) => Pure(writes'[Len(writes)])
         /\ Len(writes) = 1 => writes' = IF writes[1].after = Stay THEN <<>>
                                         ELSE <<Write(FALSE, <<>>, writes[1].after, Stay)>>
<1> DEFINE w == writes[1]
           m == Write(FALSE, <<>>, w.after, Stay)
           n == Len(writes)
           t == Tail(writes)
<1>1. writes # <<>> /\ Head(writes) = w /\ w \in WriteRec /\ n \in Nat /\ n >= 1
  BY HeadTailProperties DEF Parse
<1>2. t \in Seq(WriteRec) /\ Len(t) = n - 1 /\ \A j \in 1 .. n - 1 : t[j] = writes[j + 1]
  BY <1>1, HeadTailProperties
<1>3. screen' = Parsed(screen, w) /\ writes' = t \o (IF w.after = Stay THEN <<>> ELSE <<m>>)
  BY <1>1 DEF Parse
<1>4. m \in WriteRec /\ Pure(m)
  BY <1>1 DEF WriteRec, Write, Pure, Stay
<1> HIDE DEF m, t, w
<1>5. CASE w.after = Stay
  <2>1. writes' = t
    BY <1>2, <1>3, <1>5
  <2>2. n = 1 => t = <<>>
    BY <1>2
  <2> QED BY <1>1, <1>2, <1>3, <1>5, <2>1, <2>2 DEF w
<1>6. CASE w.after # Stay
  <2>1. writes' = t \o <<m>>
    BY <1>3, <1>6
  <2>2. /\ writes' \in Seq(WriteRec) /\ Len(writes') = n
        /\ \A j \in 1 .. n - 1 : writes'[j] = t[j]
        /\ writes'[n] = m
    BY <1>1, <1>2, <1>4, <2>1
  <2>3. n = 1 => writes' = <<m>>
    BY <1>2, <2>1
  <2> QED BY <1>1, <1>2, <1>3, <1>4, <1>6, <2>2, <2>3 DEF w, m
<1> QED BY <1>5, <1>6

\* Parsing brings the terminal closer to the text ...
LEMMA ParseDraws ==
  ASSUME ScreenTypeOK, DrawnSoon, Parse PROVE DrawnSoon'
<1> DEFINE n == Len(writes)
<1>0. writes \in Seq(WriteRec) /\ page.text \in Seq(Cells) /\ page' = page
  BY DEF ScreenTypeOK, Parse
<1>1. /\ n \in Nat /\ n >= 1 /\ writes[1] \in WriteRec
      /\ screen' = Parsed(screen, writes[1]) /\ Len(writes') \in {n - 1, n}
      /\ \A j \in 1 .. n - 1 : writes'[j] = writes[j + 1]
      /\ Len(writes') = n => Pure(writes'[n])
  BY <1>0, ParseLeaves
<1>2. ASSUME NEW k \in 1 .. n, PureFrom(k + 1) PROVE PureFrom(k)'
  <2>1. \A j \in 1 .. Len(writes') : j >= k => Pure(writes'[j])
    BY <1>1, <1>2 DEF PureFrom
  <2> QED BY <2>1 DEF PureFrom, Pure
<1>3. CASE screen.cells = page.text /\ PureFrom(1)
  <2>1. Pure(writes[1]) /\ PureFrom(2)
    BY <1>1, <1>3 DEF PureFrom
  <2>2. screen'.cells = page.text
    BY <1>1, <1>3, <2>1, ParsedIs
  <2>3. PureFrom(1)'
    BY <1>1, <1>2, <2>1
  <2> QED BY <1>0, <2>2, <2>3 DEF DrawnSoon
<1>4. ASSUME NEW k \in 1 .. n, writes[k].clear, writes[k].text = page.text, PureFrom(k + 1)
      PROVE  DrawnSoon'
  <2>1. CASE k = 1
    <3>1. screen'.cells = page.text
      BY <1>1, <1>4, <2>1, ParsedIs
    <3>2. PureFrom(1)'
      BY <1>1, <1>2, <1>4, <2>1
    <3> QED BY <1>0, <3>1, <3>2 DEF DrawnSoon
  <2>2. CASE k # 1
    <3> DEFINE i == k - 1
    <3>1. i \in 1 .. n - 1 /\ i \in 1 .. Len(writes') /\ i + 1 = k
      BY <1>1, <2>2
    <3>2. writes'[i].clear /\ writes'[i].text = page'.text
      BY <1>0, <1>1, <1>4, <3>1
    <3>3. PureFrom(i + 1)'
      BY <1>2, <1>4, <3>1
    <3> HIDE DEF i
    <3> QED BY <3>1, <3>2, <3>3 DEF DrawnSoon
  <2> QED BY <2>1, <2>2
<1>5. CASE screen = Fresh /\ writes = <<FirstText>>
  <2>1. n = 1 /\ writes[1] = FirstText
    BY <1>5
  <2>2. writes[1].text = page.text
    BY <2>1 DEF FirstText, Write
  <2>3. screen'.cells = page.text
    BY <1>1, <1>5, <2>2, ParsedIs
  <2>4. PureFrom(1)'
    BY <1>1, <1>2, <2>1 DEF PureFrom
  <2> QED BY <1>0, <2>3, <2>4 DEF DrawnSoon
<1> QED BY <1>3, <1>4, <1>5 DEF DrawnSoon

\* ... and its cursor to its place.
LEMMA ParsePlaces ==
  ASSUME ScreenTypeOK, PlacedSoon, Parse PROVE PlacedSoon'
<1> DEFINE c == CursorFor(page.text, page.cursor)
<1>0. /\ writes \in Seq(WriteRec) /\ page.text \in Seq(Cells) /\ page.cursor \in Int /\ page' = page
      /\ c # Stay => c = page.cursor
      /\ page.text = <<>> => Len(page.text) = 0
  BY DEF ScreenTypeOK, Parse, CursorFor
<1>1. writes # <<>> /\ writes[1] \in WriteRec /\ screen' = Parsed(screen, writes[1])
  BY <1>0, ParseLeaves
<1>2. Len(writes) = 1 => writes' = IF writes[1].after = Stay THEN <<>>
                                   ELSE <<Write(FALSE, <<>>, writes[1].after, Stay)>>
  BY <1>0, ParseLeaves
<1>3. CASE writes = <<Draw(page.text, page.cursor)>>
  <2>1. Len(writes) = 1 /\ writes[1] = Draw(page.text, page.cursor)
    BY <1>3
  <2>2. /\ writes[1].clear /\ writes[1].text = page.text /\ writes[1].after = Stay
        /\ writes[1].move = IF page.text = <<>> THEN Stay ELSE c
    BY <1>0, <2>1, DrawIs
  <2>3. writes' = <<>>
    BY <1>2, <2>1, <2>2
  <2>4. screen'.at = IF writes[1].move = Stay THEN Len(page.text) ELSE writes[1].move
    BY <1>1, <2>2, ParsedIs
  <2>5. screen'.at = CursorPlace
    BY <1>0, <2>2, <2>4 DEF CursorPlace
  <2> QED BY <1>0, <2>3, <2>5 DEF PlacedSoon, CursorPlace
<1>4. CASE screen = Fresh /\ page.text # <<>> /\ writes = <<FirstText>>
  <2>1. Len(writes) = 1 /\ writes[1] = FirstText
    BY <1>4
  <2>2. writes[1].text = page.text /\ writes[1].after = c /\ writes[1].move = Stay
    BY <2>1 DEF FirstText, Write
  <2>3. screen'.at = Len(page.text)
    BY <1>1, <1>4, <2>2, ParsedIs
  <2>4. CASE c = Stay
    <3>1. writes' = <<>> /\ screen'.at = CursorPlace
      BY <1>2, <2>1, <2>2, <2>3, <2>4 DEF CursorPlace
    <3> QED BY <1>0, <3>1 DEF PlacedSoon, CursorPlace
  <2>5. CASE c # Stay
    <3>1. writes' = <<Write(FALSE, <<>>, c, Stay)>>
      BY <1>2, <2>1, <2>2, <2>5
    <3> QED BY <1>0, <1>4, <2>3, <2>5, <3>1 DEF PlacedSoon
  <2> QED BY <2>4, <2>5
<1>5. CASE page.text # <<>> /\ c # Stay /\ writes = <<Write(FALSE, <<>>, c, Stay)>>
  <2>1. Len(writes) = 1 /\ writes[1] = Write(FALSE, <<>>, c, Stay)
    BY <1>5
  <2>2. writes[1].after = Stay /\ writes[1].move = c
    BY <2>1 DEF Write
  <2>3. writes' = <<>>
    BY <1>2, <2>1, <2>2
  <2>4. screen'.at = c
    BY <1>1, <1>5, <2>2, ParsedIs
  <2>5. screen'.at = CursorPlace
    BY <1>0, <1>5, <2>4 DEF CursorPlace
  <2> QED BY <1>0, <2>3, <2>5 DEF PlacedSoon, CursorPlace
<1> QED BY <1>1, <1>3, <1>4, <1>5 DEF PlacedSoon

\* Everything the page can show is a sequence of cells.
LEMMA TextsAreCells == \A text \in Screens : text \in Seq(Cells)
BY ScreenAssumption DEF Cells

\* At first there is no terminal, and no text.
LEMMA DrawInvInit == ScreenInit => DrawInv
<1> SUFFICES ASSUME ScreenInit PROVE DrawInv
  OBVIOUS
<1>1. <<>> \in Seq(Cells) /\ <<>> \in Seq(WriteRec) /\ NoCursor \in Int
  BY DEF NoCursor
<1>2. page \in [text : Seq(Cells), cursor : Int] /\ page.text = <<>>
  BY <1>1 DEF ScreenInit
<1> QED BY <1>1, <1>2 DEF ScreenInit, DrawInv, ScreenTypeOK, NothingBefore, WholeInv

\* A terminal starts with the text the page renders.
LEMMA BootDraws == DrawInv /\ Boot => DrawInv'
<1> SUFFICES ASSUME DrawInv, Boot PROVE DrawInv'
  OBVIOUS
<1>1. /\ writes = <<>> /\ screen = Fresh /\ ScreenTypeOK /\ Follow(<<>>, shown, page.cursor)
      /\ term' = "ready" /\ whole' = (shown = page.text) /\ hurried' = FALSE
      /\ UNCHANGED <<page, shown, screen>>
  BY DEF DrawInv, NothingBefore, Boot
<1>0. shown \in Seq(Cells) /\ page.cursor \in Int /\ <<>> \in Seq(Cells)
  BY <1>1 DEF ScreenTypeOK
<1>2. writes' = IF shown = <<>> THEN <<>> ELSE <<Write(FALSE, shown, Stay, CursorFor(shown, page.cursor))>>
  BY <1>0, <1>1, FollowNothing
<1>3. writes' \in Seq(WriteRec) /\ expected' = shown
  BY <1>0, <1>1, FollowTypes DEF ScreenTypeOK
<1>4. ScreenTypeOK'
  BY <1>1, <1>3 DEF ScreenTypeOK
<1>5. ASSUME shown = page.text PROVE DrawnSoon' /\ PlacedSoon'
  <2>1. CASE shown = <<>>
    <3>1. writes' = <<>> /\ screen'.cells = page'.text /\ screen'.at = 0 /\ Len(page'.text) = 0
      BY <1>1, <1>2, <1>5, <2>1 DEF Fresh
    <3>2. PureFrom(1)'
      BY <3>1 DEF PureFrom
    <3>3. screen'.at = CursorPlace'
      BY <1>1, <1>5, <2>1, <3>1 DEF CursorPlace
    <3> QED BY <3>1, <3>2, <3>3 DEF DrawnSoon, PlacedSoon
  <2>2. CASE shown # <<>>
    <3>1. screen' = Fresh /\ page'.text # <<>> /\ writes' = <<FirstText'>>
      BY <1>1, <1>2, <1>5, <2>2 DEF FirstText
    <3> QED BY <3>1 DEF DrawnSoon, PlacedSoon, Fresh
  <2> QED BY <2>1, <2>2
<1> QED BY <1>1, <1>4, <1>5 DEF DrawInv, NothingBefore, WholeInv

\* A frame that brings its cursor is drawn anew; what was given before is cleared.
LEMMA FrameDraws ==
  ASSUME DrawInv, NEW text \in Screens, NEW cursor \in Columns \cup {Same}, Frame(text, cursor) PROVE DrawInv'
<1> DEFINE c == IF cursor = Same THEN page.cursor ELSE cursor
<1>9. cursor \in Int /\ page.cursor \in Int /\ text \in Seq(Cells)
  BY TextsAreCells, ScreenAssumption DEF DrawInv, ScreenTypeOK, Same
<1>0. /\ ScreenTypeOK /\ text \in Seq(Cells) /\ c \in Int
      /\ page' = [text |-> text, cursor |-> c] /\ shown' = text /\ term' = term /\ screen' = screen
      /\ whole' = (term # "ready" \/ cursor # Same) /\ hurried' = (writes # <<>>)
  BY <1>9 DEF DrawInv, Frame
<1>1. CASE term # "ready"
  <2>1. UNCHANGED <<expected, writes>>
    BY <1>1 DEF Frame
  <2> QED BY <1>0, <1>1, <2>1 DEF DrawInv, ScreenTypeOK, NothingBefore, WholeInv
<1>2. CASE term = "ready" /\ cursor # Same
  <2> DEFINE d == Draw(text, c)
  <2>1. expected' = text /\ writes' = Append(writes, d)
    BY <1>2 DEF Frame, Redraw
  <2>2. d \in WriteRec /\ d.clear /\ d.text = text
    BY <1>0, DrawIs
  <2> HIDE DEF d, c
  <2>3. writes \in Seq(WriteRec) /\ Len(writes) \in Nat
    BY <1>0 DEF ScreenTypeOK
  <2>4. /\ writes' \in Seq(WriteRec) /\ Len(writes') = Len(writes) + 1 /\ writes'[Len(writes) + 1] = d
    BY <2>1, <2>2, <2>3
  <2>5. ScreenTypeOK'
    BY <1>0, <2>1, <2>4 DEF ScreenTypeOK
  <2>6. DrawnSoon'
    <3>1. PICK last \in Nat : last = Len(writes) + 1
      BY <2>3
    <3>2. last \in 1 .. Len(writes') /\ writes'[last].clear /\ writes'[last].text = page'.text
      BY <1>0, <2>2, <2>3, <2>4, <3>1
    <3>3. PureFrom(last + 1)'
      BY <2>3, <2>4, <3>1 DEF PureFrom
    <3> QED BY <3>2, <3>3 DEF DrawnSoon
  <2>7. writes = <<>> => PlacedSoon'
    <3>1. writes = <<>> => writes' = <<d>>
      BY <2>1
    <3> QED BY <1>0, <3>1 DEF PlacedSoon, d
  <2> QED BY <1>0, <1>2, <2>5, <2>6, <2>7 DEF DrawInv, NothingBefore, WholeInv
<1>3. CASE term = "ready" /\ cursor = Same
  <2>1. Follow(expected, text, page.cursor)
    BY <1>3 DEF Frame
  <2>2. writes' \in Seq(WriteRec) /\ expected' = text
    BY <1>0, <2>1, FollowTypes DEF ScreenTypeOK
  <2> QED BY <1>0, <1>3, <2>2 DEF DrawInv, ScreenTypeOK, NothingBefore
<1> QED BY <1>1, <1>2, <1>3

\* Another session's terminal starts with nothing.
LEMMA SwitchDraws ==
  ASSUME DrawInv, NEW text \in Screens, NEW cursor \in Columns \cup {NoCursor}, Switch(text, cursor) PROVE DrawInv'
<1>1. text \in Seq(Cells) /\ cursor \in Int /\ <<>> \in Seq(Cells) /\ <<>> \in Seq(WriteRec)
  BY TextsAreCells, ScreenAssumption DEF NoCursor
<1> QED BY <1>1 DEF DrawInv, ScreenTypeOK, NothingBefore, Switch

\* The deferred render only follows what had not come whole.
LEMMA CatchUpDraws == DrawInv /\ CatchUp => DrawInv'
<1> SUFFICES ASSUME DrawInv, CatchUp PROVE DrawInv'
  OBVIOUS
<1>1. ~whole /\ ~whole' /\ ScreenTypeOK /\ UNCHANGED <<page, term, screen>>
  BY DEF DrawInv, WholeInv, CatchUp, ScreenTypeOK
<1>2. CASE term = "ready"
  <2>1. Follow(expected, page.text, page.cursor)
    BY <1>2 DEF CatchUp
  <2>2. writes' \in Seq(WriteRec) /\ expected' = page.text
    BY <1>1, <2>1, FollowTypes DEF ScreenTypeOK
  <2> QED BY <1>1, <1>2, <2>2 DEF DrawInv, ScreenTypeOK, NothingBefore, CatchUp
<1>3. CASE term # "ready"
  BY <1>1, <1>3 DEF DrawInv, ScreenTypeOK, NothingBefore, CatchUp
<1> QED BY <1>2, <1>3

\* xterm parses.
LEMMA ParseKeeps == DrawInv /\ Parse => DrawInv'
<1> SUFFICES ASSUME DrawInv, Parse PROVE DrawInv'
  OBVIOUS
<1>1. writes' \in Seq(WriteRec) /\ writes # <<>>
  BY ParseLeaves DEF DrawInv, ScreenTypeOK
<1>2. term = "ready"
  BY <1>1 DEF DrawInv, NothingBefore
<1>3. ScreenTypeOK' /\ NothingBefore'
  BY <1>1, <1>2 DEF DrawInv, ScreenTypeOK, NothingBefore, Parse
<1>4. whole => DrawnSoon' /\ (~hurried => PlacedSoon')
  BY <1>2, ParseDraws, ParsePlaces DEF DrawInv, WholeInv
<1> QED BY <1>3, <1>4 DEF DrawInv, WholeInv, Parse

\* Every step keeps the invariant.
LEMMA DrawInvStep == DrawInv /\ [ScreenNext]_screenVars => DrawInv'
<1> SUFFICES ASSUME DrawInv, [ScreenNext]_screenVars PROVE DrawInv'
  OBVIOUS
<1>1. CASE Import \/ BootFails \/ Retry \/ UNCHANGED screenVars
  <2>1. UNCHANGED <<page, shown, expected, writes, screen, whole, hurried>>
    BY <1>1 DEF Import, BootFails, Retry, screenVars
  <2>2. term' = term \/ (term # "ready" /\ term' \in {"failed", "loading"})
    BY <1>1 DEF Import, BootFails, Retry, screenVars
  <2>3. ScreenTypeOK' /\ NothingBefore'
    BY <2>1, <2>2 DEF DrawInv, ScreenTypeOK, NothingBefore
  <2>4. /\ CursorPlace' = CursorPlace /\ FirstText' = FirstText
        /\ DrawnSoon => DrawnSoon'
        /\ PlacedSoon => PlacedSoon'
    BY <2>1 DEF CursorPlace, FirstText, DrawnSoon, PlacedSoon, PureFrom
  <2> QED BY <2>1, <2>2, <2>3, <2>4 DEF DrawInv, WholeInv
<1> QED BY <1>1, BootDraws, FrameDraws, SwitchDraws, CatchUpDraws, ParseKeeps DEF ScreenNext

\* A terminal that has come to rest after a frame that brought its cursor, or after it
\* was started with the session's own text, shows that text, whatever was drawn before
\* and however the writes queue up; its cursor is in place if xterm kept up.
THEOREM ScreenShowsText == ScreenSpec => []ScreenInv
<1>1. DrawInv => ScreenInv
  <2> SUFFICES ASSUME DrawInv, Settled, whole PROVE DrawnRight /\ (~hurried => screen.at = CursorPlace)
    BY DEF ScreenInv
  <2>1. writes = <<>> /\ DrawnSoon /\ (~hurried => PlacedSoon)
    BY DEF DrawInv, WholeInv, Settled
  <2>2. Len(writes) = 0 /\ \A w : <<w>> # <<>>
    BY <2>1
  <2>3. DrawnRight
    BY <2>1, <2>2 DEF DrawnSoon, DrawnRight
  <2>4. ~hurried => screen.at = CursorPlace
    BY <2>1, <2>2 DEF PlacedSoon
  <2> QED BY <2>3, <2>4
<1> QED BY <1>1, DrawInvInit, DrawInvStep, PTL DEF ScreenSpec

-----------------------------------------------------------------------------
(***************************************************************************)
(* SessionSelection: why what was chosen is shown.  The list that is       *)
(* rendered, the shown session before what waits, and all that waits leave *)
(* it in place (WishIsShown, ListIsShown).                                 *)
(***************************************************************************)
Listed == [sid : Sids, running : BOOLEAN]
Shown == Sids \cup {NoSid}
Modes == {"auto", "manual", "restored"}
Picture == [list : Seq(Listed), active : Shown, mode : Modes]
Waiting == [kind : {"list", "state", "set", "clear"}, list : Seq(Listed), sid : Shown]

SelectionTypeOK ==
  /\ {desktop, suppressed, connected, answered} \subseteq BOOLEAN
  /\ sessions \in Seq(Listed) /\ active \in Shown /\ base \in Shown /\ mode \in Modes
  /\ waiting \in Seq(Waiting)
  /\ \A i \in DOMAIN waiting :
       waiting[i].kind = "state" => waiting[i].sid \in SidsOf(waiting[i].list)

\* The wished session is shown by choice, as before the waiting updates; none of them
\* shows another, and it is in the list, unless the first list is still to come.
WishIsShown ==
  wish \in Sids =>
    /\ active = wish /\ base = wish /\ mode # "auto"
    /\ \A i \in DOMAIN waiting : waiting[i].kind \in {"list", "state"}
    /\ \/ wish \in SidsOf(sessions)
       \/ sessions = <<>> /\ (waiting = <<>> => ~answered) /\ (waiting # <<>> => waiting[1].kind = "list")

\* From the k-th waiting update on no session is shown, whatever was shown before.
NoneFrom(k) ==
  /\ k = 0 => base = NoSid
  /\ k > 0 => waiting[k].kind \in {"set", "clear"} /\ waiting[k].sid = NoSid
  /\ \A i \in k + 1 .. Len(waiting) : waiting[i].kind \in {"set", "clear"} => waiting[i].sid = NoSid
ListIsShown ==
  wish = AtList =>
    /\ ~desktop /\ suppressed /\ active = NoSid
    /\ \E k \in 0 .. Len(waiting) : NoneFrom(k)

ChoiceInv == SelectionTypeOK /\ WishIsShown /\ ListIsShown

\* A set of numbers has a least one.
LEMMA LeastNumber ==
  ASSUME NEW T \in SUBSET Nat, T # {} PROVE \E n \in T : \A m \in T : n <= m
<1>1. PICK Below : IsWellFoundedOn(Below, Nat) /\ \A r, s \in Nat : r < s => <<r, s>> \in Below
  <2>1. \A r, s \in Nat : r < s => <<r, s>> \in OpToRel(<, Nat)
    BY DEF OpToRel
  <2> QED BY <2>1, NatLessThanWellFounded, Zenon
<1>2. PICK n \in T : \A m \in T : <<m, n>> \notin Below
  <2>1. IsWellFoundedOn(Below, Nat)
    BY <1>1
  <2> QED BY <2>1, WFMin, Zenon
<1>3. \A m \in T : n <= m
  <2> TAKE m \in T
  <2>1. n \in Nat /\ m \in Nat
    OBVIOUS
  <2>2. ~(m < n)
    BY <1>1, <1>2, <2>1
  <2> QED BY <2>1, <2>2
<1> QED BY <1>3

\* Induction, on a set of numbers.
LEMMA AllNumbers ==
  ASSUME NEW T, 0 \in T, \A n \in Nat : n \in T => n + 1 \in T
  PROVE  Nat \subseteq T
<1> SUFFICES ASSUME Nat \ T # {} PROVE FALSE
  OBVIOUS
<1>1. PICK n \in Nat \ T : \A m \in Nat \ T : n <= m
  BY LeastNumber
<1> QED BY <1>1

\* What is chosen by rank is in the list (App.tsx pickPreferredSession).
LEMMA PreferredListed ==
  ASSUME NEW list \in Seq(Listed), list # <<>> PROVE Preferred(list) \in SidsOf(list)
<1> DEFINE D == DOMAIN list
           Running == {i \in D : list[i].running}
           First == IF Running # {} THEN Running ELSE D
           Pins == {i \in First : list[i].sid \in pinned'}
           Best == IF Pins # {} THEN Pins ELSE First
<1>1. D = 1 .. Len(list) /\ Len(list) \in Nat /\ D # {}
  OBVIOUS
<1>2. Best \subseteq First /\ First \subseteq D /\ Best # {}
  BY <1>1
<1>3. PICK n \in Best : \A m \in Best : n <= m
  <2>1. Best \in SUBSET Nat
    BY <1>1, <1>2
  <2> HIDE DEF Best
  <2> QED BY <2>1, <1>2, LeastNumber
<1>4. \A j \in D \ {n} : Outranks(list, n, j)
  <2> SUFFICES ASSUME NEW j \in D, j # n PROVE Outranks(list, n, j)
    OBVIOUS
  <2>0. n \in D /\ n \in First /\ list[n].running \in BOOLEAN /\ list[j].running \in BOOLEAN
    <3>1. n \in First /\ n \in D
      BY <1>2, <1>3
    <3>2. list[n] \in Listed /\ list[j] \in Listed
      <4> HIDE DEF Listed
      <4> QED BY <1>1, <3>1
    <3> QED BY <3>1, <3>2 DEF Listed
  <2>1. CASE j \in Best
    <3>1. n < j
      BY <1>1, <1>2, <1>3, <2>1
    <3>2. list[n].running = list[j].running
      BY <1>2, <1>3, <2>0, <2>1
    <3>3. list[n].sid \in pinned' <=> list[j].sid \in pinned'
      BY <1>3, <2>1
    <3> QED BY <3>1, <3>2, <3>3 DEF Outranks
  <2>2. CASE j \in First \ Best
    <3>1. list[n].running = list[j].running
      BY <1>2, <1>3, <2>0, <2>2
    <3>2. list[n].sid \in pinned' /\ list[j].sid \notin pinned'
      BY <1>3, <2>2
    <3> QED BY <3>1, <3>2 DEF Outranks
  <2>3. CASE j \notin First
    BY <2>0, <2>3 DEF Outranks
  <2> QED BY <2>1, <2>2, <2>3
<1> DEFINE chosen == CHOOSE i \in D : \A j \in D \ {i} : Outranks(list, i, j)
<1>5. chosen \in D
  <2>1. \E i \in D : \A j \in D \ {i} : Outranks(list, i, j)
    BY <1>2, <1>3, <1>4
  <2> QED BY <2>1
<1>6. Preferred(list) = list[chosen].sid
  BY DEF Preferred
<1> QED BY <1>5, <1>6 DEF SidsOf

\* Filtering keeps everything else (App.tsx session.state).
LEMMA WithoutFits ==
  ASSUME NEW list \in Seq(Listed), NEW sid
  PROVE  /\ Without(list, sid) \in Seq(Listed)
         /\ \A other \in SidsOf(list) \ {sid} : other \in SidsOf(Without(list, sid))
<1> DEFINE last == Len(list)
           Grown(before, n) == IF list[n].sid = sid THEN before ELSE Append(before, list[n])
           IsKept(kept, m) == kept = [n \in 0 .. m |-> IF n = 0 THEN <<>> ELSE Grown(kept[n - 1], n)]
           some == CHOOSE kept : IsKept(kept, last)
<1>1. last \in Nat
  OBVIOUS
<1> HIDE DEF Grown
<1>2. \E kept : IsKept(kept, last)
  <2> DEFINE T == {n \in Nat : \E kept : IsKept(kept, n)}
  <2>1. 0 \in T
    <3>1. IsKept([n \in 0 .. 0 |-> <<>>], 0)
      OBVIOUS
    <3> QED BY <3>1
  <2>2. ASSUME NEW m \in Nat, m \in T PROVE m + 1 \in T
    <3>1. PICK kept : IsKept(kept, m)
      BY <2>2
    <3> DEFINE more == [n \in 0 .. m + 1 |-> IF n <= m THEN kept[n] ELSE Grown(kept[m], n)]
    <3>2. \A n \in 0 .. m : more[n] = kept[n]
      OBVIOUS
    <3>3. \A n \in 0 .. m + 1 : more[n] = IF n = 0 THEN <<>> ELSE Grown(more[n - 1], n)
      BY <3>1, <3>2
    <3>4. IsKept(more, m + 1)
      BY <3>3
    <3> HIDE DEF more, IsKept
    <3>5. \E longer : IsKept(longer, m + 1)
      BY <3>4
    <3> QED BY <3>5
  <2> HIDE DEF T
  <2>3. Nat \subseteq T
    BY <2>1, <2>2, AllNumbers
  <2> HIDE DEF IsKept, last
  <2>4. last \in T
    BY <1>1, <2>3
  <2> QED BY <2>4 DEF T
<1>3. IsKept(some, last)
  BY <1>2
<1>4. Without(list, sid) = some[last]
  BY DEF Without, Grown
<1>5. \A n \in 0 .. last : some[n] = IF n = 0 THEN <<>> ELSE Grown(some[n - 1], n)
  BY <1>3
<1> HIDE DEF some, IsKept
<1> DEFINE Right(n) == /\ some[n] \in Seq(Listed)
                       /\ \A i \in 1 .. n : list[i].sid # sid => list[i].sid \in SidsOf(some[n])
<1>6. Right(last)
  <2> DEFINE T == {n \in Nat : n <= last => Right(n)}
  <2>1. 0 \in T
    <3>1. some[0] = <<>> /\ <<>> \in Seq(Listed) /\ 1 .. 0 = {}
      BY <1>1, <1>5
    <3>2. Right(0)
      BY <3>1
    <3> HIDE DEF Right
    <3> QED BY <3>2
  <2>2. ASSUME NEW n \in Nat, n \in T PROVE n + 1 \in T
    <3> SUFFICES ASSUME n + 1 <= last PROVE Right(n + 1)
      OBVIOUS
    <3>1. Right(n) /\ list[n + 1] \in Listed
      BY <1>1, <2>2
    <3>2. some[n + 1] = Grown(some[n], n + 1)
      BY <1>1, <1>5
    <3>3. some[n + 1] = IF list[n + 1].sid = sid THEN some[n] ELSE Append(some[n], list[n + 1])
      BY <3>2 DEF Grown
    <3> HIDE DEF last
    <3>4. PICK was : was = some[n]
      OBVIOUS
    <3>5. was \in Seq(Listed) /\ \A i \in 1 .. n : list[i].sid # sid => list[i].sid \in SidsOf(was)
      BY <3>1, <3>4
    <3>6. CASE list[n + 1].sid = sid
      <4>1. some[n + 1] = was
        BY <3>3, <3>4, <3>6
      <4> QED BY <4>1, <3>5, <3>6
    <3>7. CASE list[n + 1].sid # sid
      <4>1. some[n + 1] = Append(was, list[n + 1])
        BY <3>3, <3>4, <3>7
      <4>2. Append(was, list[n + 1]) \in Seq(Listed)
        BY <3>1, <3>5
      <4>3. /\ DOMAIN Append(was, list[n + 1]) = 1 .. Len(was) + 1 /\ DOMAIN was = 1 .. Len(was)
            /\ Len(was) \in Nat
            /\ \A i \in 1 .. Len(was) : Append(was, list[n + 1])[i] = was[i]
            /\ Append(was, list[n + 1])[Len(was) + 1] = list[n + 1]
        BY <3>1, <3>5
      <4>4. SidsOf(was) \subseteq SidsOf(Append(was, list[n + 1]))
        BY <4>3 DEF SidsOf
      <4>5. list[n + 1].sid \in SidsOf(Append(was, list[n + 1]))
        BY <4>3 DEF SidsOf
      <4> QED BY <4>1, <4>2, <4>4, <4>5, <3>5
    <3> QED BY <3>6, <3>7
  <2> HIDE DEF T
  <2>3. Nat \subseteq T
    BY <2>1, <2>2, AllNumbers
  <2>4. last \in T
    BY <1>1, <2>3
  <2> QED BY <2>4 DEF T
<1>7. \A other \in SidsOf(list) \ {sid} : other \in SidsOf(some[last])
  <2> SUFFICES ASSUME NEW i \in DOMAIN list, list[i].sid # sid PROVE list[i].sid \in SidsOf(some[last])
    BY DEF SidsOf
  <2>1. i \in 1 .. last
    OBVIOUS
  <2> HIDE DEF last
  <2> QED BY <2>1, <1>6
<1> HIDE DEF last
<1> QED BY <1>4, <1>6, <1>7

\* What two lists have together.
LEMMA SidsOfBoth ==
  ASSUME NEW one \in Seq(Listed), NEW two \in Seq(Listed)
  PROVE  SidsOf(one \o two) = SidsOf(one) \cup SidsOf(two)
<1>1. /\ Len(one) \in Nat /\ Len(two) \in Nat /\ DOMAIN one = 1 .. Len(one) /\ DOMAIN two = 1 .. Len(two)
      /\ DOMAIN (one \o two) = 1 .. Len(one) + Len(two)
      /\ \A i \in 1 .. Len(one) + Len(two) :
           (one \o two)[i] = IF i <= Len(one) THEN one[i] ELSE two[i - Len(one)]
  OBVIOUS
<1>2. SidsOf(one \o two) \subseteq SidsOf(one) \cup SidsOf(two)
  <2> SUFFICES ASSUME NEW i \in 1 .. Len(one) + Len(two)
               PROVE  (one \o two)[i].sid \in SidsOf(one) \cup SidsOf(two)
    BY <1>1 DEF SidsOf
  <2>1. CASE i <= Len(one)
    BY <1>1, <2>1 DEF SidsOf
  <2>2. CASE i > Len(one)
    <3>1. i - Len(one) \in DOMAIN two /\ (one \o two)[i] = two[i - Len(one)]
      BY <1>1, <2>2
    <3> QED BY <3>1 DEF SidsOf
  <2> QED BY <1>1, <2>1, <2>2
<1>3. SidsOf(one) \subseteq SidsOf(one \o two)
  <2> SUFFICES ASSUME NEW i \in 1 .. Len(one) PROVE one[i].sid \in SidsOf(one \o two)
    BY <1>1 DEF SidsOf
  <2>1. i \in DOMAIN (one \o two) /\ (one \o two)[i] = one[i]
    BY <1>1
  <2> QED BY <2>1 DEF SidsOf
<1>4. SidsOf(two) \subseteq SidsOf(one \o two)
  <2> SUFFICES ASSUME NEW i \in 1 .. Len(two) PROVE two[i].sid \in SidsOf(one \o two)
    BY <1>1 DEF SidsOf
  <2>1. Len(one) + i \in DOMAIN (one \o two) /\ (one \o two)[Len(one) + i] = two[i]
    BY <1>1
  <2> QED BY <2>1 DEF SidsOf
<1> QED BY <1>2, <1>3, <1>4

\* One update of a picture makes a picture.
LEMMA AppliedFits ==
  ASSUME NEW was \in Picture, NEW u \in Waiting PROVE Applied(was, u) \in Picture
<1>1. ListAfter(was.list, u) \in Seq(Listed)
  <2>1. was.list \in Seq(Listed) /\ u.list \in Seq(Listed) /\ Without(was.list, u.sid) \in Seq(Listed)
    BY WithoutFits DEF Picture, Waiting
  <2> QED BY <2>1 DEF ListAfter
<1>2. was.active \in Shown /\ was.mode \in Modes /\ u.sid \in Shown /\ NoSid \in Shown /\ "auto" \in Modes
  BY DEF Picture, Waiting, Shown, Modes
<1> QED BY <1>1, <1>2 DEF Applied, Picture

\* The updates that wait are applied one after the other (React).
LEMMA OneByOne ==
  ASSUME waiting \in Seq(Waiting), NEW was \in Picture
  PROVE  \E after \in [0 .. Len(waiting) -> Picture] :
           /\ after[0] = was
           /\ \A n \in 1 .. Len(waiting) : after[n] = Applied(after[n - 1], waiting[n])
           /\ AppliedAll(was) = after[Len(waiting)]
<1> DEFINE last == Len(waiting)
           Next(before, n) == Applied(before, waiting[n])
           IsRun(after, m) == after = [n \in 0 .. m |-> IF n = 0 THEN was ELSE Next(after[n - 1], n)]
           some == CHOOSE after : IsRun(after, last)
<1>1. last \in Nat
  OBVIOUS
<1> HIDE DEF Next
<1>2. \E after : IsRun(after, last)
  <2> DEFINE T == {n \in Nat : \E after : IsRun(after, n)}
  <2>1. 0 \in T
    <3>1. IsRun([n \in 0 .. 0 |-> was], 0)
      OBVIOUS
    <3> QED BY <3>1
  <2>2. ASSUME NEW m \in Nat, m \in T PROVE m + 1 \in T
    <3>1. PICK after : IsRun(after, m)
      BY <2>2
    <3> DEFINE more == [n \in 0 .. m + 1 |-> IF n <= m THEN after[n] ELSE Next(after[m], n)]
    <3>2. \A n \in 0 .. m : more[n] = after[n]
      OBVIOUS
    <3>3. \A n \in 0 .. m + 1 : more[n] = IF n = 0 THEN was ELSE Next(more[n - 1], n)
      BY <3>1, <3>2
    <3>4. IsRun(more, m + 1)
      BY <3>3
    <3> HIDE DEF more, IsRun
    <3>5. \E longer : IsRun(longer, m + 1)
      BY <3>4
    <3> QED BY <3>5
  <2> HIDE DEF T
  <2>3. Nat \subseteq T
    BY <2>1, <2>2, AllNumbers
  <2> HIDE DEF IsRun, last
  <2>4. last \in T
    BY <1>1, <2>3
  <2> QED BY <2>4 DEF T
<1>3. IsRun(some, last)
  BY <1>2
<1>4. AppliedAll(was) = some[last]
  BY DEF AppliedAll, Next
<1>5. \A n \in 0 .. last : some[n] = IF n = 0 THEN was ELSE Next(some[n - 1], n)
  BY <1>3
<1>6. some = [n \in 0 .. last |-> some[n]]
  BY <1>3
<1> HIDE DEF some, IsRun
<1>7. \A n \in 0 .. last : some[n] \in Picture
  <2> DEFINE T == {n \in Nat : n <= last => some[n] \in Picture}
  <2>1. 0 \in T
    BY <1>1, <1>5
  <2>2. ASSUME NEW n \in Nat, n \in T PROVE n + 1 \in T
    <3> SUFFICES ASSUME n + 1 <= last PROVE some[n + 1] \in Picture
      OBVIOUS
    <3>1. some[n] \in Picture /\ waiting[n + 1] \in Waiting
      <4> HIDE DEF Picture
      <4> QED BY <1>1, <2>2
    <3>2. some[n + 1] = Applied(some[n], waiting[n + 1])
      BY <1>1, <1>5 DEF Next
    <3> QED BY <3>1, <3>2, AppliedFits
  <2> HIDE DEF T
  <2>3. Nat \subseteq T
    BY <2>1, <2>2, AllNumbers
  <2> QED BY <2>3 DEF T
<1>8. some[0] = was /\ \A n \in 1 .. last : some[n] = Applied(some[n - 1], waiting[n])
  BY <1>1, <1>5 DEF Next
<1>9. some \in [0 .. last -> Picture]
  <2> HIDE DEF last, Picture
  <2> QED BY <1>6, <1>7
<1> QED BY <1>4, <1>8, <1>9

\* The picture that the waiting updates are applied to.
Before == [list |-> sessions, active |-> base, mode |-> mode]

\* A wished session that no waiting list lacks is shown and listed after them.
LEMMA WishSurvives ==
  ASSUME ChoiceInv, wish \in Sids, waiting # <<>>,
         \A i \in DOMAIN waiting : waiting[i].kind = "list" => wish \in SidsOf(waiting[i].list)
  PROVE  LET now == AppliedAll(Before)
         IN  now \in Picture /\ now.active = wish /\ now.mode = mode /\ wish \in SidsOf(now.list)
<1> DEFINE last == Len(waiting)
<1>0. Before \in Picture
  BY DEF Before, Picture, ChoiceInv, SelectionTypeOK
<1>1. waiting \in Seq(Waiting) /\ last \in Nat /\ last > 0 /\ DOMAIN waiting = 1 .. last
  BY DEF ChoiceInv, SelectionTypeOK
<1>2. PICK after \in [0 .. last -> Picture] :
           /\ after[0] = Before
           /\ \A n \in 1 .. last : after[n] = Applied(after[n - 1], waiting[n])
           /\ AppliedAll(Before) = after[last]
  BY <1>0, <1>1, OneByOne
<1> DEFINE Right(n) == /\ after[n].active = wish /\ after[n].mode = mode
                       /\ n > 0 \/ wish \in SidsOf(sessions) => wish \in SidsOf(after[n].list)
<1>3. \A n \in Nat : n <= last => Right(n)
  <2> DEFINE T == {n \in Nat : n <= last => Right(n)}
  <2>1. 0 \in T
    BY <1>2 DEF Before, ChoiceInv, WishIsShown
  <2>2. ASSUME NEW n \in Nat, n \in T PROVE n + 1 \in T
    <3> SUFFICES ASSUME n + 1 <= last PROVE Right(n + 1)
      OBVIOUS
    <3>1. Right(n) /\ after[n] \in Picture
      BY <1>1, <1>2, <2>2
    <3>2. PICK u \in Waiting : u = waiting[n + 1]
      <4> HIDE DEF Waiting
      <4> QED BY <1>1
    <3>3. after[n + 1] = Applied(after[n], u)
      BY <1>1, <1>2, <3>2
    <3>4. n + 1 \in DOMAIN waiting
      BY <1>1
    <3>5. CASE u.kind = "list"
      <4>1. wish \in SidsOf(u.list)
        BY <3>2, <3>4, <3>5
      <4>2. after[n + 1] = [list |-> u.list, active |-> after[n].active, mode |-> after[n].mode]
        BY <3>1, <3>3, <3>5, <4>1 DEF Applied, ListAfter
      <4> QED BY <3>1, <4>1, <4>2
    <3>6. CASE u.kind = "state"
      <4>1. after[n + 1] = [list |-> u.list \o Without(after[n].list, u.sid),
                            active |-> after[n].active, mode |-> after[n].mode]
        BY <3>3, <3>6 DEF Applied, ListAfter
      <4>2. wish \in SidsOf(after[n].list)
        <5>1. CASE n = 0
          <6>1. waiting[1].kind # "list" /\ waiting[1] = u
            BY <3>2, <3>6, <5>1
          <6>2. wish \in SidsOf(sessions)
            BY <6>1 DEF ChoiceInv, WishIsShown
          <6> QED BY <6>2, <3>1
        <5> QED BY <5>1, <3>1
      <4>3. PICK list \in Seq(Listed) : list = after[n].list
        BY <3>1 DEF Picture
      <4>4. PICK others : others = Without(list, u.sid)
        OBVIOUS
      <4>5. others \in Seq(Listed) /\ (wish # u.sid => wish \in SidsOf(others))
        BY <4>2, <4>3, <4>4, WithoutFits
      <4>6. u.list \in Seq(Listed) /\ u.sid \in SidsOf(u.list)
        BY <3>2, <3>4, <3>6 DEF Waiting, ChoiceInv, SelectionTypeOK
      <4>7. SidsOf(u.list \o others) = SidsOf(u.list) \cup SidsOf(others)
        BY <4>5, <4>6, SidsOfBoth
      <4> QED BY <4>1, <4>3, <4>4, <4>5, <4>6, <4>7, <3>1
    <3> QED BY <3>2, <3>4, <3>5, <3>6 DEF ChoiceInv, WishIsShown
  <2> HIDE DEF T
  <2>3. Nat \subseteq T
    BY <2>1, <2>2, AllNumbers
  <2> QED BY <2>3 DEF T
<1> HIDE DEF Right
<1>4. Right(last) /\ AppliedAll(Before) = after[last] /\ after[last] \in Picture
  BY <1>1, <1>2, <1>3
<1> QED BY <1>1, <1>4 DEF Right

\* At the end of what waits there is no session for a user who is at the list.
LEMMA ListSurvives ==
  ASSUME ChoiceInv, wish = AtList
  PROVE  AppliedAll(Before).active = NoSid
<1> DEFINE last == Len(waiting)
<1>0. Before \in Picture
  BY DEF Before, Picture, ChoiceInv, SelectionTypeOK
<1>1. waiting \in Seq(Waiting) /\ last \in Nat /\ DOMAIN waiting = 1 .. last
  BY DEF ChoiceInv, SelectionTypeOK
<1>2. PICK after \in [0 .. last -> Picture] :
           /\ after[0] = Before
           /\ \A n \in 1 .. last : after[n] = Applied(after[n - 1], waiting[n])
           /\ AppliedAll(Before) = after[last]
  BY <1>0, <1>1, OneByOne
<1>3. PICK k \in 0 .. last : NoneFrom(k)
  BY DEF ChoiceInv, ListIsShown
<1> DEFINE T == {n \in Nat : k <= n /\ n <= last => after[n].active = NoSid}
<1>4. 0 \in T
  BY <1>2, <1>3 DEF Before, NoneFrom
<1>5. ASSUME NEW n \in Nat, n \in T PROVE n + 1 \in T
  <2> SUFFICES ASSUME k <= n + 1, n + 1 <= last PROVE after[n + 1].active = NoSid
    OBVIOUS
  <2>1. PICK u \in Waiting : u = waiting[n + 1]
    <3> HIDE DEF Waiting
    <3> QED BY <1>1
  <2>2. after[n + 1].active = IF u.kind \in {"set", "clear"} THEN u.sid
                               ELSE IF u.kind = "list" /\ after[n].active \notin SidsOf(u.list)
                                    THEN NoSid ELSE after[n].active
    <3>1. after[n + 1] = Applied(after[n], u)
      BY <1>1, <1>2, <2>1
    <3> QED BY <3>1 DEF Applied
  <2>3. CASE k = n + 1
    BY <1>3, <2>1, <2>2, <2>3 DEF NoneFrom
  <2>4. CASE k <= n
    <3>1. after[n].active = NoSid
      BY <1>5, <2>4
    <3>2. u.kind \in {"set", "clear"} => u.sid = NoSid
      BY <1>1, <1>3, <2>1, <2>4 DEF NoneFrom
    <3> QED BY <2>2, <3>1, <3>2
  <2> QED BY <2>3, <2>4
<1> HIDE DEF T
<1>6. Nat \subseteq T
  BY <1>4, <1>5, AllNumbers
<1>7. after[last].active = NoSid
  BY <1>1, <1>6 DEF T
<1> QED BY <1>2, <1>7

\* What is committed is a picture again.
LEMMA CommittedFits ==
  ASSUME NEW now \in Picture, Committed(now)
  PROVE  sessions' \in Seq(Listed) /\ active' \in Shown /\ mode' \in Modes
<1>1. now.list \in Seq(Listed) /\ now.active \in Shown /\ now.mode \in Modes
  BY DEF Picture
<1>2. now.list # <<>> => Preferred(now.list) \in Shown
  <2> SUFFICES ASSUME now.list # <<>> PROVE Preferred(now.list) \in Shown
    OBVIOUS
  <2>1. Preferred(now.list) \in SidsOf(now.list)
    BY <1>1, PreferredListed
  <2>2. \A i \in DOMAIN now.list : now.list[i].sid \in Sids
    <3>1. \A i \in DOMAIN now.list : now.list[i] \in Listed
      <4> HIDE DEF Listed
      <4> QED BY <1>1
    <3> QED BY <3>1 DEF Listed
  <2> QED BY <2>1, <2>2 DEF SidsOf, Shown
<1> QED BY <1>1, <1>2 DEF Committed, Modes

\* The effect leaves alone what was chosen and is listed, an empty list, and a phone
\* that stays at the list.
LEMMA CommittedKeeps ==
  ASSUME NEW now, Committed(now),
         \/ now.list = <<>> \/ (~desktop' /\ suppressed')
         \/ now.active \in SidsOf(now.list) /\ now.mode # "auto"
  PROVE  active' = now.active /\ mode' = now.mode
BY DEF Committed

\* What happens at once keeps the types; it waits beside what waited before.
LEMMA UrgentFits ==
  ASSUME SelectionTypeOK, NEW list \in Seq(Listed), NEW sid \in Shown, NEW m \in Modes,
         NEW update \in Seq(Waiting), \A i \in DOMAIN update : update[i].kind # "state",
         Urgent(list, sid, m, update)
  PROVE  /\ sessions' \in Seq(Listed) /\ active' \in Shown /\ base' \in Shown /\ mode' \in Modes
         /\ waiting' \in Seq(Waiting)
         /\ \A i \in DOMAIN waiting' :
              waiting'[i].kind = "state" => waiting'[i].sid \in SidsOf(waiting'[i].list)
<1>1. sessions' \in Seq(Listed) /\ active' \in Shown /\ mode' \in Modes
  <2>1. PICK now : now = [list |-> list, active |-> sid, mode |-> m]
    OBVIOUS
  <2>2. now \in Picture /\ Committed(now)
    BY <2>1 DEF Picture, Urgent
  <2> QED BY <2>2, CommittedFits
<1>2. base' \in Shown
  BY <1>1 DEF Urgent, SelectionTypeOK
<1>3. PICK more : more = IF active' = sid THEN <<>> ELSE <<Update("set", <<>>, active')>>
  OBVIOUS
<1>4. more \in Seq(Waiting) /\ \A i \in DOMAIN more : more[i].kind # "state"
  <2>1. Update("set", <<>>, active') \in Waiting /\ Update("set", <<>>, active').kind = "set"
    BY <1>1 DEF Update, Waiting
  <2> HIDE DEF Waiting
  <2> QED BY <1>3, <2>1
<1>5. CASE waiting = <<>>
  <2>1. waiting' = <<>>
    BY <1>5 DEF Urgent
  <2> QED BY <1>1, <1>2, <2>1
<1>6. CASE waiting # <<>>
  <2>1. waiting' = waiting \o update \o more
    BY <1>3, <1>6 DEF Urgent
  <2>2. waiting \in Seq(Waiting)
    BY DEF SelectionTypeOK
  <2> HIDE DEF Waiting
  <2>3. waiting' \in Seq(Waiting)
    BY <1>4, <2>1, <2>2
  <2>4. \A i \in DOMAIN waiting' : waiting'[i].kind = "state" => i \in DOMAIN waiting /\ waiting'[i] = waiting[i]
    BY <1>4, <2>1, <2>2
  <2> QED BY <1>1, <1>2, <2>3, <2>4 DEF SelectionTypeOK
<1> QED BY <1>5, <1>6

\* A user who wants nothing in particular is content.
LEMMA AnythingGoes == ASSUME wish' = Anything PROVE WishIsShown' /\ ListIsShown'
BY SelectionAssumption DEF WishIsShown, ListIsShown, Anything, AtList

\* A render of something else leaves alone what is shown.
LEMMA RenderKeeps ==
  ASSUME ChoiceInv, SelectionTypeOK', Urgent(sessions, active, mode, <<>>), answered' = answered, wish' = wish,
         wish = AtList => UNCHANGED <<desktop, suppressed>>
  PROVE  WishIsShown' /\ ListIsShown'
<1> DEFINE now == [list |-> sessions, active |-> active, mode |-> mode]
<1>1. Committed(now) /\ sessions' = sessions
  BY DEF Urgent, Committed
<1>2. ASSUME active' = active, wish \in Sids \/ wish = AtList PROVE waiting' = waiting /\ (waiting # <<>> => base' = base)
  <2>1. waiting \in Seq(Waiting)
    BY DEF ChoiceInv, SelectionTypeOK
  <2> HIDE DEF Waiting
  <2> QED BY <1>2, <2>1 DEF Urgent
<1>3. CASE wish \in Sids
  <2>1. (active \in SidsOf(sessions) /\ mode # "auto") \/ sessions = <<>>
    BY <1>3 DEF ChoiceInv, WishIsShown
  <2>2. active' = active /\ mode' = mode
    BY <1>1, <2>1, CommittedKeeps
  <2>3. base' = wish
    BY <1>2, <1>3, <2>2 DEF Urgent, ChoiceInv, WishIsShown
  <2>4. WishIsShown'
    BY <1>1, <1>2, <1>3, <2>2, <2>3 DEF ChoiceInv, WishIsShown
  <2> QED BY <1>3, <2>4, SelectionAssumption DEF ListIsShown, AtList
<1>4. CASE wish = AtList
  <2>1. active' = active
    BY <1>1, <1>4, CommittedKeeps DEF ChoiceInv, ListIsShown
  <2>2. PICK k \in 0 .. Len(waiting) : NoneFrom(k)
    BY <1>4 DEF ChoiceInv, ListIsShown
  <2>3. waiting = <<>> => base' = NoSid
    BY <1>4, <2>1 DEF Urgent, ChoiceInv, ListIsShown
  <2>4. NoneFrom(k)' /\ k \in 0 .. Len(waiting')
    BY <1>2, <1>4, <2>1, <2>2, <2>3 DEF NoneFrom
  <2>5. ListIsShown'
    BY <1>4, <2>1, <2>4 DEF ChoiceInv, ListIsShown
  <2> QED BY <1>4, <2>5, SelectionAssumption DEF WishIsShown, AtList
<1> QED BY <1>3, <1>4 DEF WishIsShown, ListIsShown

\* One that stays at the list sees it from now on, whatever waits.
LEMMA ListFromNow ==
  ASSUME SelectionTypeOK, NEW list, NEW m, NEW u, u.kind \in {"set", "clear"}, u.sid = NoSid,
         Urgent(list, NoSid, m, <<u>>), ~desktop', suppressed'
  PROVE  active' = NoSid /\ \E k \in 0 .. Len(waiting') : NoneFrom(k)'
<1>1. active' = NoSid
  <2>1. PICK now : now = [list |-> list, active |-> NoSid, mode |-> m]
    OBVIOUS
  <2>2. Committed(now)
    BY <2>1 DEF Urgent
  <2> QED BY <2>1, <2>2, CommittedKeeps
<1>2. CASE waiting = <<>>
  <2>1. waiting' = <<>> /\ base' = NoSid
    BY <1>1, <1>2 DEF Urgent
  <2>2. NoneFrom(0)' /\ 0 \in 0 .. Len(waiting')
    BY <2>1 DEF NoneFrom
  <2> QED BY <1>1, <2>2
<1>3. CASE waiting # <<>>
  <2>0. waiting' = waiting \o <<u>> \o <<>>
    BY <1>1, <1>3 DEF Urgent
  <2>1. waiting \in Seq(Waiting)
    BY DEF SelectionTypeOK
  <2> HIDE DEF Waiting
  <2>2. PICK n \in Nat : n = Len(waiting)
    BY <2>1
  <2>3. Len(waiting') = n + 1 /\ waiting'[n + 1] = u
    BY <2>0, <2>1, <2>2
  <2>4. NoneFrom(n + 1)' /\ n + 1 \in 0 .. Len(waiting')
    BY <2>2, <2>3 DEF NoneFrom
  <2> QED BY <1>1, <2>4
<1> QED BY <1>2, <1>3

\* A message adds an update that leaves activeSid to the render.
LEMMA TellKeeps ==
  ASSUME ChoiceInv, NEW u \in Waiting, u.kind \in {"list", "state"},
         u.kind = "state" => u.sid \in SidsOf(u.list) /\ answered,
         waiting' = Append(waiting, u), answered' \in BOOLEAN,
         UNCHANGED <<desktop, sessions, active, base, mode, suppressed, connected, wish>>
  PROVE  ChoiceInv'
<1> USE DEF ChoiceInv
<1>1. waiting \in Seq(Waiting)
  BY DEF SelectionTypeOK
<1>2. PICK n \in Nat : n = Len(waiting) /\ DOMAIN waiting = 1 .. n
  BY <1>1
<1>3. /\ waiting' \in Seq(Waiting) /\ Len(waiting') = n + 1 /\ DOMAIN waiting' = 1 .. n + 1
      /\ waiting'[n + 1] = u /\ \A i \in 1 .. n : waiting'[i] = waiting[i]
      /\ waiting' # <<>> /\ (waiting = <<>> => n = 0)
  <2> HIDE DEF Waiting
  <2> QED BY <1>1, <1>2
<1>4. SelectionTypeOK'
  BY <1>2, <1>3 DEF SelectionTypeOK
<1>5. WishIsShown'
  <2> SUFFICES ASSUME wish \in Sids PROVE WishIsShown'
    BY DEF WishIsShown
  <2>1. \A i \in DOMAIN waiting' : waiting'[i].kind \in {"list", "state"}
    BY <1>2, <1>3 DEF WishIsShown
  <2>2. sessions = <<>> /\ wish \notin SidsOf(sessions) => waiting'[1].kind = "list"
    <3>1. CASE waiting = <<>>
      BY <1>3, <3>1 DEF WishIsShown
    <3>2. CASE waiting # <<>>
      <4>1. n > 0
        BY <1>1, <1>2, <3>2
      <4> QED BY <1>3, <3>2, <4>1 DEF WishIsShown
    <3> QED BY <3>1, <3>2
  <2> QED BY <1>3, <2>1, <2>2 DEF WishIsShown
<1>6. ListIsShown'
  <2> SUFFICES ASSUME wish = AtList PROVE ListIsShown'
    BY DEF ListIsShown
  <2>1. PICK k \in 0 .. n : NoneFrom(k)
    BY <1>2 DEF ListIsShown
  <2>2. NoneFrom(k)' /\ k \in 0 .. Len(waiting')
    BY <1>2, <1>3, <2>1 DEF NoneFrom
  <2> QED BY <2>2 DEF ListIsShown
<1> QED BY <1>4, <1>5, <1>6

\* What was reported is rendered.
LEMMA RenderReportsKeeps == ASSUME ChoiceInv, RenderReports PROVE ChoiceInv'
<1>1. PICK now : now = AppliedAll(Before)
  OBVIOUS
<1>2. Committed(now) /\ waiting' = <<>> /\ base' = active' /\ waiting # <<>>
  BY <1>1 DEF RenderReports, Before
<1>3. now \in Picture
  <2>1. Before \in Picture /\ waiting \in Seq(Waiting)
    BY DEF Before, Picture, ChoiceInv, SelectionTypeOK
  <2>2. PICK after \in [0 .. Len(waiting) -> Picture] : AppliedAll(Before) = after[Len(waiting)]
    BY <2>1, OneByOne
  <2>3. Len(waiting) \in Nat
    BY <2>1
  <2> HIDE DEF Picture
  <2> QED BY <1>1, <2>2, <2>3
<1>4. SelectionTypeOK'
  <2>1. sessions' \in Seq(Listed) /\ active' \in Shown /\ mode' \in Modes
    BY <1>2, <1>3, CommittedFits
  <2>2. waiting' \in Seq(Waiting) /\ DOMAIN waiting' = {}
    BY <1>2
  <2> QED BY <1>2, <2>1, <2>2 DEF RenderReports, ChoiceInv, SelectionTypeOK
<1>5. CASE wish \in Sids /\ wish' = wish
  <2>1. \A i \in DOMAIN waiting : waiting[i].kind = "list" => wish \in SidsOf(waiting[i].list)
    BY <1>5, SelectionAssumption DEF RenderReports, Anything
  <2>2. now.active = wish /\ now.mode = mode /\ wish \in SidsOf(now.list)
    BY <1>1, <1>2, <1>5, <2>1, WishSurvives
  <2>3. mode # "auto"
    BY <1>5 DEF ChoiceInv, WishIsShown
  <2>4. active' = wish /\ mode' = mode /\ sessions' = now.list
    BY <1>2, <2>2, <2>3, CommittedKeeps DEF Committed
  <2>5. WishIsShown'
    BY <1>2, <1>5, <2>2, <2>3, <2>4 DEF WishIsShown
  <2> QED BY <1>4, <1>5, <2>5, SelectionAssumption DEF ChoiceInv, ListIsShown, AtList
<1>6. CASE wish = AtList
  <2>1. now.active = NoSid
    BY <1>1, <1>6, ListSurvives
  <2>2. wish' = wish /\ ~desktop' /\ suppressed'
    BY <1>6, SelectionAssumption DEF RenderReports, ChoiceInv, ListIsShown, AtList
  <2>3. active' = NoSid
    BY <1>2, <2>1, <2>2, CommittedKeeps
  <2>4. NoneFrom(0)' /\ 0 \in 0 .. Len(waiting')
    BY <1>2, <2>3 DEF NoneFrom
  <2>5. ListIsShown'
    BY <1>6, <2>2, <2>3, <2>4 DEF ListIsShown
  <2> QED BY <1>4, <1>6, <2>2, <2>5, SelectionAssumption DEF ChoiceInv, WishIsShown, AtList
<1>7. CASE wish' = Anything
  BY <1>4, <1>7, AnythingGoes DEF ChoiceInv
<1>8. CASE wish \notin Sids /\ wish # AtList
  BY <1>4, <1>8 DEF RenderReports, ChoiceInv, WishIsShown, ListIsShown
<1> QED BY <1>5, <1>6, <1>7, <1>8 DEF RenderReports

\* The user chooses a session while nothing waits.
LEMMA ChooseKeeps ==
  ASSUME ChoiceInv, Haste = {}, NEW sid \in Sids, Choose(sid) PROVE ChoiceInv'
<1> DEFINE u == Update("set", <<>>, sid)
           now == [list |-> sessions, active |-> sid, mode |-> "manual"]
<1>1. waiting = <<>> /\ Urgent(sessions, sid, "manual", <<u>>)
  BY DEF Choose
<1>2. SelectionTypeOK'
  <2>1. u \in Waiting /\ u.kind # "state" /\ sid \in Shown /\ "manual" \in Modes
    BY DEF Update, Waiting, Shown, Modes
  <2> HIDE DEF Waiting, u
  <2>2. <<u>> \in Seq(Waiting) /\ \A i \in DOMAIN <<u>> : <<u>>[i].kind # "state"
    BY <2>1
  <2>3. SelectionTypeOK /\ sessions \in Seq(Listed)
    BY DEF ChoiceInv, SelectionTypeOK
  <2>4. /\ sessions' \in Seq(Listed) /\ active' \in Shown /\ base' \in Shown /\ mode' \in Modes
        /\ waiting' \in Seq(Waiting)
        /\ \A i \in DOMAIN waiting' :
             waiting'[i].kind = "state" => waiting'[i].sid \in SidsOf(waiting'[i].list)
    BY <1>1, <2>1, <2>2, <2>3, UrgentFits
  <2> QED BY <2>3, <2>4 DEF Choose, SelectionTypeOK
<1>3. CASE sid \in SidsOf(sessions)
  <2>1. Committed(now) /\ waiting' = <<>> /\ base' = active' /\ sessions' = sessions
    BY <1>1 DEF Urgent, Committed
  <2>2. active' = sid /\ mode' = "manual"
    BY <1>3, <2>1, CommittedKeeps
  <2>3. wish' = sid
    BY <1>3 DEF Choose
  <2>4. WishIsShown'
    BY <1>3, <2>1, <2>2, <2>3 DEF WishIsShown
  <2> QED BY <1>2, <2>3, <2>4, SelectionAssumption DEF ChoiceInv, ListIsShown, AtList
<1>4. CASE sid \notin SidsOf(sessions)
  BY <1>2, <1>4, AnythingGoes DEF Choose, ChoiceInv
<1> QED BY <1>3, <1>4

\* The user stays at a list, or wants nothing in particular.
LEMMA LeaveKeeps ==
  ASSUME ChoiceInv, NEW list \in Seq(Listed), NEW m \in Modes, NEW kind \in {"set", "clear"},
         Urgent(list, NoSid, m, <<Update(kind, <<>>, NoSid)>>),
         UNCHANGED <<desktop, connected, answered>>, suppressed' \in BOOLEAN,
         wish' = Anything \/ (wish' = AtList /\ ~desktop /\ suppressed')
  PROVE  ChoiceInv'
<1> DEFINE u == Update(kind, <<>>, NoSid)
<1>1. u \in Waiting /\ u.kind \in {"set", "clear"} /\ u.kind # "state" /\ u.sid = NoSid /\ NoSid \in Shown
  BY DEF Update, Waiting, Shown
<1> HIDE DEF u
<1>2. SelectionTypeOK'
  <2> HIDE DEF Waiting
  <2>1. <<u>> \in Seq(Waiting) /\ \A i \in DOMAIN <<u>> : <<u>>[i].kind # "state"
    BY <1>1
  <2>2. SelectionTypeOK
    BY DEF ChoiceInv
  <2>3. Urgent(list, NoSid, m, <<u>>)
    BY DEF u
  <2>4. /\ sessions' \in Seq(Listed) /\ active' \in Shown /\ base' \in Shown /\ mode' \in Modes
        /\ waiting' \in Seq(Waiting)
        /\ \A i \in DOMAIN waiting' :
             waiting'[i].kind = "state" => waiting'[i].sid \in SidsOf(waiting'[i].list)
    BY <1>1, <2>1, <2>2, <2>3, UrgentFits
  <2> QED BY <2>2, <2>4 DEF SelectionTypeOK
<1>3. CASE wish' = Anything
  BY <1>2, <1>3, AnythingGoes DEF ChoiceInv
<1>4. CASE wish' = AtList /\ ~desktop /\ suppressed'
  <2>1. SelectionTypeOK /\ Urgent(list, NoSid, m, <<u>>) /\ ~desktop'
    BY <1>4 DEF u, ChoiceInv
  <2>2. active' = NoSid /\ \E k \in 0 .. Len(waiting') : NoneFrom(k)'
    BY <1>1, <1>4, <2>1, ListFromNow
  <2>3. ListIsShown'
    BY <1>4, <2>1, <2>2 DEF ListIsShown
  <2> QED BY <1>2, <1>4, <2>3, SelectionAssumption DEF ChoiceInv, WishIsShown, AtList
<1> QED BY <1>3, <1>4

\* A render that brings no session: pins, connections, another width.
LEMMA RerenderKeeps ==
  ASSUME ChoiceInv, Urgent(sessions, active, mode, <<>>),
         UNCHANGED <<suppressed, answered>>, desktop' \in BOOLEAN, connected' \in BOOLEAN,
         wish' = Anything \/ (wish' = wish /\ (wish = AtList => desktop' = desktop))
  PROVE  ChoiceInv'
<1>1. SelectionTypeOK'
  <2>1. <<>> \in Seq(Waiting) /\ DOMAIN <<>> = {}
    OBVIOUS
  <2>2. SelectionTypeOK /\ sessions \in Seq(Listed) /\ active \in Shown /\ mode \in Modes
    BY DEF ChoiceInv, SelectionTypeOK
  <2> HIDE DEF Waiting
  <2>3. /\ sessions' \in Seq(Listed) /\ active' \in Shown /\ base' \in Shown /\ mode' \in Modes
        /\ waiting' \in Seq(Waiting)
        /\ \A i \in DOMAIN waiting' :
             waiting'[i].kind = "state" => waiting'[i].sid \in SidsOf(waiting'[i].list)
    BY <2>1, <2>2, UrgentFits
  <2> QED BY <2>2, <2>3 DEF SelectionTypeOK
<1>2. CASE wish' = Anything
  BY <1>1, <1>2, AnythingGoes DEF ChoiceInv
<1>3. CASE wish' = wish /\ (wish = AtList => desktop' = desktop)
  <2>1. WishIsShown' /\ ListIsShown'
    BY <1>1, <1>3, RenderKeeps
  <2> QED BY <1>1, <2>1 DEF ChoiceInv
<1> QED BY <1>2, <1>3

LEMMA SelectionStep ==
  ASSUME ChoiceInv, Haste = {}, [SelectionNext]_selectionVars PROVE ChoiceInv'
<1>0. /\ {desktop, suppressed, connected, answered} \subseteq BOOLEAN
      /\ sessions \in Seq(Listed) /\ mode \in Modes
  BY DEF ChoiceInv, SelectionTypeOK
<1>1. ASSUME NEW list \in Lists, List(list) PROVE ChoiceInv'
  <2> DEFINE u == Update("list", list, NoSid)
  <2>1. u \in Waiting /\ u.kind = "list"
    BY SelectionAssumption DEF Update, Waiting, Shown, Listed
  <2>2. waiting' = Append(waiting, u) /\ answered' \in BOOLEAN
    BY <1>1 DEF List
  <2> HIDE DEF u
  <2> QED BY <1>1, <2>1, <2>2, TellKeeps DEF List
<1>2. ASSUME NEW sid \in Sids, NEW running \in BOOLEAN, State(sid, running) PROVE ChoiceInv'
  <2> DEFINE row == [sid |-> sid, running |-> running]
             u == Update("state", <<row>>, sid)
  <2>1. row \in Listed /\ row.sid = sid
    BY DEF Listed
  <2> HIDE DEF row
  <2>2. <<row>> \in Seq(Listed) /\ DOMAIN <<row>> = {1} /\ <<row>>[1] = row
    BY <2>1
  <2>3. sid \in SidsOf(<<row>>)
    BY <2>1, <2>2 DEF SidsOf
  <2>4. u \in Waiting /\ u.kind = "state" /\ u.sid \in SidsOf(u.list)
    BY <2>2, <2>3 DEF Update, Waiting, Shown
  <2>5. waiting' = Append(waiting, u) /\ answered
    BY <1>2 DEF State, row
  <2> HIDE DEF u
  <2> QED BY <1>0, <1>2, <2>4, <2>5, TellKeeps DEF State
<1>3. CASE RenderReports
  BY <1>3, RenderReportsKeeps
<1>4. ASSUME NEW sid \in Sids, Select(sid) \/ ClickNotification(sid) PROVE ChoiceInv'
  BY <1>4, ChooseKeeps DEF Select, ClickNotification
<1>5. CASE Back
  <2>1. "manual" \in Modes /\ Urgent(sessions, NoSid, "manual", <<Update("set", <<>>, NoSid)>>)
    BY <1>5 DEF Back, Modes
  <2> QED BY <1>0, <1>5, <2>1, LeaveKeeps DEF Back
<1>6. ASSUME NEW stay \in BOOLEAN, Rebind(stay), stay => ~desktop PROVE ChoiceInv'
  <2>1. PICK m \in Modes : Urgent(<<>>, NoSid, m, <<Update("clear", <<>>, NoSid)>>)
    BY <1>6 DEF Rebind, Modes
  <2>2. <<>> \in Seq(Listed)
    OBVIOUS
  <2>3. wish' = Anything \/ (wish' = AtList /\ ~desktop /\ suppressed')
    BY <1>6 DEF Rebind
  <2> QED BY <1>6, <2>1, <2>2, <2>3, LeaveKeeps DEF Rebind
<1>7. CASE Pair \/ EditDevice
  BY <1>0, <1>6, <1>7 DEF Pair, EditDevice
<1>8. CASE Connection \/ Turn \/ \E sid \in Sids : Pin(sid)
  BY <1>0, <1>8, RerenderKeeps DEF Connection, Turn, Pin
<1>9. CASE UNCHANGED selectionVars
  BY <1>9 DEF selectionVars, ChoiceInv, SelectionTypeOK, WishIsShown, ListIsShown, NoneFrom
<1> QED BY <1>1, <1>2, <1>3, <1>4, <1>5, <1>7, <1>8, <1>9 DEF SelectionNext

\* If no state comes before the first list and the user does not choose while a
\* transition waits, what was chosen is shown until it leaves the list, for any sessions
\* and lists, messages and acts (App.tsx, the effect on activeSid and the updaters of
\* session.list.result and session.state).
THEOREM ChoiceIsKept ==
  ASSUME Haste = {} PROVE SelectionSpec => []ChoiceStands
<1>1. SelectionInit => ChoiceInv
  <2> SUFFICES ASSUME SelectionInit PROVE ChoiceInv
    OBVIOUS
  <2>1. <<>> \in Seq(Listed) /\ <<>> \in Seq(Waiting) /\ DOMAIN <<>> = {} /\ Len(<<>>) = 0
    OBVIOUS
  <2>2. SelectionTypeOK
    BY <2>1 DEF SelectionInit, SelectionTypeOK, Shown, Modes
  <2>3. WishIsShown
    BY <2>1, SelectionAssumption DEF SelectionInit, WishIsShown, AtList, Anything
  <2>4. wish = AtList => ~desktop /\ suppressed /\ active = NoSid /\ NoneFrom(0)
    BY <2>1, SelectionAssumption DEF SelectionInit, NoneFrom, AtList, Anything
  <2>5. 0 \in 0 .. Len(waiting)
    BY <2>1 DEF SelectionInit
  <2> QED BY <2>2, <2>3, <2>4, <2>5 DEF ChoiceInv, ListIsShown
<1>2. ChoiceInv /\ [SelectionNext]_selectionVars => ChoiceInv'
  BY SelectionStep
<1>3. ChoiceInv => ChoiceStands
  BY DEF ChoiceInv, WishIsShown, ListIsShown, ChoiceStands
<1> QED BY <1>1, <1>2, <1>3, PTL DEF SelectionSpec

-----------------------------------------------------------------------------
(***************************************************************************)
(* TerminalSize: the last size on its way is the one noted as sent, and    *)
(* with nothing on its way the window has it, unless somebody disturbed.   *)
(***************************************************************************)
SizeTypeOK ==
  /\ width \in Widths /\ small \in BOOLEAN /\ open \in BOOLEAN /\ attached \in BOOLEAN
  /\ sent \in Nat /\ wire \in Seq(Nat) /\ disturbed \in BOOLEAN

\* Of a page that controls its device, or did; a local client disturbs.
NotedIsSent ==
  /\ open => sent = Cols(width, small)
  /\ ~open => wire = <<>>
  /\ attached => disturbed
  /\ ~disturbed => IF wire = <<>> THEN sent = 0 \/ window = Larger(Least, sent) ELSE wire[Len(wire)] = sent

SizeInv == SizeTypeOK /\ NotedIsSent

LEMMA ColsPositive == ASSUME NEW w \in Widths, NEW s \in BOOLEAN PROVE Cols(w, s) \in Nat \ {0}
BY SizeAssumption DEF Cols

\* The sizes that are sent end with the one that is noted (App.tsx handleTerminalResize).
LEMMA ChangedEnds ==
  ASSUME NEW first \in Nat, NEW last \in Nat
  PROVE  /\ Changed(first, last) \in Seq(Nat)
         /\ IF Changed(first, last) = <<>> THEN last = sent
            ELSE Changed(first, last)[Len(Changed(first, last))] = last
<1>1. CASE first = sent /\ last = first
  BY <1>1 DEF Changed
<1>2. CASE first = sent /\ last # first
  <2>1. Changed(first, last) = <<last>>
    BY <1>2 DEF Changed
  <2> QED BY <2>1
<1>3. CASE first # sent /\ last = first
  <2>1. Changed(first, last) = <<first>>
    BY <1>3 DEF Changed
  <2> QED BY <1>3, <2>1
<1>4. CASE first # sent /\ last # first
  <2>1. Changed(first, last) = <<first>> \o <<last>>
    BY <1>4 DEF Changed
  <2>2. /\ <<first>> \o <<last>> \in Seq(Nat) /\ <<first>> \o <<last>> # <<>>
        /\ (<<first>> \o <<last>>)[Len(<<first>> \o <<last>>)] = last
    <3> DEFINE one == <<first>>
               other == <<last>>
    <3>1. one \in Seq(Nat) /\ other \in Seq(Nat) /\ other = <<last>>
      OBVIOUS
    <3>2. other # <<>> /\ other[Len(other)] = last
      BY <3>1
    <3> HIDE DEF one, other
    <3>3. one \o other \in Seq(Nat) /\ one \o other # <<>> /\ (one \o other)[Len(one \o other)] = last
      <4>1. /\ Len(one \o other) = Len(one) + Len(other) /\ Len(other) \in Nat \ {0} /\ Len(one) \in Nat
            /\ one \o other \in Seq(Nat)
            /\ \A i \in 1 .. Len(other) : (one \o other)[Len(one) + i] = other[i]
        BY <3>1, <3>2
      <4> QED BY <3>2, <4>1
    <3> QED BY <3>3 DEF one, other
  <2> QED BY <2>1, <2>2
<1> QED BY <1>1, <1>2, <1>3, <1>4

\* What the terminal tells leaves it so, the page's columns being the last it told.
LEMMA SizeTold ==
  ASSUME SizeInv, NEW first \in Nat, NEW last \in Nat, Tell(first, last), UNCHANGED <<open, window, attached>>,
         width' \in Widths, small' \in BOOLEAN, last = Cols(width', small')
  PROVE  SizeInv'
<1> USE DEF SizeInv, SizeTypeOK, NotedIsSent
<1>1. CASE ~open
  BY <1>1 DEF Tell
<1>2. CASE open /\ Changed(first, last) = <<>>
  <2>1. last = sent
    BY <1>2, ChangedEnds
  <2>2. wire \o <<>> = wire
    BY DEF SizeInv
  <2>3. UNCHANGED <<sent, wire, disturbed>>
    BY <1>2, <2>1, <2>2 DEF Tell
  <2> QED BY <1>2, <2>1, <2>3
<1>3. CASE open /\ Changed(first, last) # <<>>
  <2> DEFINE more == Changed(first, last)
  <2>1. more \in Seq(Nat) /\ more # <<>> /\ more[Len(more)] = last
    BY <1>3, ChangedEnds
  <2>2. sent' = last /\ wire' = wire \o more /\ disturbed' = attached
    BY <1>3 DEF Tell
  <2> HIDE DEF more
  <2>3. wire \o more \in Seq(Nat) /\ wire \o more # <<>> /\ (wire \o more)[Len(wire \o more)] = last
    BY <2>1
  <2> QED BY <1>3, <2>2, <2>3
<1> QED BY <1>1, <1>2, <1>3

LEMMA SizeStep == ASSUME SizeInv, [SizeNext]_sizeVars PROVE SizeInv'
<1> USE SizeAssumption
<1>1. ASSUME NEW w \in Widths, Fit(w) PROVE SizeInv'
  <2>1. Cols(w, small) \in Nat
    BY ColsPositive DEF SizeInv, SizeTypeOK
  <2> QED BY <1>1, <2>1, SizeTold DEF Fit, SizeInv, SizeTypeOK
<1>2. CASE Render
  <2>1. width \in Nat /\ small' \in BOOLEAN /\ width' \in Widths
    BY <1>2 DEF Render, SizeInv, SizeTypeOK
  <2>2. Cols(width, small') \in Nat
    BY <2>1, ColsPositive DEF SizeInv, SizeTypeOK
  <2> QED BY <1>2, <2>1, <2>2, SizeTold DEF Render
<1>3. CASE Connect
  <2>1. Cols(width, small) \in Nat /\ wire = <<>> /\ sent' = Cols(width, small) /\ open'
    BY <1>3, ColsPositive DEF Connect, SizeInv, SizeTypeOK, NotedIsSent
  <2>2. CASE sent' = sent
    BY <1>3, <2>1, <2>2 DEF Connect, SizeInv, SizeTypeOK, NotedIsSent
  <2>3. CASE sent' # sent
    <3>1. wire' = <<sent'>> /\ disturbed' = attached
      BY <1>3, <2>1, <2>3 DEF Connect
    <3> QED BY <1>3, <2>1, <3>1 DEF Connect, SizeInv, SizeTypeOK, NotedIsSent
  <2> QED BY <2>2, <2>3
<1>4. CASE Disconnect
  <2>1. <<>> \in Seq(Nat)
    OBVIOUS
  <2> QED BY <1>4, <2>1 DEF Disconnect, SizeInv, SizeTypeOK, NotedIsSent
<1>5. CASE Resize
  <2>1. wire # <<>> /\ wire \in Seq(Nat) /\ wire' = Tail(wire)
    BY <1>5 DEF Resize, SizeInv, SizeTypeOK
  <2>2. /\ Tail(wire) \in Seq(Nat) /\ Head(wire) \in Nat
        /\ IF Tail(wire) = <<>> THEN Head(wire) = wire[Len(wire)]
           ELSE Tail(wire)[Len(Tail(wire))] = wire[Len(wire)]
    <3>1. PICK left \in Seq(Nat) : left = Tail(wire)
      BY <2>1
    <3>2. /\ Len(left) = Len(wire) - 1 /\ Len(wire) \in Nat \ {0} /\ Len(left) \in Nat
          /\ \A i \in 1 .. Len(left) : left[i] = wire[i + 1]
          /\ Head(wire) = wire[1] /\ wire[1] \in Nat
      BY <2>1, <3>1
    <3>3. left = <<>> <=> Len(left) = 0
      OBVIOUS
    <3>4. Len(left) # 0 => left[Len(left)] = wire[Len(wire)]
      BY <3>2
    <3> QED BY <3>1, <3>2, <3>3, <3>4
  <2>3. /\ UNCHANGED <<width, small, sent, open, attached, disturbed>>
        /\ ~attached => window' = Larger(Least, Head(wire))
    BY <1>5 DEF Resize
  <2>4. wire[Len(wire)] = sent \/ disturbed
    BY <2>1 DEF SizeInv, NotedIsSent
  <2>5. NotedIsSent'
    <3>1. ~disturbed => ~attached /\ wire[Len(wire)] = sent
      BY <2>4 DEF SizeInv, NotedIsSent
    <3>2. ~disturbed' => IF wire' = <<>> THEN sent' = 0 \/ window' = Larger(Least, sent') ELSE wire'[Len(wire')] = sent'
      BY <2>1, <2>2, <2>3, <3>1 DEF Larger
    <3>3. open
      BY <2>1 DEF SizeInv, NotedIsSent
    <3>4. (open' => sent' = Cols(width', small')) /\ (attached' => disturbed')
      BY <2>3 DEF SizeInv, NotedIsSent, Cols
    <3> QED BY <2>3, <3>2, <3>3, <3>4 DEF NotedIsSent
  <2>6. SizeTypeOK'
    BY <2>1, <2>2, <2>3 DEF SizeInv, SizeTypeOK
  <2> QED BY <2>5, <2>6 DEF SizeInv
<1>6. CASE Capture \/ Attach \/ Detach \/ UNCHANGED sizeVars
  <2>1. UNCHANGED <<width, small, sent, open, wire>>
    BY <1>6 DEF Capture, Attach, Detach, sizeVars
  <2>2. \/ attached' = TRUE /\ disturbed' = TRUE
        \/ UNCHANGED <<window, disturbed>> /\ (attached' = FALSE \/ attached' = attached)
    BY <1>6 DEF Capture, Attach, Detach, sizeVars
  <2>3. CASE attached' = TRUE /\ disturbed' = TRUE
    BY <2>1, <2>3 DEF SizeInv, SizeTypeOK, NotedIsSent, Cols
  <2>4. CASE UNCHANGED <<window, disturbed>> /\ (attached' = FALSE \/ attached' = attached)
    <3>1. attached' \in BOOLEAN /\ (attached' => attached)
      <4>1. attached \in BOOLEAN
        BY DEF SizeInv, SizeTypeOK
      <4>2. CASE attached' = FALSE
        BY <4>2
      <4>3. CASE attached' = attached
        BY <4>1, <4>3
      <4> QED BY <2>4, <4>2, <4>3
    <3>2. UNCHANGED <<window, disturbed>>
      BY <2>4
    <3>3. SizeTypeOK'
      BY <2>1, <3>1, <3>2 DEF SizeInv, SizeTypeOK
    <3>4. /\ open' => sent' = Cols(width', small')
          /\ ~open' => wire' = <<>>
          /\ attached' => disturbed'
      BY <2>1, <3>1, <3>2 DEF SizeInv, NotedIsSent, Cols
    <3>5. ~disturbed' => IF wire' = <<>> THEN sent' = 0 \/ window' = Larger(Least, sent') ELSE wire'[Len(wire')] = sent'
      BY <2>1, <3>2 DEF SizeInv, NotedIsSent, Larger
    <3> QED BY <3>3, <3>4, <3>5 DEF SizeInv, NotedIsSent
  <2> QED BY <2>2, <2>3, <2>4
<1> QED BY <1>1, <1>2, <1>3, <1>4, <1>5, <1>6 DEF SizeNext

\* Where nothing is on its way from a page in control, the window has the page's size,
\* unless it was attached to elsewhere or a size was lost (App.tsx handleTerminalResize
\* and the effect on canControlDevice, daemon.ts handleResize): the safety half of
\* SizeReached, for any widths, snapshots and captures.
THEOREM NoSizeLeftOut == SizeSpec => []SizeHeld
<1>1. SizeInit => SizeInv
  <2>1. <<>> \in Seq(Nat)
    OBVIOUS
  <2> SUFFICES ASSUME SizeInit PROVE SizeInv
    OBVIOUS
  <2>2. /\ width \in Widths /\ small = FALSE /\ sent = 0 /\ open = FALSE /\ wire = <<>>
        /\ attached = FALSE /\ disturbed = FALSE
    BY DEF SizeInit
  <2> QED BY <2>1, <2>2 DEF SizeInv, SizeTypeOK, NotedIsSent
<1>2. SizeInv => SizeHeld
  <2> SUFFICES ASSUME SizeInv, open, wire = <<>>, ~disturbed PROVE InForce
    BY DEF SizeHeld
  <2>1. Cols(width, small) # 0
    BY ColsPositive DEF SizeInv, SizeTypeOK
  <2> QED BY <2>1 DEF SizeInv, NotedIsSent, InForce
<1> QED BY <1>1, <1>2, SizeStep, PTL DEF SizeSpec

-----------------------------------------------------------------------------
(***************************************************************************)
(* AppBuild: builds only get newer, so a marker that names the tab's own   *)
(* build and another one belongs to a reload that is under way.            *)
(***************************************************************************)
Ids == {Id[b] : b \in Builds} \cup {OtherId, None}
Check == [at : {"idle", "asking", "leaving"}, health : Ids, shell : Nat]
Answered(x) == x.shell = None \/ (build <= x.shell /\ x.shell <= files)
BuildTypeOK ==
  /\ files \in Builds /\ health \in Ids /\ build \in Nat /\ build <= files
  /\ task \in [Tasks -> Check] /\ \A t \in Tasks : Answered(task[t])

MarkerFits ==
  marker # <<>> =>
    \E from \in Nat, to \in Nat :
      /\ marker = <<from, to>> /\ from <= to /\ to <= files /\ from <= build
      /\ from = build /\ from # to => Leaving

BuildInv == BuildTypeOK /\ MarkerFits

\* A document that is loaded is what the relay serves, and nothing that was asked for
\* before is under way in it.
LEMMA LoadKeeps ==
  ASSUME BuildInv, ~Cached, Load, UNCHANGED <<files, health, marker>> PROVE BuildInv'
<1>1. build' = files /\ task' = [t \in Tasks |-> Quiet] /\ files' = files /\ marker' = marker
  BY DEF Load
<1>2. BuildTypeOK'
  <2>1. Quiet \in Check /\ Quiet.shell = None
    BY DEF Quiet, Check, Ids, None
  <2>2. files \in Nat
    BY BuildAssumption DEF BuildInv, BuildTypeOK
  <2> QED BY <1>1, <2>1, <2>2 DEF BuildInv, BuildTypeOK, Answered
<1>3. ASSUME marker # <<>>
      PROVE \E from \in Nat, to \in Nat :
              /\ marker = <<from, to>> /\ from <= to /\ to <= files /\ from <= files
              /\ from = files => from = to
  <2>1. PICK from \in Nat, to \in Nat :
          marker = <<from, to>> /\ from <= to /\ to <= files /\ from <= build
    BY <1>3 DEF BuildInv, MarkerFits
  <2>2. from <= files /\ (from = files => from = to)
    BY <2>1, BuildAssumption DEF BuildInv, BuildTypeOK
  <2> QED BY <2>1, <2>2
<1>4. MarkerFits'
  BY <1>1, <1>3 DEF MarkerFits
<1> QED BY <1>2, <1>4 DEF BuildInv

\* Where the marker stays, it fits as long as the builds get no older and a reload that
\* is under way stays under way.
LEMMA MarkerKept ==
  ASSUME BuildInv, UNCHANGED <<build, marker>>, files' \in Nat, files <= files', Leaving => Leaving'
  PROVE  MarkerFits'
<1> SUFFICES ASSUME marker # <<>>
             PROVE \E from \in Nat, to \in Nat :
                     /\ marker = <<from, to>> /\ from <= to /\ to <= files' /\ from <= build
                     /\ from = build /\ from # to => Leaving'
  BY DEF MarkerFits
<1>1. PICK from \in Nat, to \in Nat :
        /\ marker = <<from, to>> /\ from <= to /\ to <= files /\ from <= build
        /\ from = build /\ from # to => Leaving
  BY DEF BuildInv, MarkerFits
<1>2. to <= files'
  BY <1>1, BuildAssumption DEF BuildInv, BuildTypeOK
<1> QED BY <1>1, <1>2

LEMMA BuildStep == ASSUME ~Rollbacks, ~Cached, BuildInv, [BuildNext]_buildVars PROVE BuildInv'
<1>1. /\ files \in Nat /\ build \in Nat /\ task \in [Tasks -> Check]
      /\ \A t \in Tasks : Answered(task[t])
  BY BuildAssumption DEF BuildInv, BuildTypeOK
<1>2. CASE Reload
  BY <1>2, LoadKeeps DEF Reload
<1>3. ASSUME NEW t \in Tasks, Leave(t) PROVE BuildInv'
  BY <1>3, LoadKeeps DEF Leave
<1>4. CASE Upgrade
  <2>1. files' \in Builds /\ files' \in Nat /\ files < files' /\ UNCHANGED <<health, build, task, marker>>
    BY <1>1, <1>4, BuildAssumption DEF Upgrade
  <2>2. MarkerFits'
    BY <1>1, <2>1, MarkerKept DEF Leaving
  <2>3. \A t \in Tasks : Answered(task[t])'
    BY <1>1, <2>1 DEF Answered, Check
  <2> QED BY <1>1, <2>1, <2>2, <2>3 DEF BuildInv, BuildTypeOK
<1>5. CASE Restart
  <2>1. health' \in Ids /\ UNCHANGED <<files, build, task, marker>>
    BY <1>5 DEF Restart, RelayIds, Ids, BuildInv, BuildTypeOK
  <2> QED BY <1>1, <2>1 DEF BuildInv, BuildTypeOK, MarkerFits, Leaving, Answered
<1>6. CASE UNCHANGED buildVars
  BY <1>6 DEF buildVars, BuildInv, BuildTypeOK, MarkerFits, Leaving, Answered
<1>7. ASSUME NEW t \in Tasks, NEW x \in Check, Answered(x), task[t].at # "leaving",
             task' = [task EXCEPT ![t] = x], UNCHANGED <<files, health, build>>,
             UNCHANGED marker \/ marker' = <<>> \/ (x.at = "leaving" /\ x.shell # None /\ marker' = <<build, x.shell>>)
      PROVE BuildInv'
  <2>1. task' \in [Tasks -> Check] /\ task'[t] = x /\ \A u \in Tasks \ {t} : task'[u] = task[u]
    BY <1>1, <1>7
  <2>2. BuildTypeOK'
    BY <1>1, <1>7, <2>1 DEF BuildInv, BuildTypeOK, Answered
  <2>3. CASE UNCHANGED marker
    <3>1. Leaving => Leaving'
      BY <1>7, <2>1 DEF Leaving
    <3> QED BY <1>1, <1>7, <2>2, <2>3, <3>1, MarkerKept DEF BuildInv
  <2>4. CASE marker' = <<>>
    BY <2>2, <2>4 DEF BuildInv, MarkerFits
  <2>5. CASE x.at = "leaving" /\ x.shell # None /\ marker' = <<build, x.shell>>
    <3>1. Leaving'
      BY <2>1, <2>5 DEF Leaving
    <3>2. x.shell \in Nat /\ build <= x.shell /\ x.shell <= files
      BY <1>7, <2>5 DEF Answered, Check
    <3>3. MarkerFits'
      BY <1>1, <1>7, <2>5, <3>1, <3>2 DEF MarkerFits
    <3> QED BY <2>2, <3>3 DEF BuildInv
  <2> QED BY <1>7, <2>3, <2>4, <2>5
<1>8. ASSUME NEW t \in Tasks, Ask(t) \/ Fail(t) PROVE BuildInv'
  <2>1. \E x \in Check : x.shell = None /\ task' = [task EXCEPT ![t] = x]
    <3>1. Quiet \in Check /\ [Quiet EXCEPT !.at = "asking"] \in Check /\ Quiet.shell = None
          /\ [Quiet EXCEPT !.at = "asking"].shell = None
      BY DEF Quiet, Check, Ids, None
    <3> QED BY <1>8, <3>1 DEF Ask, Fail
  <2> QED BY <1>7, <1>8, <2>1 DEF Ask, Fail, Answered
<1>9. ASSUME NEW t \in Tasks, AnswerHealth(t) \/ AnswerShell(t) PROVE BuildInv'
  <2>1. \E x \in Check : Answered(x) /\ task' = [task EXCEPT ![t] = x]
    <3>1. CASE AnswerHealth(t)
      <4> DEFINE x == [task[t] EXCEPT !.health = health]
      <4>1. x \in Check /\ x.shell = task[t].shell
        BY <1>1 DEF Check, BuildInv, BuildTypeOK
      <4>2. task' = [task EXCEPT ![t] = x]
        BY <3>1 DEF AnswerHealth
      <4> QED BY <1>1, <4>1, <4>2 DEF Answered
    <3>2. CASE AnswerShell(t)
      <4> DEFINE x == [task[t] EXCEPT !.shell = files]
      <4>1. x \in Check /\ x.shell = files
        BY <1>1 DEF Check
      <4>2. task' = [task EXCEPT ![t] = x]
        BY <3>2 DEF AnswerShell
      <4>3. build <= files /\ files <= files
        BY <1>1 DEF BuildInv, BuildTypeOK
      <4> QED BY <4>1, <4>2, <4>3 DEF Answered
    <3> QED BY <1>9, <3>1, <3>2
  <2> QED BY <1>7, <1>9, <2>1 DEF AnswerHealth, AnswerShell
<1>10. ASSUME NEW t \in Tasks, Compare(t) PROVE BuildInv'
  <2>1. task[t].at = "asking" /\ task[t].shell # None /\ UNCHANGED <<files, health, build>>
    BY <1>10 DEF Compare
  <2>2. CASE task' = [task EXCEPT ![t] = Quiet] /\ (marker' = <<>> \/ UNCHANGED marker)
    <3>1. Quiet \in Check /\ Quiet.shell = None
      BY DEF Quiet, Check, Ids, None
    <3> QED BY <1>7, <2>1, <2>2, <3>1 DEF Answered
  <2>3. CASE task' = [task EXCEPT ![t].at = "leaving"] /\ marker' = Change(t)
    <3> DEFINE x == [task[t] EXCEPT !.at = "leaving"]
    <3>1. x \in Check /\ x.shell = task[t].shell /\ x.at = "leaving"
      BY <1>1 DEF Check
    <3>2. task' = [task EXCEPT ![t] = x] /\ marker' = <<build, x.shell>>
      BY <2>3, <3>1 DEF Change
    <3>3. Answered(x)
      BY <1>1, <3>1 DEF Answered
    <3> QED BY <1>7, <2>1, <3>1, <3>2, <3>3
  <2> QED BY <1>10, <2>2, <2>3 DEF Compare
<1> QED BY <1>2, <1>3, <1>4, <1>5, <1>6, <1>8, <1>9, <1>10 DEF BuildNext, Reconcile

\* While builds only get newer and nothing keeps old documents, the reload marker never
\* stops the reload that brings the build that is served (App.tsx reconcileAppBuild): the
\* safety half of BuildSettles, for any builds, ids, checks under way and restarts.
THEOREM MarkerHoldsNobodyBack ==
  ASSUME ~Rollbacks, ~Cached PROVE BuildSpec => []NeverHeldBack
<1>1. BuildInit => BuildInv
  <2> SUFFICES ASSUME BuildInit PROVE BuildInv
    OBVIOUS
  <2>1. Quiet \in Check /\ Quiet.shell = None
    BY DEF Quiet, Check, Ids, None
  <2>2. files = 1 /\ build = 1 /\ marker = <<>> /\ task = [t \in Tasks |-> Quiet] /\ health \in Ids
    BY BuildAssumption DEF BuildInit, RelayIds, Ids
  <2> QED BY <2>1, <2>2, BuildAssumption DEF BuildInv, BuildTypeOK, MarkerFits, Answered
<1>2. BuildInv => NeverHeldBack
  <2> SUFFICES ASSUME BuildInv, build # files, marker = <<build, files>> PROVE Leaving
    BY DEF NeverHeldBack
  <2> QED BY DEF BuildInv, MarkerFits
<1> QED BY <1>1, <1>2, BuildStep, PTL DEF BuildSpec
=============================================================================
