------------------------- MODULE BrowserView_proofs -------------------------
(***************************************************************************)
(* Proofs about BrowserView.tla, for any contents of the pane, number of   *)
(* replays at once, cache, losses and ways to go: what is on its way       *)
(* (Carried), what each frame adds to (RightFrames), and which answer is   *)
(* coming (Coming, NewsComes).                                             *)
(***************************************************************************)
EXTENDS BrowserView, SequenceTheorems, WellFoundedInduction, TLAPS

Frames == [kind : {"output"}, seq : 1 .. agent.lastSeq, mode : {"append", "replace"},
           from : 0 .. pane.now, to : 1 .. pane.now]
Words == [kind : {"state", "list", "auth"}, seq : 0 .. agent.lastSeq]
Requests == [kind : {"list", "replay"}, seq : Unknown .. agent.lastSeq]
Pendings ==
  {NoPending} \cup {p \in [after : Int, target : Int, recent : BOOLEAN] :
                      Unknown <= p.after /\ p.after < p.target /\ p.target <= agent.lastSeq}

\* The variables that are records.
Fields ==
  /\ pane = [now |-> pane.now, redrawn |-> pane.redrawn]
  /\ agent = [rendered |-> agent.rendered, lastSeq |-> agent.lastSeq, cache |-> agent.cache]
  /\ reader = [r \in Readers |-> [at |-> reader[r].at, seq |-> reader[r].seq, out |-> reader[r].out]]
  /\ net = [up |-> net.up, link |-> net.link, asked |-> net.asked, wire |-> net.wire]
  /\ view = [content |-> view.content, seq |-> view.seq]
  /\ page = [known |-> page.known, active |-> page.active]
  /\ count = [drops |-> count.drops, cuts |-> count.cuts]

AgentFits ==
  /\ way \in Ways
  /\ pane.now \in 1 .. MaxPane /\ pane.redrawn \in SUBSET (1 .. MaxPane)
  /\ agent.rendered \in 0 .. pane.now /\ agent.lastSeq \in Nat \ {0} /\ Len(agent.cache) <= Limit
  /\ \A r \in Readers : /\ reader[r].at \in {"idle", "capture", "send"}
                        /\ reader[r].seq \in 0 .. agent.lastSeq
                        /\ reader[r].at = "capture" => reader[r].seq # 0
                        /\ reader[r].at = "send" <=> reader[r].out # <<>>
  /\ count.drops \in Nat /\ count.cuts \in Nat
NetFits ==
  /\ net.up \in BOOLEAN /\ net.link \in BOOLEAN
  /\ ~net.up => net.wire = <<>>
  /\ ~net.link => net.asked = <<>>
  /\ net.asked \in Seq(Requests)
BrowserFits ==
  /\ view.content \in 0 .. pane.now \cup {Garbled} /\ view.seq \in Unknown .. agent.lastSeq
  /\ ref \in Unknown .. agent.lastSeq /\ pending \in Pendings
  /\ page.known \in Unknown .. agent.lastSeq /\ page.active \in BOOLEAN
  /\ ~way.lags => ref = view.seq

\* Every frame in the cache, in a replay's hands or on the wire is one of F.
Carried(F) ==
  /\ agent.cache \in Seq(F)
  /\ \A r \in Readers : reader[r].out \in Seq(F)
  /\ net.wire \in Seq(F \cup Words)

ViewFits == Fields /\ AgentFits /\ NetFits /\ BrowserFits /\ Carried(Frames)

\* The frames that the agent makes.
LoopFrame ==
  IF agent.rendered # 0 /\ \A p \in agent.rendered + 1 .. pane.now : p \notin pane.redrawn
  THEN Frame(agent.lastSeq + 1, "append", agent.rendered, pane.now)
  ELSE Frame(agent.lastSeq + 1, "replace", 0, pane.now)
CaptureFrame(r) ==
  Frame(IF way.steady THEN agent.lastSeq ELSE reader[r].seq, "replace", 0, pane.now)

-----------------------------------------------------------------------------
(***************************************************************************)
(* Sequences.                                                              *)
(***************************************************************************)
\* The least number.
LEMMA LeastNumber ==
  ASSUME NEW T \in SUBSET Nat, T # {} PROVE \E n \in T : \A m \in T : n <= m
<1>1. PICK Less : IsWellFoundedOn(Less, Nat) /\ \A r, s \in Nat : r < s => <<r, s>> \in Less
  <2>1. \A r, s \in Nat : r < s => <<r, s>> \in OpToRel(<, Nat)
    BY DEF OpToRel
  <2> QED BY <2>1, NatLessThanWellFounded, Zenon
<1>2. PICK n \in T : \A m \in T : <<m, n>> \notin Less
  <2>1. IsWellFoundedOn(Less, Nat)
    BY <1>1
  <2> QED BY <2>1, WFMin, Zenon
<1>3. \A m \in T : n <= m
  <2> TAKE m \in T
  <2>1. n \in Nat /\ m \in Nat
    OBVIOUS
  <2>2. ~(m < n)
    BY <1>1, <1>2, <2>1
  <2> QED BY <2>1, <2>2
<1> QED BY <1>3

\* Induction, on a set of numbers.
LEMMA AllNumbers ==
  ASSUME NEW T, 0 \in T, \A n \in Nat : n \in T => n + 1 \in T
  PROVE  Nat \subseteq T
<1> SUFFICES ASSUME Nat \ T # {} PROVE FALSE
  OBVIOUS
<1>1. PICK n \in Nat \ T : \A m \in Nat \ T : n <= m
  BY LeastNumber
<1> QED BY <1>1

\* A larger set has more sequences.
LEMMA MoreSeqs == ASSUME NEW S, NEW T, S \subseteq T, NEW s \in Seq(S) PROVE s \in Seq(T)
OBVIOUS

\* What the cache keeps when a frame is added (daemon.ts pushOutputFrame).
LEMMA PushKeeps ==
  ASSUME NEW F, agent.cache \in Seq(F), NEW frame \in F
  PROVE  /\ Push(frame) \in Seq(F) /\ Len(Push(frame)) <= Limit
         /\ \E k \in Nat : /\ Len(Push(frame)) = Len(agent.cache) + 1 - k /\ Len(Push(frame)) > 0
                           /\ \A i \in 1 .. Len(Push(frame)) :
                                Push(frame)[i] = IF i + k = Len(agent.cache) + 1 THEN frame ELSE agent.cache[i + k]
<1> DEFINE all == Append(agent.cache, frame)
<1>1. PICK n \in Nat : n = Len(agent.cache)
  OBVIOUS
<1>2. all \in Seq(F) /\ Len(all) = n + 1 /\ \A i \in 1 .. n + 1 : all[i] = IF i = n + 1 THEN frame ELSE agent.cache[i]
  <2>1. PICK cache \in Seq(F) : cache = agent.cache
    OBVIOUS
  <2>2. Append(cache, frame) \in Seq(F) /\ Len(Append(cache, frame)) = Len(cache) + 1
    OBVIOUS
  <2>3. \A i \in 1 .. Len(cache) + 1 : Append(cache, frame)[i] = IF i = Len(cache) + 1 THEN frame ELSE cache[i]
    OBVIOUS
  <2> QED BY <1>1, <2>1, <2>2, <2>3
<1>3. PICK k \in Nat : k = IF n + 1 > Limit THEN n + 1 - Limit ELSE 0
  <2>1. (IF n + 1 > Limit THEN n + 1 - Limit ELSE 0) \in Nat
    BY ViewAssumption
  <2> QED BY <2>1
<1>4. Push(frame) = SubSeq(all, k + 1, n + 1)
  BY <1>2, <1>3, ViewAssumption DEF Push
<1> HIDE DEF all
<1>5. k <= n /\ n + 1 - k <= Limit
  BY <1>3, ViewAssumption
<1>6. /\ SubSeq(all, k + 1, n + 1) \in Seq(F) /\ Len(SubSeq(all, k + 1, n + 1)) = n + 1 - k
      /\ \A i \in 1 .. n + 1 - k : SubSeq(all, k + 1, n + 1)[i] = all[i + k]
  BY <1>2, <1>5
<1>7. \A i \in 1 .. n + 1 - k : i + k \in 1 .. n + 1 /\ (i + k = n + 1 <=> i = n + 1 - k)
  BY <1>5
<1>8. \A i \in 1 .. n + 1 - k : Push(frame)[i] = IF i + k = n + 1 THEN frame ELSE agent.cache[i + k]
  BY <1>2, <1>4, <1>6, <1>7
<1>9. Push(frame) \in Seq(F) /\ Len(Push(frame)) = n + 1 - k /\ n + 1 - k > 0 /\ n + 1 - k <= Limit
  BY <1>4, <1>5, <1>6
<1> QED BY <1>1, <1>8, <1>9

\* The first message, and the others.
LEMMA HeadTail ==
  ASSUME NEW S, NEW s \in Seq(S), s # <<>>
  PROVE  /\ Head(s) \in S /\ Tail(s) \in Seq(S) /\ Head(s) = s[1]
         /\ Len(s) \in Nat \ {0} /\ Len(Tail(s)) = Len(s) - 1
         /\ \A i \in 1 .. Len(s) - 1 : Tail(s)[i] = s[i + 1]
OBVIOUS

\* One frame goes on from another: it is a whole snapshot, or leaves no number out.
GoesOn(frame, before) == frame.mode = "replace" \/ frame.seq <= before.seq + 1

\* The frames selected from the cache are frames of it; and where the cache is in order
\* they go on from one another up to its last one (daemon.ts, handleReplay's filter).
LEMMA CachedAreFrames ==
  ASSUME NEW F, agent.cache \in Seq(F), \A f \in F : f.seq \in Int, NEW after \in Int
  PROVE  /\ CachedAfter(after) \in Seq(F)
         /\ \A i \in DOMAIN CachedAfter(after) : CachedAfter(after)[i].seq > after
         /\ (\A i \in 1 .. Len(agent.cache) - 1 :
               agent.cache[i].seq <= agent.cache[i + 1].seq /\ agent.cache[i + 1].seq <= agent.cache[i].seq + 1)
            => /\ \A i \in 1 .. Len(CachedAfter(after)) - 1 :
                    GoesOn(CachedAfter(after)[i + 1], CachedAfter(after)[i])
               /\ CachedAfter(after) # <<>> =>
                    CachedAfter(after)[Len(CachedAfter(after))] = agent.cache[Len(agent.cache)]
<1>1. PICK cache \in Seq(F) : cache = agent.cache
  OBVIOUS
<1> DEFINE last == Len(cache)
           Grown(before, n) == IF cache[n].seq > after THEN Append(before, cache[n]) ELSE before
           IsKept(kept, m) == kept = [n \in 0 .. m |-> IF n = 0 THEN <<>> ELSE Grown(kept[n - 1], n)]
           some == CHOOSE kept : IsKept(kept, last)
<1>2. last \in Nat
  OBVIOUS
<1> HIDE DEF Grown
<1>3. \E kept : IsKept(kept, last)
  <2> DEFINE T == {n \in Nat : \E kept : IsKept(kept, n)}
  <2>1. 0 \in T
    <3>1. IsKept([n \in 0 .. 0 |-> <<>>], 0)
      OBVIOUS
    <3> QED BY <3>1
  <2>2. ASSUME NEW m \in Nat, m \in T PROVE m + 1 \in T
    <3>1. PICK kept : IsKept(kept, m)
      BY <2>2
    <3> DEFINE more == [n \in 0 .. m + 1 |-> IF n <= m THEN kept[n] ELSE Grown(kept[m], n)]
    <3>2. \A n \in 0 .. m : more[n] = kept[n]
      OBVIOUS
    <3>3. \A n \in 0 .. m + 1 : more[n] = IF n = 0 THEN <<>> ELSE Grown(more[n - 1], n)
      BY <3>1, <3>2
    <3>4. IsKept(more, m + 1)
      BY <3>3
    <3> HIDE DEF more, IsKept
    <3>5. \E longer : IsKept(longer, m + 1)
      BY <3>4
    <3> QED BY <3>5
  <2> HIDE DEF T
  <2>3. Nat \subseteq T
    BY <2>1, <2>2, AllNumbers
  <2> HIDE DEF IsKept, last
  <2>4. last \in T
    BY <1>2, <2>3
  <2> QED BY <2>4 DEF T
<1>4. IsKept(some, last)
  BY <1>3
<1>5. CachedAfter(after) = some[last]
  BY <1>1 DEF CachedAfter, Grown
<1>6. \A n \in 0 .. last : some[n] = IF n = 0 THEN <<>> ELSE Grown(some[n - 1], n)
  BY <1>4
<1> HIDE DEF some, IsKept
<1> DEFINE Sorted == \A i \in 1 .. last - 1 : cache[i].seq <= cache[i + 1].seq /\ cache[i + 1].seq <= cache[i].seq + 1
           Run(s) == \A i \in 1 .. Len(s) - 1 : GoesOn(s[i + 1], s[i])
           Right(n) == /\ some[n] \in Seq(F)
                       /\ \A i \in 1 .. Len(some[n]) : some[n][i].seq > after
                       /\ Sorted => /\ Run(some[n])
                                    /\ some[n] = <<>> => n = 0 \/ cache[n].seq <= after
                                    /\ some[n] # <<>> => n # 0 /\ some[n][Len(some[n])] = cache[n]
<1>7. Right(last)
  <2> DEFINE T == {n \in Nat : n <= last => Right(n)}
  <2>1. 0 \in T
    <3>1. some[0] = <<>> /\ <<>> \in Seq(F) /\ Len(<<>>) = 0 /\ 1 .. 0 = {} /\ 1 .. 0 - 1 = {}
      BY <1>2, <1>6
    <3>2. Right(0)
      BY <3>1
    <3> HIDE DEF Right
    <3> QED BY <3>2
  <2>2. ASSUME NEW n \in Nat, n \in T PROVE n + 1 \in T
    <3> SUFFICES ASSUME n + 1 <= last PROVE Right(n + 1)
      OBVIOUS
    <3>0. Right(n)
      BY <1>2, <2>2
    <3>1. PICK f \in F : f = cache[n + 1]
      BY <1>2
    <3>2. PICK was \in Seq(F) : was = some[n]
      BY <3>0
    <3>3. some[n + 1] = IF f.seq > after THEN Append(was, f) ELSE was
      <4>1. some[n + 1] = Grown(some[n], n + 1)
        BY <1>2, <1>6
      <4> QED BY <3>1, <3>2, <4>1 DEF Grown
    <3>4. PICK k \in Nat : k = Len(was) /\ (was = <<>> <=> k = 0)
      OBVIOUS
    <3>5. /\ \A i \in 1 .. k : was[i].seq > after
          /\ Sorted => /\ \A i \in 1 .. k - 1 : GoesOn(was[i + 1], was[i])
                       /\ was = <<>> => n = 0 \/ cache[n].seq <= after
                       /\ was # <<>> => n # 0 /\ was[k] = cache[n]
      BY <3>0, <3>2, <3>4
    <3>6. CASE f.seq > after
      <4>1. /\ some[n + 1] = Append(was, f) /\ Append(was, f) \in Seq(F) /\ Len(Append(was, f)) = k + 1
            /\ \A i \in 1 .. k : Append(was, f)[i] = was[i]
            /\ Append(was, f)[k + 1] = f
        BY <3>3, <3>4, <3>6
      <4>2. \A i \in 1 .. k + 1 : Append(was, f)[i].seq > after
        BY <3>5, <3>6, <4>1
      <4>3. Sorted => \A i \in 1 .. k : GoesOn(Append(was, f)[i + 1], Append(was, f)[i])
        <5> SUFFICES ASSUME Sorted, NEW i \in 1 .. k PROVE GoesOn(Append(was, f)[i + 1], Append(was, f)[i])
          OBVIOUS
        <5>1. CASE i = k
          <6>1. n # 0 /\ was[k] = cache[n]
            BY <3>4, <3>5, <5>1
          <6>2. f.seq <= cache[n].seq + 1
            BY <3>1, <6>1, <1>2
          <6> QED BY <4>1, <5>1, <6>1, <6>2 DEF GoesOn
        <5>2. CASE i # k
          <6>1. i \in 1 .. k - 1 /\ i + 1 \in 1 .. k
            BY <5>2
          <6> QED BY <3>5, <4>1, <6>1
        <5> QED BY <5>1, <5>2
      <4>4. PICK now \in Seq(F) : now = Append(was, f)
        BY <4>1
      <4> HIDE DEF Sorted
      <4>5. now # <<>> /\ Len(now) = k + 1 /\ now[k + 1] = cache[n + 1] /\ n + 1 # 0
        BY <3>1, <4>1, <4>4
      <4>6. \A i \in 1 .. k + 1 - 1 : i \in 1 .. k
        OBVIOUS
      <4> QED BY <4>1, <4>2, <4>3, <4>4, <4>5, <4>6
    <3>7. CASE ~(f.seq > after)
      <4>1. some[n + 1] = was /\ f.seq <= after
        <5>1. f.seq \in Int
          OBVIOUS
        <5> QED BY <3>3, <3>7, <5>1
      <4>2. Sorted => was = <<>>
        <5> SUFFICES ASSUME Sorted, was # <<>> PROVE FALSE
          OBVIOUS
        <5>0. k \in 1 .. k
          BY <3>4
        <5>1. n # 0 /\ was[k] = cache[n]
          BY <3>5
        <5>2. cache[n] \in F /\ cache[n].seq > after
          BY <1>2, <3>5, <5>0, <5>1
        <5>3. cache[n].seq <= f.seq
          BY <1>2, <3>1, <5>1
        <5> QED BY <4>1, <5>2, <5>3
      <4> HIDE DEF Sorted
      <4> QED BY <3>1, <3>4, <3>5, <4>1, <4>2
    <3> QED BY <3>6, <3>7
  <2> HIDE DEF T
  <2>3. Nat \subseteq T
    BY <2>1, <2>2, AllNumbers
  <2>4. last \in T
    BY <1>2, <2>3
  <2> QED BY <2>4 DEF T
<1>8. PICK got \in Seq(F) : got = CachedAfter(after)
  BY <1>5, <1>7
<1>9. /\ \A i \in 1 .. Len(got) : got[i].seq > after
      /\ Sorted => Run(got) /\ (got # <<>> => got[Len(got)] = cache[Len(cache)])
  BY <1>5, <1>7, <1>8
<1>10. DOMAIN got = 1 .. Len(got)
  OBVIOUS
<1> QED BY <1>1, <1>8, <1>9, <1>10

-----------------------------------------------------------------------------
(***************************************************************************)
(* Types.                                                                  *)
(***************************************************************************)
\* The connection with more messages, or more requests, on it.
LEMMA ToldFits ==
  ASSUME Fields, NEW messages
  PROVE  /\ Told(messages).up = net.up /\ Told(messages).link = net.link /\ Told(messages).asked = net.asked
         /\ Told(messages).wire = IF net.up /\ net.link THEN net.wire \o messages ELSE net.wire
         /\ Told(messages) = [up |-> net.up, link |-> net.link, asked |-> net.asked, wire |-> Told(messages).wire]
BY DEF Fields, Told

LEMMA AskedFits ==
  ASSUME NEW n, n = [up |-> n.up, link |-> n.link, asked |-> n.asked, wire |-> n.wire], NEW requests
  PROVE  /\ Asked(n, requests).up = n.up /\ Asked(n, requests).link = n.link /\ Asked(n, requests).wire = n.wire
         /\ Asked(n, requests).asked = IF n.up /\ n.link THEN n.asked \o requests ELSE n.asked
         /\ Asked(n, requests) = [up |-> n.up, link |-> n.link, asked |-> Asked(n, requests).asked, wire |-> n.wire]
BY DEF Asked

\* No request changes nothing.
LEMMA AskedNone ==
  ASSUME NEW n, n = [up |-> n.up, link |-> n.link, asked |-> n.asked, wire |-> n.wire], n.asked \in Seq(Requests)
  PROVE  Asked(n, <<>>) = n
<1>1. n.asked \o <<>> = n.asked
  <2> HIDE DEF Requests
  <2> QED OBVIOUS
<1>2. Asked(n, <<>>).asked = n.asked
  BY <1>1, AskedFits
<1>3. Asked(n, <<>>) = [up |-> n.up, link |-> n.link, asked |-> Asked(n, <<>>).asked, wire |-> n.wire]
  BY AskedFits
<1> QED BY <1>2, <1>3

\* A replay is requested for numbers the browser does not have.
LEMMA RequestFits ==
  ASSUME ViewFits, NEW target \in Unknown .. agent.lastSeq
  PROVE  /\ RequestReplayForTarget(target).pending \in Pendings
         /\ RequestReplayForTarget(target).requests \in Seq(Requests)
<1>1. ref \in Unknown .. agent.lastSeq /\ pending \in Pendings /\ agent.lastSeq \in Nat
  BY DEF ViewFits, BrowserFits, AgentFits
<1>2. NoPending \in Pendings
  BY DEF Pendings
<1>3. <<>> \in Seq(Requests) /\ <<Word("replay", ref)>> \in Seq(Requests)
  <2>1. Word("replay", ref) \in Requests
    BY <1>1 DEF Word, Requests
  <2> HIDE DEF Requests
  <2> QED BY <2>1
<1>4. ref < target => [after |-> ref, target |-> target, recent |-> TRUE] \in Pendings
  BY <1>1 DEF Pendings, Unknown
<1>5. ref < target \/ ref >= target
  BY <1>1 DEF Unknown
<1> HIDE DEF Requests, Pendings
<1> QED BY <1>1, <1>2, <1>3, <1>4, <1>5 DEF RequestReplayForTarget

LEMMA MissingFits ==
  ASSUME ViewFits
  PROVE  RequestMissing.pending \in Pendings /\ RequestMissing.requests \in Seq(Requests)
<1>1. ref \in Unknown .. agent.lastSeq /\ pending \in Pendings /\ agent.lastSeq \in Nat
      /\ page.known \in Unknown .. agent.lastSeq
  BY DEF ViewFits, BrowserFits, AgentFits
<1>2. Word("list", 0) \in Requests /\ Word("replay", ref) \in Requests
  BY <1>1 DEF Word, Requests, Unknown
<1>3. PICK replay : replay = RequestReplayForTarget(page.known)
  OBVIOUS
<1>4. replay.pending \in Pendings /\ replay.requests \in Seq(Requests)
  BY <1>1, <1>3, RequestFits
<1>5. replay = [pending |-> replay.pending, requests |-> replay.requests]
  BY <1>3 DEF RequestReplayForTarget
<1> HIDE DEF Requests, Pendings
<1>6. <<Word("list", 0), Word("replay", ref)>> \in Seq(Requests) /\ <<Word("list", 0)>> \in Seq(Requests)
  BY <1>2
<1>7. <<Word("list", 0)>> \o replay.requests \in Seq(Requests)
  BY <1>4, <1>6
<1>8. CASE page.known = Unknown
  BY <1>1, <1>6, <1>8 DEF RequestMissing
<1>9. CASE page.known # Unknown
  <2>1. RequestMissing = [replay EXCEPT !.requests = <<Word("list", 0)>> \o @]
    BY <1>3, <1>9 DEF RequestMissing
  <2>2. RequestMissing.pending = replay.pending /\ RequestMissing.requests = <<Word("list", 0)>> \o replay.requests
    BY <1>5, <2>1
  <2> QED BY <1>4, <1>7, <2>2
<1> QED BY <1>8, <1>9

\* The sets grow with the pane and the numbers.
LEMMA SetsGrow ==
  ASSUME ViewFits, agent'.lastSeq \in Nat, pane'.now \in Nat, agent.lastSeq <= agent'.lastSeq, pane.now <= pane'.now
  PROVE  /\ Frames \subseteq Frames' /\ Words \subseteq Words' /\ Requests \subseteq Requests'
         /\ Pendings \subseteq Pendings'
<1>1. agent.lastSeq \in Nat /\ pane.now \in Nat
  BY DEF ViewFits, AgentFits
<1>2. /\ 0 .. agent.lastSeq \subseteq 0 .. agent'.lastSeq /\ 1 .. agent.lastSeq \subseteq 1 .. agent'.lastSeq
      /\ Unknown .. agent.lastSeq \subseteq Unknown .. agent'.lastSeq
      /\ 0 .. pane.now \subseteq 0 .. pane'.now /\ 1 .. pane.now \subseteq 1 .. pane'.now
  BY <1>1 DEF Unknown
<1>3. Frames \subseteq Frames'
  BY <1>2 DEF Frames
<1>4. Words \subseteq Words' /\ Requests \subseteq Requests'
  BY <1>2 DEF Words, Requests
<1>5. Pendings \subseteq Pendings'
  BY <1>1 DEF Pendings
<1> QED BY <1>3, <1>4, <1>5

\* If nothing but the agent's number and the pane grow, what is carried is still.
LEMMA StillCarried ==
  ASSUME ViewFits, NEW F, NEW G, F \subseteq G, Carried(F), Words \subseteq Words',
         agent'.cache = agent.cache, \A r \in Readers : reader'[r].out = reader[r].out,
         net'.wire = net.wire
  PROVE  Carried(G)'
<1>1. agent'.cache \in Seq(G) /\ \A r \in Readers : reader'[r].out \in Seq(G)
  BY MoreSeqs DEF Carried
<1>2. F \cup Words \subseteq G \cup Words'
  OBVIOUS
<1>3. net'.wire \in Seq(G \cup Words')
  BY <1>2, MoreSeqs DEF Carried
<1> QED BY <1>1, <1>3 DEF Carried

\* A message that is received, and the connection without it.
LEMMA MessageFits ==
  ASSUME ViewFits, net.wire # <<>>
  PROVE  /\ Head(net.wire) \in Frames \cup Words
         /\ Head(net.wire).kind = "output" => Head(net.wire) \in Frames
         /\ Head(net.wire).kind # "output" => Head(net.wire) \in Words
         /\ Head(net.wire).seq \in 0 .. agent.lastSeq
<1>1. PICK m : m = Head(net.wire)
  OBVIOUS
<1>2. m \in Frames \cup Words
  <2>1. net.wire \in Seq(Frames \cup Words)
    BY DEF ViewFits, Carried
  <2> HIDE DEF Frames, Words
  <2> QED BY <1>1, <2>1, HeadTail
<1>3. agent.lastSeq \in Nat
  BY DEF ViewFits, AgentFits
<1>4. m.kind = "output" => m \in Frames
  BY <1>2 DEF Words
<1>5. m.kind # "output" => m \in Words
  BY <1>2 DEF Frames
<1>6. m.seq \in 0 .. agent.lastSeq
  BY <1>2, <1>3 DEF Words, Frames
<1> QED BY <1>1, <1>2, <1>4, <1>5, <1>6

\* What a received message can change.
Received(n) ==
  /\ \E requests \in Seq(Requests) : net' = Asked(n, requests)
  /\ view' = [content |-> view'.content, seq |-> view'.seq]
  /\ page' = [known |-> page'.known, active |-> page'.active]
  /\ view'.content \in 0 .. pane.now \cup {Garbled} /\ view'.seq \in Unknown .. agent.lastSeq
  /\ ref' \in Unknown .. agent.lastSeq /\ pending' \in Pendings
  /\ page'.known \in Unknown .. agent.lastSeq /\ page'.active \in BOOLEAN
  /\ ~way.lags => ref' = view'.seq

LEMMA MakeReceived ==
  ASSUME ViewFits, NEW n, NEW r, r.pending \in Pendings, r.requests \in Seq(Requests), Make(n, r),
         UNCHANGED <<view, ref>>, page' = page \/ \E k \in 0 .. agent.lastSeq : page' = [page EXCEPT !.known = k]
  PROVE  Received(n)
<1>1. BrowserFits /\ Fields /\ agent.lastSeq \in Nat
  BY DEF ViewFits, AgentFits
<1>2. net' = Asked(n, r.requests) /\ pending' = r.pending
  BY DEF Make
<1>3. /\ page' = [known |-> page'.known, active |-> page'.active]
      /\ page'.known \in Unknown .. agent.lastSeq /\ page'.active \in BOOLEAN
  <2>1. CASE page' = page
    BY <1>1, <2>1 DEF BrowserFits, Fields
  <2>2. ASSUME NEW k \in 0 .. agent.lastSeq, page' = [page EXCEPT !.known = k]
        PROVE  page' = [known |-> k, active |-> page.active] /\ k \in Unknown .. agent.lastSeq
    BY <1>1, <2>2 DEF BrowserFits, Fields, Unknown
  <2> QED BY <1>1, <2>1, <2>2 DEF BrowserFits
<1>4. view' = [content |-> view'.content, seq |-> view'.seq]
  BY <1>1 DEF Fields
<1> QED BY <1>1, <1>2, <1>3, <1>4 DEF Received, BrowserFits

LEMMA NoneReceived ==
  ASSUME ViewFits, NEW n, n = [up |-> n.up, link |-> n.link, asked |-> n.asked, wire |-> n.wire],
         n.asked \in Seq(Requests), net' = n, UNCHANGED <<pending, view, ref>>,
         page' = page \/ \E k \in 0 .. agent.lastSeq : page' = [page EXCEPT !.known = k]
  PROVE  Received(n)
<1>1. PICK r : r = [pending |-> pending, requests |-> <<>>]
  OBVIOUS
<1>2. r.pending \in Pendings /\ r.requests \in Seq(Requests) /\ r.requests = <<>>
  BY <1>1 DEF ViewFits, BrowserFits
<1>3. Asked(n, <<>>) = n
  BY AskedNone
<1>4. Make(n, r)
  BY <1>1, <1>2, <1>3 DEF Make
<1> QED BY <1>2, <1>4, MakeReceived

LEMMA ReceiveTypes ==
  ASSUME ViewFits, Receive
  PROVE  /\ net.wire # <<>> /\ UNCHANGED <<pane, agent, reader, count>>
         /\ Received([net EXCEPT !.wire = Tail(@)])
<1>1. PICK m : m = Head(net.wire)
  OBVIOUS
<1>2. PICK n : n = [net EXCEPT !.wire = Tail(@)]
  OBVIOUS
<1>3. net.wire # <<>> /\ UNCHANGED <<pane, agent, reader, count>>
  BY DEF Receive
<1>4. /\ m \in Frames \cup Words /\ (m.kind = "output" => m \in Frames)
      /\ (m.kind # "output" => m \in Words) /\ m.seq \in 0 .. agent.lastSeq
  BY <1>1, <1>3, MessageFits
<1>5. n = [up |-> n.up, link |-> n.link, asked |-> n.asked, wire |-> n.wire] /\ n.asked \in Seq(Requests)
  BY <1>2 DEF ViewFits, Fields, NetFits
<1>6. agent.lastSeq \in Nat /\ pane.now \in Nat /\ BrowserFits /\ Fields
  BY DEF ViewFits, AgentFits
<1>7. m.seq \in Unknown .. agent.lastSeq
  BY <1>4, <1>6 DEF Unknown
<1>8. RequestReplayForTarget(m.seq).pending \in Pendings /\ RequestReplayForTarget(m.seq).requests \in Seq(Requests)
  BY <1>7, RequestFits
<1>9. ASSUME m.kind = "output", HandleOutput(n, m) PROVE Received(n)
  <2>1. CASE MakeNone(n) /\ UNCHANGED <<view, ref, page>>
    BY <2>1, <1>5, NoneReceived DEF MakeNone
  <2>2. CASE Make(n, RequestReplayForTarget(m.seq)) /\ UNCHANGED <<view, ref, page>>
    BY <2>2, <1>8, MakeReceived
  <2>3. CASE Accepted(n, m)
    <3>1. m.seq \in 1 .. agent.lastSeq /\ m.to \in 1 .. pane.now
      BY <1>4, <1>9 DEF Frames
    <3>2. PICK content : content = IF m.mode = "replace" \/ view.content = m.from THEN m.to ELSE Garbled
      OBVIOUS
    <3>3. view' = [content |-> content, seq |-> m.seq] /\ content \in 0 .. pane.now \cup {Garbled}
      BY <2>3, <1>6, <3>1, <3>2 DEF Accepted
    <3>4. pending' \in Pendings
      <4>1. NoPending \in Pendings /\ pending \in Pendings
        BY <1>6 DEF Pendings, BrowserFits
      <4> QED BY <2>3, <4>1 DEF Accepted
    <3>5. ref' \in Unknown .. agent.lastSeq /\ (~way.lags => ref' = m.seq)
      BY <2>3, <1>6, <1>7 DEF Accepted, BrowserFits
    <3>6. net' = Asked(n, <<>>) /\ <<>> \in Seq(Requests)
      <4>1. Asked(n, <<>>) = n
        BY <1>5, AskedNone
      <4> QED BY <2>3, <4>1 DEF Accepted
    <3>7. page' = page
      BY <2>3 DEF Accepted
    <3> QED BY <1>6, <1>7, <3>3, <3>4, <3>5, <3>6, <3>7 DEF Received, BrowserFits, Fields
  <2> QED BY <1>9, <2>1, <2>2, <2>3 DEF HandleOutput
<1>10. ASSUME HandleState(n, m) PROVE Received(n)
  <2>1. page' = [page EXCEPT !.known = m.seq] /\ UNCHANGED <<view, ref>>
    BY <1>10 DEF HandleState
  <2>2. CASE Make(n, RequestReplayForTarget(m.seq))
    BY <2>1, <2>2, <1>4, <1>8, MakeReceived
  <2>3. CASE MakeNone(n)
    BY <2>1, <2>3, <1>4, <1>5, NoneReceived DEF MakeNone
  <2> QED BY <1>10, <2>2, <2>3 DEF HandleState
<1>11. ASSUME HandleList(n, m) PROVE Received(n)
  <2>1. page' = [page EXCEPT !.known = m.seq] /\ UNCHANGED <<view, ref>>
    BY <1>11 DEF HandleList
  <2>2. CASE Make(n, RequestReplayForTarget(m.seq))
    BY <2>1, <2>2, <1>4, <1>8, MakeReceived
  <2>3. CASE ref < m.seq /\ net' = Asked(n, <<Word("replay", ref)>>)
             /\ pending' = [after |-> ref, target |-> m.seq, recent |-> TRUE]
    <3>1. PICK r : r = [pending |-> [after |-> ref, target |-> m.seq, recent |-> TRUE],
                        requests |-> <<Word("replay", ref)>>]
      OBVIOUS
    <3>2. r.pending \in Pendings
      BY <1>6, <1>7, <2>3, <3>1 DEF Pendings, BrowserFits, Unknown
    <3>3. Word("replay", ref) \in Requests
      BY <1>6 DEF Word, Requests, BrowserFits
    <3>4. r.requests \in Seq(Requests)
      <4> HIDE DEF Requests
      <4> QED BY <3>1, <3>3
    <3>5. Make(n, r)
      BY <2>3, <3>1 DEF Make
    <3> QED BY <2>1, <1>4, <3>2, <3>4, <3>5, MakeReceived
  <2> QED BY <1>11, <2>2, <2>3 DEF HandleList
<1>12. ASSUME HandleAuth(n) PROVE Received(n)
  <2>1. UNCHANGED <<view, ref, page>>
    BY <1>12 DEF HandleAuth
  <2>2. CASE Make(n, RequestMissing)
    BY <2>1, <2>2, MissingFits, MakeReceived
  <2>3. CASE Make(n, [pending |-> pending, requests |-> <<Word("list", 0)>>])
    <3>1. Word("list", 0) \in Requests
      BY <1>6 DEF Word, Requests, Unknown
    <3>2. <<Word("list", 0)>> \in Seq(Requests) /\ pending \in Pendings
      <4> HIDE DEF Requests
      <4> QED BY <1>6, <3>1 DEF BrowserFits
    <3>3. PICK r : r = [pending |-> pending, requests |-> <<Word("list", 0)>>]
      OBVIOUS
    <3>4. r.pending \in Pendings /\ r.requests \in Seq(Requests) /\ Make(n, r)
      BY <2>3, <3>2, <3>3
    <3> QED BY <2>1, <3>4, MakeReceived
  <2> QED BY <1>12, <2>2, <2>3 DEF HandleAuth
<1> QED BY <1>1, <1>2, <1>3, <1>9, <1>10, <1>11, <1>12 DEF Receive

\* The browser's side of the types needs no proof where its variables stay and the agent's
\* numbers only grow.
LEMMA BrowserStill ==
  ASSUME ViewFits, UNCHANGED <<view, ref, pending, page, way>>, agent'.lastSeq \in Nat, pane'.now \in Nat,
         agent.lastSeq <= agent'.lastSeq, pane.now <= pane'.now
  PROVE  BrowserFits'
<1>1. BrowserFits /\ agent.lastSeq \in Nat /\ pane.now \in Nat
  BY DEF ViewFits, AgentFits
<1>2. Pendings \subseteq Pendings'
  BY SetsGrow
<1>3. 0 .. pane.now \subseteq 0 .. pane'.now /\ Unknown .. agent.lastSeq \subseteq Unknown .. agent'.lastSeq
  BY <1>1 DEF Unknown
<1> HIDE DEF Pendings
<1> QED BY <1>1, <1>2, <1>3 DEF BrowserFits

\* One replay of the agent changes.
LEMMA ReaderChanges ==
  ASSUME Fields, NEW r \in Readers, NEW at, NEW seq, NEW out,
         reader' = [reader EXCEPT ![r] = [at |-> at, seq |-> seq, out |-> out]]
  PROVE  /\ reader' = [q \in Readers |-> [at |-> reader'[q].at, seq |-> reader'[q].seq, out |-> reader'[q].out]]
         /\ \A q \in Readers : /\ reader'[q].at = IF q = r THEN at ELSE reader[q].at
                               /\ reader'[q].seq = IF q = r THEN seq ELSE reader[q].seq
                               /\ reader'[q].out = IF q = r THEN out ELSE reader[q].out
<1>1. reader' = [q \in Readers |-> IF q = r THEN [at |-> at, seq |-> seq, out |-> out] ELSE reader[q]]
  BY DEF Fields
<1>2. \A q \in Readers : reader[q] = [at |-> reader[q].at, seq |-> reader[q].seq, out |-> reader[q].out]
  BY DEF Fields
<1>3. \A q \in Readers : reader'[q] = IF q = r THEN [at |-> at, seq |-> seq, out |-> out] ELSE reader[q]
  BY <1>1
<1>4. \A q \in Readers : /\ reader'[q].at = IF q = r THEN at ELSE reader[q].at
                         /\ reader'[q].seq = IF q = r THEN seq ELSE reader[q].seq
                         /\ reader'[q].out = IF q = r THEN out ELSE reader[q].out
  BY <1>3
<1>5. \A q \in Readers : reader'[q] = [at |-> reader'[q].at, seq |-> reader'[q].seq, out |-> reader'[q].out]
  BY <1>2, <1>3
<1>6. reader' = [q \in Readers |-> reader'[q]]
  BY <1>1
<1> QED BY <1>4, <1>5, <1>6

\* A pass of the loop.
LEMMA SyncTypes ==
  ASSUME ViewFits, SyncSession, UNCHANGED way
  PROVE  /\ agent' = [rendered |-> pane.now, lastSeq |-> agent.lastSeq + 1, cache |-> Push(LoopFrame)]
         /\ net' = Told(<<LoopFrame, Word("state", agent.lastSeq + 1)>>)
         /\ LoopFrame \in Frames'
         /\ Fields' /\ AgentFits' /\ NetFits' /\ BrowserFits'
<1>1. /\ agent' = [rendered |-> pane.now, lastSeq |-> agent.lastSeq + 1, cache |-> Push(LoopFrame)]
      /\ net' = Told(<<LoopFrame, Word("state", agent.lastSeq + 1)>>)
      /\ UNCHANGED <<pane, reader, count, view, ref, pending, page, way>>
  BY DEF SyncSession, LoopFrame
<1>2. Fields /\ AgentFits /\ NetFits
  BY DEF ViewFits
<1>3. agent'.lastSeq = agent.lastSeq + 1 /\ agent'.rendered = pane.now /\ agent'.cache = Push(LoopFrame)
  BY <1>1
<1>4. agent.lastSeq \in Nat \ {0} /\ pane.now \in 1 .. MaxPane /\ agent.rendered \in 0 .. pane.now
      /\ pane.now \in Nat \ {0} /\ pane' = pane
  BY <1>1, <1>2, ViewAssumption DEF AgentFits
<1>5. LoopFrame \in Frames'
  BY <1>3, <1>4 DEF LoopFrame, Frame, Frames
<1>6. Frames \subseteq Frames' /\ Requests \subseteq Requests'
  BY <1>3, <1>4, SetsGrow
<1>7. Len(Push(LoopFrame)) <= Limit
  <2>1. PICK G : G = Frames'
    OBVIOUS
  <2>2. agent.cache \in Seq(Frames)
    BY DEF ViewFits, Carried
  <2> HIDE DEF Frames
  <2>3. agent.cache \in Seq(G)
    BY <1>6, <2>1, <2>2, MoreSeqs
  <2> QED BY <1>5, <2>1, <2>3, PushKeeps
<1>8. AgentFits'
  <2>1. \A r \in Readers : reader[r].seq \in 0 .. agent.lastSeq + 1
    BY <1>2, <1>4 DEF AgentFits
  <2> QED BY <1>1, <1>2, <1>3, <1>4, <1>7, <2>1 DEF AgentFits
<1>9. Fields'
  BY <1>1, <1>2, ToldFits DEF Fields
<1>10. NetFits'
  <2>1. net'.up = net.up /\ net'.link = net.link /\ net'.asked = net.asked
    BY <1>1, <1>2, ToldFits
  <2>2. net'.wire = IF net.up /\ net.link THEN net.wire \o <<LoopFrame, Word("state", agent.lastSeq + 1)>> ELSE net.wire
    BY <1>1, <1>2, ToldFits
  <2>3. net'.asked \in Seq(Requests')
    BY <1>2, <1>6, <2>1, MoreSeqs DEF NetFits
  <2> HIDE DEF Requests
  <2> QED BY <1>2, <2>1, <2>2, <2>3 DEF NetFits
<1>11. BrowserFits'
  BY <1>1, <1>3, <1>4, BrowserStill
<1> QED BY <1>1, <1>5, <1>8, <1>9, <1>10, <1>11

\* The agent answers a request for the list.
LEMMA ListTypes ==
  ASSUME ViewFits, ListAnswered, UNCHANGED way
  PROVE  /\ net.asked # <<>> /\ net'.up = net.up /\ net'.link = net.link /\ net'.asked = Tail(net.asked)
         /\ net'.wire = IF net.up /\ net.link THEN net.wire \o <<Word("list", agent.lastSeq)>> ELSE net.wire
         /\ Fields' /\ AgentFits' /\ NetFits' /\ BrowserFits'
<1>1. /\ net' = [Told(<<Word("list", agent.lastSeq)>>) EXCEPT !.asked = Tail(@)] /\ net.asked # <<>>
      /\ UNCHANGED <<pane, agent, reader, count, view, ref, pending, page, way>>
  BY DEF ListAnswered
<1>2. Fields /\ AgentFits /\ NetFits /\ BrowserFits
  BY DEF ViewFits
<1>3. PICK n : n = Told(<<Word("list", agent.lastSeq)>>)
  OBVIOUS
<1>4. /\ n = [up |-> net.up, link |-> net.link, asked |-> net.asked, wire |-> n.wire]
      /\ n.wire = IF net.up /\ net.link THEN net.wire \o <<Word("list", agent.lastSeq)>> ELSE net.wire
  BY <1>2, <1>3, ToldFits
<1>5. /\ net' = [up |-> net'.up, link |-> net'.link, asked |-> net'.asked, wire |-> net'.wire]
      /\ net'.up = net.up /\ net'.link = net.link /\ net'.asked = Tail(net.asked) /\ net'.wire = n.wire
  <2>1. net' = [n EXCEPT !.asked = Tail(@)]
    BY <1>1, <1>3
  <2>2. n.asked = net.asked /\ n.up = net.up /\ n.link = net.link
    BY <1>4
  <2>3. net' = [up |-> n.up, link |-> n.link, asked |-> Tail(n.asked), wire |-> n.wire]
    BY <1>4, <2>1
  <2> QED BY <2>2, <2>3
<1>6. Tail(net.asked) \in Seq(Requests)
  <2> HIDE DEF Requests
  <2> QED BY <1>1, <1>2, HeadTail DEF NetFits
<1>7. Requests' = Requests /\ Pendings' = Pendings
  BY <1>1 DEF Requests, Pendings
<1>8. Fields'
  BY <1>1, <1>2, <1>5 DEF Fields
<1>9. NetFits'
  <2>1. net'.asked \in Seq(Requests')
    BY <1>5, <1>6, <1>7
  <2>2. net.link
    BY <1>1, <1>2 DEF NetFits
  <2>3. ~net.up => net'.wire = <<>>
    BY <1>2, <1>4, <1>5 DEF NetFits
  <2> QED BY <1>2, <1>5, <2>1, <2>2, <2>3 DEF NetFits
<1>10. AgentFits' /\ BrowserFits'
  BY <1>1, <1>2, <1>7 DEF AgentFits, BrowserFits
<1> QED BY <1>1, <1>4, <1>5, <1>8, <1>9, <1>10

\* A replay takes a request, captures the pane, and sends.
LEMMA BeginTypes ==
  ASSUME ViewFits, NEW r \in Readers, ReplayBegin(r), UNCHANGED way
  PROVE  /\ \E after \in Unknown .. agent.lastSeq, out \in Seq(Frames) :
              /\ out = CachedAfter(after) \/ out = <<>>
              /\ Head(net.asked) = [kind |-> "replay", seq |-> after]
              /\ out # <<>> => Continues(out, after) /\ reader'[r].at = "send"
              /\ out = <<>> => reader'[r].at = "capture" /\ reader'[r].seq = agent.lastSeq
              /\ \A q \in Readers : reader'[q].out = IF q = r THEN out ELSE reader[q].out
         /\ \A q \in Readers \ {r} : reader'[q].at = reader[q].at /\ reader'[q].seq = reader[q].seq
         /\ UNCHANGED <<agent, pane, view, ref, pending, page, count>> /\ reader[r].at = "idle"
         /\ net.asked # <<>> /\ net'.asked = Tail(net.asked) /\ net'.wire = net.wire
         /\ net'.up = net.up /\ net'.link = net.link
         /\ Fields' /\ AgentFits' /\ NetFits' /\ BrowserFits'
<1>1. /\ Fields /\ AgentFits /\ NetFits /\ BrowserFits /\ UNCHANGED <<agent, pane, view, ref, pending, page, count, way>>
      /\ net.asked # <<>> /\ net' = [net EXCEPT !.asked = Tail(@)] /\ reader[r].at = "idle"
      /\ Head(net.asked).kind = "replay"
  BY DEF ReplayBegin, ViewFits
<1>2. PICK after : after = Head(net.asked).seq
  OBVIOUS
<1>3. Head(net.asked) = [kind |-> "replay", seq |-> after] /\ after \in Unknown .. agent.lastSeq /\ Tail(net.asked) \in Seq(Requests)
  <2>1. Head(net.asked) \in Requests /\ Tail(net.asked) \in Seq(Requests)
    BY <1>1, HeadTail DEF NetFits
  <2> QED BY <1>1, <1>2, <2>1 DEF Requests
<1>4. agent.lastSeq \in Nat \ {0} /\ after \in Int
  BY <1>1, <1>3 DEF AgentFits, Unknown
<1>5. PICK frames : frames = CachedAfter(after)
  OBVIOUS
<1>6. frames \in Seq(Frames)
  <2>1. PICK F : F = Frames
    OBVIOUS
  <2>2. \A f \in F : f.seq \in Int
    BY <1>4, <2>1 DEF Frames
  <2>3. agent.cache \in Seq(F)
    BY <2>1 DEF ViewFits, Carried
  <2> QED BY <1>4, <1>5, <2>1, <2>2, <2>3, CachedAreFrames
<1>7. PICK at, seq, out :
        /\ reader' = [reader EXCEPT ![r] = [at |-> at, seq |-> seq, out |-> out]]
        /\ \/ Continues(frames, after) /\ at = "send" /\ seq = 0 /\ out = frames /\ frames # <<>>
           \/ at = "capture" /\ seq = agent.lastSeq /\ out = <<>>
  BY <1>2, <1>5 DEF ReplayBegin, Continues
<1>8. out \in Seq(Frames) /\ (out = frames \/ out = <<>>)
  <2>1. <<>> \in Seq(Frames)
    OBVIOUS
  <2> QED BY <1>6, <1>7, <2>1
<1>9. /\ reader' = [q \in Readers |-> [at |-> reader'[q].at, seq |-> reader'[q].seq, out |-> reader'[q].out]]
      /\ \A q \in Readers : /\ reader'[q].at = IF q = r THEN at ELSE reader[q].at
                            /\ reader'[q].seq = IF q = r THEN seq ELSE reader[q].seq
                            /\ reader'[q].out = IF q = r THEN out ELSE reader[q].out
  BY <1>1, <1>7, ReaderChanges
<1>10. /\ net' = [up |-> net'.up, link |-> net'.link, asked |-> net'.asked, wire |-> net'.wire]
       /\ net'.up = net.up /\ net'.link = net.link /\ net'.asked = Tail(net.asked) /\ net'.wire = net.wire
  BY <1>1 DEF Fields
<1>11. Fields'
  BY <1>1, <1>9, <1>10 DEF Fields
<1>12. AgentFits'
  <2>1. \A q \in Readers : /\ reader'[q].at \in {"idle", "capture", "send"}
                           /\ reader'[q].seq \in 0 .. agent.lastSeq
                           /\ reader'[q].at = "capture" => reader'[q].seq # 0
                           /\ reader'[q].at = "send" <=> reader'[q].out # <<>>
    <3> TAKE q \in Readers
    <3>1. CASE q = r
      <4>1. 0 \in 0 .. agent.lastSeq /\ agent.lastSeq \in 0 .. agent.lastSeq /\ agent.lastSeq # 0
        BY <1>4
      <4> QED BY <1>7, <1>9, <3>1, <4>1
    <3>2. CASE q # r
      BY <1>1, <1>9, <3>2 DEF AgentFits
    <3> QED BY <3>1, <3>2
  <2> QED BY <1>1, <2>1 DEF AgentFits
<1>13. NetFits'
  <2>1. net'.asked \in Seq(Requests')
    BY <1>1, <1>3, <1>10 DEF Requests
  <2>2. net.link
    BY <1>1 DEF NetFits
  <2> QED BY <1>1, <1>10, <2>1, <2>2 DEF NetFits
<1>14. BrowserFits'
  BY <1>1, <1>4, BrowserStill DEF AgentFits, ViewFits
<1>15. /\ out # <<>> => Continues(out, after) /\ reader'[r].at = "send"
       /\ out = <<>> => reader'[r].at = "capture" /\ reader'[r].seq = agent.lastSeq
  BY <1>7, <1>9
<1>16. \A q \in Readers \ {r} : reader'[q].at = reader[q].at /\ reader'[q].seq = reader[q].seq
  BY <1>9
<1> QED BY <1>1, <1>3, <1>5, <1>8, <1>9, <1>10, <1>11, <1>12, <1>13, <1>14, <1>15, <1>16

LEMMA CapturedTypes ==
  ASSUME ViewFits, NEW r \in Readers, ReplayCaptured(r), UNCHANGED way
  PROVE  /\ reader[r].at = "capture" /\ CaptureFrame(r) \in Frames
         /\ agent' = [rendered |-> agent.rendered, lastSeq |-> agent.lastSeq, cache |-> Push(CaptureFrame(r))]
         /\ \A q \in Readers : reader'[q].out = IF q = r THEN <<CaptureFrame(r)>> ELSE reader[q].out
         /\ \A q \in Readers \ {r} : reader'[q].at = reader[q].at /\ reader'[q].seq = reader[q].seq
         /\ reader'[r].at = "send"
         /\ way.steady => agent.rendered = pane.now
         /\ UNCHANGED <<pane, net, view, ref, pending, page, count>>
         /\ Fields' /\ AgentFits' /\ NetFits' /\ BrowserFits'
<1>1. /\ Fields /\ AgentFits /\ NetFits /\ BrowserFits
      /\ UNCHANGED <<pane, net, view, ref, pending, page, count, way>>
      /\ reader[r].at = "capture" /\ (way.steady => agent.rendered = pane.now)
  BY DEF ReplayCaptured, ViewFits
<1>2. PICK seq : seq = IF way.steady THEN agent.lastSeq ELSE reader[r].seq
  OBVIOUS
<1>3. PICK frame : frame = CaptureFrame(r)
  OBVIOUS
<1>4. agent' = [agent EXCEPT !.cache = Push(frame)]
      /\ reader' = [reader EXCEPT ![r] = [at |-> "send", seq |-> seq, out |-> <<frame>>]]
  BY <1>2, <1>3 DEF ReplayCaptured, CaptureFrame
<1>5. agent.lastSeq \in Nat \ {0} /\ pane.now \in Nat \ {0} /\ reader[r].seq \in 1 .. agent.lastSeq
  BY <1>1, ViewAssumption DEF AgentFits
<1>6. frame \in Frames
  BY <1>3, <1>5 DEF CaptureFrame, Frame, Frames
<1>7. /\ agent' = [rendered |-> agent.rendered, lastSeq |-> agent.lastSeq, cache |-> Push(frame)]
      /\ agent'.rendered = agent.rendered /\ agent'.lastSeq = agent.lastSeq /\ agent'.cache = Push(frame)
  BY <1>1, <1>4 DEF Fields
<1>8. Len(Push(frame)) <= Limit
  <2>1. PICK F : F = Frames
    OBVIOUS
  <2>2. agent.cache \in Seq(F)
    BY <2>1 DEF ViewFits, Carried
  <2> QED BY <1>6, <2>1, <2>2, PushKeeps
<1>9. /\ reader' = [q \in Readers |-> [at |-> reader'[q].at, seq |-> reader'[q].seq, out |-> reader'[q].out]]
      /\ \A q \in Readers : /\ reader'[q].at = IF q = r THEN "send" ELSE reader[q].at
                            /\ reader'[q].seq = IF q = r THEN seq ELSE reader[q].seq
                            /\ reader'[q].out = IF q = r THEN <<frame>> ELSE reader[q].out
  BY <1>1, <1>4, ReaderChanges
<1>10. Fields'
  BY <1>1, <1>7, <1>9 DEF Fields
<1>11. AgentFits'
  <2>1. \A q \in Readers : /\ reader'[q].at \in {"idle", "capture", "send"}
                           /\ reader'[q].seq \in 0 .. agent.lastSeq
                           /\ reader'[q].at = "capture" => reader'[q].seq # 0
                           /\ reader'[q].at = "send" <=> reader'[q].out # <<>>
    <3> TAKE q \in Readers
    <3>1. CASE q = r
      <4>1. seq \in 0 .. agent.lastSeq
        BY <1>2, <1>5
      <4>2. <<frame>> # <<>>
        OBVIOUS
      <4>3. reader'[q].at = "send" /\ reader'[q].seq = seq /\ reader'[q].out = <<frame>>
        BY <1>9, <3>1
      <4> QED BY <1>7, <4>1, <4>2, <4>3
    <3>2. CASE q # r
      BY <1>1, <1>9, <3>2 DEF AgentFits
    <3> QED BY <3>1, <3>2
  <2> QED BY <1>1, <1>7, <1>8, <2>1 DEF AgentFits
<1>12. NetFits'
  BY <1>1, <1>7 DEF NetFits, Requests
<1>13. BrowserFits'
  BY <1>1, <1>5, <1>7, BrowserStill
<1> QED BY <1>1, <1>3, <1>6, <1>7, <1>9, <1>10, <1>11, <1>12, <1>13

LEMMA SendTypes ==
  ASSUME ViewFits, NEW r \in Readers, ReplaySend(r), UNCHANGED way
  PROVE  /\ reader[r].at = "send" /\ reader[r].out # <<>>
         /\ \A q \in Readers : reader'[q].out = IF q = r THEN Tail(reader[q].out) ELSE reader[q].out
         /\ \A q \in Readers \ {r} : reader'[q].at = reader[q].at /\ reader'[q].seq = reader[q].seq
         /\ reader'[r].at # "capture"
         /\ net'.wire = IF net.up /\ net.link THEN net.wire \o <<Head(reader[r].out)>> ELSE net.wire
         /\ net'.up = net.up /\ net'.link = net.link /\ net'.asked = net.asked
         /\ UNCHANGED <<pane, agent, view, ref, pending, page, count>>
         /\ Fields' /\ AgentFits' /\ NetFits' /\ BrowserFits'
<1>1. /\ Fields /\ AgentFits /\ NetFits /\ BrowserFits
      /\ UNCHANGED <<pane, agent, view, ref, pending, page, count, way>>
      /\ reader[r].at = "send" /\ reader[r].out # <<>>
      /\ net' = Told(<<Head(reader[r].out)>>)
  BY DEF ReplaySend, ViewFits, AgentFits
<1>2. PICK frames \in Seq(Frames) : frames = reader[r].out
  BY DEF ViewFits, Carried
<1>3. PICK rest : rest = Tail(reader[r].out)
  OBVIOUS
<1>4. PICK k : k = Len(reader[r].out)
  OBVIOUS
<1>5. k \in Nat /\ k # 0 /\ (rest = <<>> <=> k = 1)
  <2>1. /\ Len(frames) \in Nat \ {0} /\ Tail(frames) \in Seq(Frames) /\ Len(Tail(frames)) = Len(frames) - 1
    BY <1>1, <1>2, HeadTail
  <2>2. PICK more \in Seq(Frames) : more = Tail(frames)
    BY <2>1
  <2>3. more = <<>> <=> Len(more) = 0
    OBVIOUS
  <2>4. k \in Nat \ {0} /\ (rest = <<>> <=> k - 1 = 0)
    BY <1>2, <1>3, <1>4, <2>1, <2>2, <2>3
  <2> QED BY <2>4
<1>6. PICK at, seq : /\ reader' = [reader EXCEPT ![r] = [at |-> at, seq |-> seq, out |-> rest]]
                     /\ at = "send" \/ at = "idle"
                     /\ at = "send" <=> rest # <<>>
                     /\ seq \in {0, reader[r].seq}
  <2>1. CASE k > 1
    <3>1. reader' = [reader EXCEPT ![r] = [reader[r] EXCEPT !.out = rest]]
      BY <1>1, <1>3, <1>4, <2>1 DEF ReplaySend
    <3>2. PICK old, was : old = reader[r] /\ was = old.seq
      OBVIOUS
    <3>3. old = [at |-> "send", seq |-> was, out |-> frames]
      BY <1>1, <1>2, <3>2 DEF Fields
    <3>4. [old EXCEPT !.out = rest] = [at |-> "send", seq |-> was, out |-> rest]
      BY <3>3
    <3>5. reader' = [reader EXCEPT ![r] = [at |-> "send", seq |-> was, out |-> rest]]
      BY <3>1, <3>2, <3>4
    <3>6. rest # <<>> /\ was \in {0, reader[r].seq}
      BY <1>5, <2>1, <3>2
    <3> QED BY <3>5, <3>6
  <2>2. CASE k = 1
    <3>1. reader' = [reader EXCEPT ![r] = Idle] /\ rest = <<>>
      BY <1>1, <1>3, <1>4, <1>5, <2>2 DEF ReplaySend
    <3>2. Idle = [at |-> "idle", seq |-> 0, out |-> <<>>]
      BY DEF Idle
    <3>3. reader' = [reader EXCEPT ![r] = [at |-> "idle", seq |-> 0, out |-> rest]]
      BY <3>1, <3>2
    <3>4. ("idle" = "send") <=> (rest # <<>>)
      BY <3>1
    <3> QED BY <3>1, <3>3, <3>4, Zenon
  <2>3. k = 1 \/ k > 1
    BY <1>5
  <2> QED BY <2>1, <2>2, <2>3
<1>7. /\ reader' = [q \in Readers |-> [at |-> reader'[q].at, seq |-> reader'[q].seq, out |-> reader'[q].out]]
      /\ \A q \in Readers : /\ reader'[q].at = IF q = r THEN at ELSE reader[q].at
                            /\ reader'[q].seq = IF q = r THEN seq ELSE reader[q].seq
                            /\ reader'[q].out = IF q = r THEN rest ELSE reader[q].out
  BY <1>1, <1>6, ReaderChanges
<1>8. /\ net'.up = net.up /\ net'.link = net.link /\ net'.asked = net.asked
      /\ net'.wire = IF net.up /\ net.link THEN net.wire \o <<Head(reader[r].out)>> ELSE net.wire
      /\ net' = [up |-> net'.up, link |-> net'.link, asked |-> net'.asked, wire |-> net'.wire]
  BY <1>1, ToldFits
<1>9. Fields'
  BY <1>1, <1>7, <1>8 DEF Fields
<1>10. AgentFits'
  <2>1. \A q \in Readers : /\ reader'[q].at \in {"idle", "capture", "send"}
                           /\ reader'[q].seq \in 0 .. agent.lastSeq
                           /\ reader'[q].at = "capture" => reader'[q].seq # 0
                           /\ reader'[q].at = "send" <=> reader'[q].out # <<>>
    <3> TAKE q \in Readers
    <3>1. CASE q = r
      <4>1. seq \in 0 .. agent.lastSeq
        BY <1>1, <1>6 DEF AgentFits
      <4> QED BY <1>6, <1>7, <3>1, <4>1
    <3>2. CASE q # r
      BY <1>1, <1>7, <3>2 DEF AgentFits
    <3> QED BY <3>1, <3>2
  <2> QED BY <1>1, <2>1 DEF AgentFits
<1>11. NetFits'
  <2>1. net'.asked \in Seq(Requests')
    BY <1>1, <1>8 DEF Requests, NetFits
  <2> QED BY <1>1, <1>8, <2>1 DEF NetFits
<1>12. BrowserFits'
  BY <1>1, BrowserStill DEF AgentFits, ViewFits
<1>13. \A q \in Readers : reader'[q].out = IF q = r THEN Tail(reader[q].out) ELSE reader[q].out
  BY <1>3, <1>7
<1>14. \A q \in Readers \ {r} : reader'[q].at = reader[q].at /\ reader'[q].seq = reader[q].seq
  BY <1>7
<1>15. reader'[r].at # "capture"
  BY <1>6, <1>7
<1> QED BY <1>1, <1>8, <1>9, <1>10, <1>11, <1>12, <1>13, <1>14, <1>15

\* The pane changes; React renders; a request is no longer recent.
LEMMA PaneTypes ==
  ASSUME ViewFits, PaneChanges, UNCHANGED way
  PROVE  /\ pane'.now = pane.now + 1 /\ UNCHANGED <<agent, reader, net, view, ref, pending, page, count>>
         /\ Fields' /\ AgentFits' /\ NetFits' /\ BrowserFits'
<1>1. PICK redrawn \in {pane.redrawn, pane.redrawn \cup {pane.now + 1}} :
        pane' = [now |-> pane.now + 1, redrawn |-> redrawn]
  BY DEF PaneChanges
<1>2. pane.now < MaxPane /\ UNCHANGED <<agent, reader, net, view, ref, pending, page, count, way>>
      /\ Fields /\ AgentFits /\ NetFits /\ BrowserFits
  BY DEF PaneChanges, ViewFits
<1>3. agent.lastSeq \in Nat /\ pane.now \in 1 .. MaxPane /\ MaxPane \in Nat
  BY <1>2, ViewAssumption DEF AgentFits
<1>4. pane'.now = pane.now + 1 /\ pane'.redrawn = redrawn /\ Fields'
  BY <1>1, <1>2 DEF Fields
<1>5. BrowserFits'
  BY <1>2, <1>3, <1>4, BrowserStill
<1>6. AgentFits' /\ NetFits'
  BY <1>1, <1>2, <1>3, <1>4 DEF AgentFits, NetFits, Requests
<1> QED BY <1>2, <1>4, <1>5, <1>6

LEMMA PageTypes ==
  ASSUME ViewFits, Render \/ Expire, UNCHANGED way
  PROVE  /\ UNCHANGED <<pane, agent, reader, net, view, page, count>>
         /\ Fields' /\ AgentFits' /\ NetFits' /\ BrowserFits'
<1>1. /\ UNCHANGED <<pane, agent, reader, net, view, page, count, way>>
      /\ \/ ref' = view.seq /\ pending' = pending
         \/ ref' = ref /\ pending # NoPending /\ pending' = [pending EXCEPT !.recent = FALSE]
  BY DEF Render, Expire
<1>2. Fields /\ AgentFits /\ NetFits /\ BrowserFits
  BY DEF ViewFits
<1>3. pending' \in Pendings
  <2>1. CASE pending' = pending
    BY <1>2, <2>1 DEF BrowserFits
  <2>2. CASE pending # NoPending /\ pending' = [pending EXCEPT !.recent = FALSE]
    <3>1. PICK p \in [after : Int, target : Int, recent : BOOLEAN] :
            p = pending /\ Unknown <= p.after /\ p.after < p.target /\ p.target <= agent.lastSeq
      BY <1>2, <2>2 DEF BrowserFits, Pendings
    <3>2. PICK q : q = [p EXCEPT !.recent = FALSE]
      OBVIOUS
    <3>3. /\ q \in [after : Int, target : Int, recent : BOOLEAN]
          /\ q.after = p.after /\ q.target = p.target /\ pending' = q
      BY <2>2, <3>1, <3>2
    <3> QED BY <3>1, <3>3 DEF Pendings
  <2> QED BY <1>1, <2>1, <2>2
<1>4. ref' \in Unknown .. agent.lastSeq /\ (~way.lags => ref' = view.seq)
  BY <1>1, <1>2 DEF BrowserFits
<1>5. Pendings' = Pendings /\ Requests' = Requests
  BY <1>1 DEF Pendings, Requests
<1>6. Fields' /\ AgentFits' /\ NetFits'
  BY <1>1, <1>2, <1>5 DEF Fields, AgentFits, NetFits
<1>7. BrowserFits'
  BY <1>1, <1>2, <1>3, <1>4, <1>5 DEF BrowserFits
<1> QED BY <1>1, <1>6, <1>7

\* A request is made on a connection whose requests fit.
LEMMA MakeTypes ==
  ASSUME ViewFits, NEW n, n = [up |-> n.up, link |-> n.link, asked |-> n.asked, wire |-> n.wire],
         n.asked \in Seq(Requests), NEW requests \in Seq(Requests)
  PROVE  /\ Asked(n, requests).asked \in Seq(Requests)
         /\ Asked(n, requests) = [up |-> n.up, link |-> n.link, asked |-> Asked(n, requests).asked, wire |-> n.wire]
         /\ ~n.link => Asked(n, requests).asked = n.asked
         /\ Asked(n, requests).up = n.up /\ Asked(n, requests).link = n.link /\ Asked(n, requests).wire = n.wire
<1>1. n.asked \o requests \in Seq(Requests)
  OBVIOUS
<1>2. /\ Asked(n, requests).asked = IF n.up /\ n.link THEN n.asked \o requests ELSE n.asked
      /\ Asked(n, requests) = [up |-> n.up, link |-> n.link, asked |-> Asked(n, requests).asked, wire |-> n.wire]
      /\ Asked(n, requests).up = n.up /\ Asked(n, requests).link = n.link /\ Asked(n, requests).wire = n.wire
  BY AskedFits
<1> QED BY <1>1, <1>2

\* The browser connects, or the user returns to the page.
LEMMA AskingTypes ==
  ASSUME ViewFits, Connect \/ Look, UNCHANGED way
  PROVE  /\ UNCHANGED <<pane, agent, reader, view, ref, count>>
         /\ net'.up /\ net'.link = net.link
         /\ \/ Connect /\ net'.wire = <<Word("auth", 0)>>
            \/ Look /\ net'.wire = net.wire
         /\ Fields' /\ AgentFits' /\ NetFits' /\ BrowserFits'
<1>1. /\ UNCHANGED <<pane, agent, reader, view, ref, count, way>>
      /\ page' = page \/ \E active \in BOOLEAN : page' = [page EXCEPT !.active = active]
      /\ \E n : /\ Make(n, RequestMissing)
                /\ \/ Look /\ n = net /\ net.up
                   \/ Connect /\ n = [net EXCEPT !.up = TRUE, !.wire = <<Word("auth", 0)>>]
  BY DEF Connect, Look
<1>2. PICK n : /\ Make(n, RequestMissing)
               /\ \/ Look /\ n = net /\ net.up
                  \/ Connect /\ n = [net EXCEPT !.up = TRUE, !.wire = <<Word("auth", 0)>>]
  BY <1>1
<1>3. Fields /\ AgentFits /\ NetFits /\ BrowserFits
  BY DEF ViewFits
<1>4. /\ n = [up |-> n.up, link |-> n.link, asked |-> n.asked, wire |-> n.wire]
      /\ n.up /\ n.link = net.link /\ n.asked = net.asked
      /\ \/ Connect /\ n.wire = <<Word("auth", 0)>>
         \/ Look /\ n.wire = net.wire
  BY <1>2, <1>3 DEF Fields
<1>5. PICK requests \in Seq(Requests) : net' = Asked(n, requests) /\ pending' \in Pendings
  BY <1>2, MissingFits DEF Make
<1>6. n.asked \in Seq(Requests)
  BY <1>3, <1>4 DEF NetFits
<1>7. /\ net'.asked \in Seq(Requests)
      /\ net' = [up |-> n.up, link |-> n.link, asked |-> net'.asked, wire |-> n.wire]
      /\ ~n.link => net'.asked = n.asked
      /\ net'.up = n.up /\ net'.link = n.link /\ net'.wire = n.wire
  BY <1>4, <1>5, <1>6, MakeTypes
<1>8. Requests' = Requests /\ Pendings' = Pendings
  BY <1>1 DEF Requests, Pendings
<1>9. NetFits'
  <2>1. net'.asked \in Seq(Requests')
    BY <1>7, <1>8
  <2> QED BY <1>3, <1>4, <1>7, <2>1 DEF NetFits
<1>10. page' = [known |-> page'.known, active |-> page'.active] /\ page'.known = page.known /\ page'.active \in BOOLEAN
  BY <1>1, <1>3 DEF Fields, BrowserFits
<1>11. Fields'
  BY <1>1, <1>3, <1>7, <1>10 DEF Fields
<1>12. AgentFits'
  BY <1>1, <1>3 DEF AgentFits
<1>13. BrowserFits'
  BY <1>1, <1>3, <1>5, <1>8, <1>10 DEF BrowserFits
<1> QED BY <1>1, <1>4, <1>7, <1>9, <1>11, <1>12, <1>13

\* Connections are lost and come back.
LEMMA LostTypes ==
  ASSUME ViewFits, Drop \/ LinkLost \/ LinkBack, UNCHANGED way
  PROVE  /\ UNCHANGED <<pane, view, ref, pending, page>> /\ agent'.lastSeq = agent.lastSeq
         /\ \/ agent' = agent /\ reader' = reader
            \/ agent'.cache = <<>> /\ agent'.rendered = 0 /\ \A r \in Readers : reader'[r].out = <<>>
         /\ net'.wire = net.wire \/ net'.wire = <<>>
         /\ \/ Drop /\ ~net'.up /\ agent' = agent /\ reader' = reader /\ net'.link = net.link /\ count'.cuts = count.cuts
            \/ LinkLost /\ count'.cuts > 0
            \/ LinkBack /\ net'.link /\ net'.up = net.up /\ agent' = agent /\ reader' = reader /\ ~net.link
               /\ count' = count
         /\ Fields' /\ AgentFits' /\ NetFits' /\ BrowserFits'
<1>1. Fields /\ AgentFits /\ NetFits /\ BrowserFits
  BY DEF ViewFits
<1>2. CASE Drop
  <2>1. PICK n \in 0 .. Len(net.asked) : net' = [net EXCEPT !.up = FALSE, !.asked = SubSeq(@, 1, n), !.wire = <<>>]
    BY <1>2 DEF Drop
  <2>2. /\ UNCHANGED <<pane, agent, reader, view, ref, pending, page, way>>
        /\ count' = [count EXCEPT !.drops = @ + 1]
    BY <1>2 DEF Drop
  <2>3. /\ net' = [up |-> net'.up, link |-> net'.link, asked |-> net'.asked, wire |-> net'.wire]
        /\ net'.up = FALSE /\ net'.link = net.link /\ net'.asked = SubSeq(net.asked, 1, n) /\ net'.wire = <<>>
    BY <1>1, <2>1 DEF Fields
  <2>4. net'.asked \in Seq(Requests) /\ (net.asked = <<>> => net'.asked = <<>>)
    <3>1. PICK asked \in Seq(Requests) : asked = net.asked
      BY <1>1 DEF NetFits
    <3>2. SubSeq(asked, 1, n) \in Seq(Requests) /\ (asked = <<>> => SubSeq(asked, 1, n) = <<>>)
      BY <2>1, <3>1
    <3> QED BY <2>3, <3>1, <3>2
  <2>5. Requests' = Requests /\ Pendings' = Pendings
    BY <2>2 DEF Requests, Pendings
  <2>6. NetFits'
    <3>1. net'.asked \in Seq(Requests')
      BY <2>4, <2>5
    <3> QED BY <1>1, <2>3, <2>4, <3>1 DEF NetFits
  <2>7. count' = [drops |-> count.drops + 1, cuts |-> count.cuts]
    BY <1>1, <2>2 DEF Fields
  <2>8. Fields' /\ AgentFits' /\ BrowserFits'
    BY <1>1, <2>2, <2>3, <2>5, <2>7 DEF Fields, AgentFits, BrowserFits
  <2> QED BY <1>2, <2>2, <2>3, <2>6, <2>7, <2>8
<1>3. CASE LinkLost
  <2>1. /\ net' = [net EXCEPT !.link = FALSE, !.asked = <<>>]
        /\ UNCHANGED <<pane, view, ref, pending, page, way>>
        /\ count' = [count EXCEPT !.cuts = @ + 1]
    BY <1>3 DEF LinkLost
  <2>2. \/ agent' = agent /\ reader' = reader
        \/ /\ agent' = [agent EXCEPT !.rendered = 0, !.cache = <<>>]
           /\ reader' = [r \in Readers |-> Idle]
    BY <1>3 DEF LinkLost
  <2>3. /\ net' = [up |-> net'.up, link |-> net'.link, asked |-> net'.asked, wire |-> net'.wire]
        /\ net'.up = net.up /\ net'.link = FALSE /\ net'.asked = <<>> /\ net'.wire = net.wire
    BY <1>1, <2>1 DEF Fields
  <2>4. NetFits'
    <3>1. <<>> \in Seq(Requests')
      OBVIOUS
    <3> QED BY <1>1, <2>3, <3>1 DEF NetFits
  <2>5. count' = [drops |-> count.drops, cuts |-> count.cuts + 1]
    BY <1>1, <2>1 DEF Fields
  <2>6. /\ agent' = [rendered |-> agent'.rendered, lastSeq |-> agent'.lastSeq, cache |-> agent'.cache]
        /\ agent'.lastSeq = agent.lastSeq /\ agent'.rendered \in 0 .. pane.now /\ Len(agent'.cache) <= Limit
        /\ \/ agent' = agent /\ reader' = reader
           \/ /\ agent'.cache = <<>> /\ agent'.rendered = 0
              /\ reader' = [r \in Readers |-> [at |-> "idle", seq |-> 0, out |-> <<>>]]
    <3>1. CASE agent' = agent /\ reader' = reader
      BY <1>1, <3>1 DEF Fields, AgentFits
    <3>2. CASE agent' = [agent EXCEPT !.rendered = 0, !.cache = <<>>] /\ reader' = [r \in Readers |-> Idle]
      <4>1. agent' = [rendered |-> 0, lastSeq |-> agent.lastSeq, cache |-> <<>>]
        BY <1>1, <3>2 DEF Fields
      <4>2. Len(<<>>) <= Limit /\ 0 \in 0 .. pane.now
        BY <1>1, ViewAssumption DEF AgentFits
      <4>3. reader' = [r \in Readers |-> [at |-> "idle", seq |-> 0, out |-> <<>>]]
        BY <3>2 DEF Idle
      <4> QED BY <4>1, <4>2, <4>3
    <3> QED BY <2>2, <3>1, <3>2
  <2>7. /\ reader' = [q \in Readers |-> [at |-> reader'[q].at, seq |-> reader'[q].seq, out |-> reader'[q].out]]
        /\ \A r \in Readers : /\ reader'[r].at \in {"idle", "capture", "send"}
                              /\ reader'[r].seq \in 0 .. agent.lastSeq
                              /\ reader'[r].at = "capture" => reader'[r].seq # 0
                              /\ reader'[r].at = "send" <=> reader'[r].out # <<>>
        /\ \/ agent' = agent /\ reader' = reader
           \/ agent'.cache = <<>> /\ agent'.rendered = 0 /\ \A r \in Readers : reader'[r].out = <<>>
    <3>1. CASE agent' = agent /\ reader' = reader
      BY <1>1, <3>1 DEF Fields, AgentFits
    <3>2. CASE /\ agent'.cache = <<>> /\ agent'.rendered = 0
               /\ reader' = [r \in Readers |-> [at |-> "idle", seq |-> 0, out |-> <<>>]]
      <4>1. \A r \in Readers : reader'[r].at = "idle" /\ reader'[r].seq = 0 /\ reader'[r].out = <<>>
        BY <3>2
      <4>2. 0 \in 0 .. agent.lastSeq
        BY <1>1 DEF AgentFits
      <4>3. reader' = [q \in Readers |-> [at |-> reader'[q].at, seq |-> reader'[q].seq, out |-> reader'[q].out]]
        BY <3>2, <4>1
      <4> QED BY <3>2, <4>1, <4>2, <4>3
    <3> QED BY <2>6, <3>1, <3>2
  <2>8. Pendings' = Pendings
    BY <2>6 DEF Pendings
  <2>9. Fields' /\ AgentFits' /\ BrowserFits'
    BY <1>1, <2>1, <2>3, <2>5, <2>6, <2>7, <2>8 DEF Fields, AgentFits, BrowserFits
  <2>10. count'.cuts > 0
    BY <1>1, <2>5 DEF AgentFits
  <2> QED BY <1>3, <2>1, <2>3, <2>4, <2>6, <2>7, <2>9, <2>10
<1>4. CASE LinkBack
  <2>1. UNCHANGED <<pane, agent, reader, view, ref, pending, page, count, way>> /\ net' = [net EXCEPT !.link = TRUE] /\ ~net.link
    BY <1>4 DEF LinkBack
  <2>2. /\ net' = [up |-> net'.up, link |-> net'.link, asked |-> net'.asked, wire |-> net'.wire]
        /\ net'.up = net.up /\ net'.link = TRUE /\ net'.asked = net.asked /\ net'.wire = net.wire
    BY <1>1, <2>1 DEF Fields
  <2>3. Requests' = Requests /\ Pendings' = Pendings
    BY <2>1 DEF Requests, Pendings
  <2>4. NetFits'
    <3>1. net'.asked \in Seq(Requests')
      BY <1>1, <2>2, <2>3 DEF NetFits
    <3> QED BY <1>1, <2>2, <3>1 DEF NetFits
  <2>5. Fields' /\ AgentFits' /\ BrowserFits'
    BY <1>1, <2>1, <2>2, <2>3 DEF Fields, AgentFits, BrowserFits
  <2> QED BY <1>4, <2>1, <2>2, <2>4, <2>5
<1> QED BY <1>2, <1>3, <1>4

\* A message arrives.
LEMMA ArrivalTypes ==
  ASSUME ViewFits, Receive, UNCHANGED way
  PROVE  /\ UNCHANGED <<pane, agent, reader, count>> /\ net.wire # <<>> /\ net'.wire = Tail(net.wire)
         /\ net'.up = net.up /\ net'.link = net.link
         /\ Fields' /\ AgentFits' /\ NetFits' /\ BrowserFits'
<1>1. PICK n : n = [net EXCEPT !.wire = Tail(@)]
  OBVIOUS
<1>2. UNCHANGED <<pane, agent, reader, count>> /\ net.wire # <<>> /\ Received(n)
  BY <1>1, ReceiveTypes
<1>3. Fields /\ AgentFits /\ NetFits /\ BrowserFits
  BY DEF ViewFits
<1>4. /\ n = [up |-> n.up, link |-> n.link, asked |-> n.asked, wire |-> n.wire]
      /\ n.up = net.up /\ n.link = net.link /\ n.asked = net.asked /\ n.wire = Tail(net.wire)
  BY <1>1, <1>3 DEF Fields
<1>5. PICK requests \in Seq(Requests) : net' = Asked(n, requests)
  BY <1>2 DEF Received
<1>6. n.asked \in Seq(Requests)
  BY <1>3, <1>4 DEF NetFits
<1>7. /\ net'.asked \in Seq(Requests)
      /\ net' = [up |-> n.up, link |-> n.link, asked |-> net'.asked, wire |-> n.wire]
      /\ ~n.link => net'.asked = n.asked
      /\ net'.up = n.up /\ net'.link = n.link /\ net'.wire = n.wire
  BY <1>4, <1>5, <1>6, MakeTypes
<1>8. Requests' = Requests /\ Pendings' = Pendings
  BY <1>2 DEF Requests, Pendings
<1>9. NetFits'
  <2>1. net'.asked \in Seq(Requests')
    BY <1>7, <1>8
  <2>2. net.up
    BY <1>2, <1>3 DEF NetFits
  <2> QED BY <1>3, <1>4, <1>7, <2>1, <2>2 DEF NetFits
<1>10. AgentFits'
  BY <1>2, <1>3 DEF AgentFits
<1>11. Fields'
  BY <1>2, <1>3, <1>7 DEF Fields, Received
<1>12. BrowserFits'
  BY <1>2, <1>8 DEF BrowserFits, Received
<1> QED BY <1>2, <1>4, <1>7, <1>9, <1>10, <1>11, <1>12

\* The pane and the agent's numbers only grow.
LEMMA Grows ==
  ASSUME ViewFits, ViewNext
  PROVE  /\ Fields' /\ AgentFits' /\ NetFits' /\ BrowserFits' /\ way' = way
         /\ agent'.lastSeq \in Nat /\ pane'.now \in Nat
         /\ agent.lastSeq <= agent'.lastSeq /\ pane.now <= pane'.now
         /\ Words \subseteq Words' /\ Frames \subseteq Frames'
<1>1. Fields /\ AgentFits /\ agent.lastSeq \in Nat /\ pane.now \in Nat
  BY ViewAssumption DEF ViewFits, AgentFits
<1>2. /\ Fields' /\ AgentFits' /\ NetFits' /\ BrowserFits' /\ way' = way
      /\ agent.lastSeq <= agent'.lastSeq /\ pane.now <= pane'.now
  <2>1. CASE PaneChanges /\ UNCHANGED way
    BY <1>1, <2>1, PaneTypes
  <2>2. CASE SyncSession /\ UNCHANGED way
    BY <1>1, <2>2, SyncTypes DEF SyncSession
  <2>3. CASE ListAnswered /\ UNCHANGED way
    BY <1>1, <2>3, ListTypes DEF ListAnswered
  <2>4. ASSUME NEW r \in Readers, Steps(r) /\ UNCHANGED way
        PROVE  /\ Fields' /\ AgentFits' /\ NetFits' /\ BrowserFits' /\ way' = way
               /\ agent.lastSeq <= agent'.lastSeq /\ pane.now <= pane'.now
    <3>1. CASE ReplayBegin(r)
      BY <1>1, <2>4, <3>1, BeginTypes
    <3>2. CASE ReplayCaptured(r)
      <4>1. /\ agent' = [rendered |-> agent.rendered, lastSeq |-> agent.lastSeq, cache |-> Push(CaptureFrame(r))]
            /\ Fields' /\ AgentFits' /\ NetFits' /\ BrowserFits' /\ pane' = pane
        BY <2>4, <3>2, CapturedTypes
      <4>2. agent'.lastSeq = agent.lastSeq
        BY <4>1
      <4> QED BY <1>1, <2>4, <4>1, <4>2
    <3>3. CASE ReplaySend(r)
      <4>1. Fields' /\ AgentFits' /\ NetFits' /\ BrowserFits' /\ pane' = pane /\ agent' = agent
        BY <2>4, <3>3, SendTypes
      <4> QED BY <1>1, <2>4, <4>1
    <3> QED BY <2>4, <3>1, <3>2, <3>3 DEF Steps
  <2>5. CASE Receive /\ UNCHANGED way
    BY <1>1, <2>5, ArrivalTypes
  <2>6. CASE (Render \/ Expire) /\ UNCHANGED way
    BY <1>1, <2>6, PageTypes
  <2>7. CASE (Connect \/ Look) /\ UNCHANGED way
    BY <1>1, <2>7, AskingTypes
  <2>8. CASE (Drop \/ LinkLost \/ LinkBack) /\ UNCHANGED way
    BY <1>1, <2>8, LostTypes
  <2> QED BY <2>1, <2>2, <2>3, <2>4, <2>5, <2>6, <2>7, <2>8 DEF ViewNext
<1>3. agent'.lastSeq \in Nat /\ pane'.now \in Nat
  BY <1>2, ViewAssumption DEF AgentFits
<1> QED BY <1>2, <1>3, SetsGrow

\* A property that the frames on their way have is kept if the frames that are made have it.
LEMMA CarriedStep ==
  ASSUME ViewFits, ViewNext, NEW F, NEW G, F \subseteq G, Carried(F), \A f \in F : f.seq \in Int,
         SyncSession => LoopFrame \in G, \A r \in Readers : ReplayCaptured(r) => CaptureFrame(r) \in G
  PROVE  Carried(G)'
<1>1. /\ Fields' /\ AgentFits' /\ NetFits' /\ BrowserFits' /\ way' = way /\ Words \subseteq Words'
      /\ agent.lastSeq \in Nat /\ agent'.lastSeq \in Nat
  BY Grows DEF ViewFits, AgentFits
<1>2. PICK W : W = Words'
  OBVIOUS
<1>3. /\ agent.cache \in Seq(G) /\ (\A r \in Readers : reader[r].out \in Seq(G)) /\ net.wire \in Seq(G \cup W)
  <2>1. F \cup Words \subseteq G \cup W
    BY <1>1, <1>2
  <2> QED BY <2>1, MoreSeqs DEF Carried
<1>4. SUFFICES agent'.cache \in Seq(G) /\ (\A r \in Readers : reader'[r].out \in Seq(G)) /\ net'.wire \in Seq(G \cup W)
  BY <1>2 DEF Carried
<1>5. <<>> \in Seq(G) /\ <<>> \in Seq(G \cup W)
  OBVIOUS
<1>6. \A m \in G \cup W : net.wire \o <<m>> \in Seq(G \cup W)
  BY <1>3
<1>7. CASE SyncSession
  <2>1. /\ agent'.cache = Push(LoopFrame) /\ reader' = reader
        /\ net'.wire = IF net.up /\ net.link THEN net.wire \o <<LoopFrame, Word("state", agent.lastSeq + 1)>> ELSE net.wire
        /\ agent'.lastSeq = agent.lastSeq + 1
    <3>1. /\ agent' = [rendered |-> pane.now, lastSeq |-> agent.lastSeq + 1, cache |-> Push(LoopFrame)]
          /\ net' = Told(<<LoopFrame, Word("state", agent.lastSeq + 1)>>) /\ reader' = reader
      BY <1>1, <1>7, SyncTypes DEF SyncSession
    <3> QED BY <3>1, ToldFits DEF ViewFits
  <2>2. LoopFrame \in G /\ LoopFrame \in G \cup W /\ Word("state", agent.lastSeq + 1) \in G \cup W
    BY <1>1, <1>2, <1>7, <2>1 DEF Word, Words
  <2>3. Push(LoopFrame) \in Seq(G)
    BY <1>3, <2>2, PushKeeps
  <2>4. PICK f, w : f = LoopFrame /\ w = Word("state", agent.lastSeq + 1)
    OBVIOUS
  <2>5. net.wire \o <<f, w>> \in Seq(G \cup W)
    <3>1. f \in G \cup W /\ w \in G \cup W
      BY <2>2, <2>4
    <3>2. <<f, w>> \in Seq(G \cup W)
      BY <3>1
    <3> QED BY <1>3, <3>2
  <2> QED BY <1>3, <2>1, <2>3, <2>4, <2>5
<1>8. CASE ListAnswered
  <2>1. /\ agent' = agent /\ reader' = reader
        /\ net'.wire = IF net.up /\ net.link THEN net.wire \o <<Word("list", agent.lastSeq)>> ELSE net.wire
    BY <1>1, <1>8, ListTypes DEF ListAnswered
  <2>2. Word("list", agent.lastSeq) \in G \cup W
    BY <1>1, <1>2 DEF Word, Words
  <2> QED BY <1>3, <1>6, <2>1, <2>2
<1>9. ASSUME NEW r \in Readers, ReplayBegin(r)
      PROVE  agent'.cache \in Seq(G) /\ (\A q \in Readers : reader'[q].out \in Seq(G)) /\ net'.wire \in Seq(G \cup W)
  <2>1. PICK after \in Unknown .. agent.lastSeq, out \in Seq(Frames) :
              /\ out = CachedAfter(after) \/ out = <<>>
              /\ \A q \in Readers : reader'[q].out = IF q = r THEN out ELSE reader[q].out
    <3>1. UNCHANGED way
      BY <1>1
    <3>2. \E after \in Unknown .. agent.lastSeq, out \in Seq(Frames) :
              /\ out = CachedAfter(after) \/ out = <<>>
              /\ Head(net.asked) = [kind |-> "replay", seq |-> after]
              /\ out # <<>> => Continues(out, after) /\ reader'[r].at = "send"
              /\ out = <<>> => reader'[r].at = "capture" /\ reader'[r].seq = agent.lastSeq
              /\ \A q \in Readers : reader'[q].out = IF q = r THEN out ELSE reader[q].out
      BY <1>9, <3>1, BeginTypes
    <3> QED BY <3>2, Zenon
  <2>2. agent' = agent /\ net'.wire = net.wire
    BY <1>1, <1>9, BeginTypes
  <2>3. agent.cache \in Seq(F) /\ after \in Int
    BY <1>1 DEF Carried, Unknown
  <2>4. CachedAfter(after) \in Seq(F)
    BY <2>3, CachedAreFrames
  <2>5. out \in Seq(G)
    BY <1>5, <2>1, <2>4, MoreSeqs
  <2> QED BY <1>3, <2>1, <2>2, <2>5
<1>10. ASSUME NEW r \in Readers, ReplayCaptured(r)
       PROVE  agent'.cache \in Seq(G) /\ (\A q \in Readers : reader'[q].out \in Seq(G)) /\ net'.wire \in Seq(G \cup W)
  <2>1. /\ agent'.cache = Push(CaptureFrame(r)) /\ net' = net
        /\ \A q \in Readers : reader'[q].out = IF q = r THEN <<CaptureFrame(r)>> ELSE reader[q].out
    <3>1. /\ agent' = [rendered |-> agent.rendered, lastSeq |-> agent.lastSeq, cache |-> Push(CaptureFrame(r))]
          /\ net' = net
          /\ \A q \in Readers : reader'[q].out = IF q = r THEN <<CaptureFrame(r)>> ELSE reader[q].out
      BY <1>1, <1>10, CapturedTypes
    <3> QED BY <3>1
  <2>2. PICK f \in G : f = CaptureFrame(r)
    BY <1>10
  <2>3. Push(f) \in Seq(G) /\ <<f>> \in Seq(G)
    BY <1>3, PushKeeps
  <2> QED BY <1>3, <2>1, <2>2, <2>3
<1>11. ASSUME NEW r \in Readers, ReplaySend(r)
       PROVE  agent'.cache \in Seq(G) /\ (\A q \in Readers : reader'[q].out \in Seq(G)) /\ net'.wire \in Seq(G \cup W)
  <2>1. /\ agent' = agent /\ reader[r].out # <<>>
        /\ \A q \in Readers : reader'[q].out = IF q = r THEN Tail(reader[q].out) ELSE reader[q].out
        /\ net'.wire = IF net.up /\ net.link THEN net.wire \o <<Head(reader[r].out)>> ELSE net.wire
    BY <1>1, <1>11, SendTypes
  <2>2. PICK out \in Seq(G) : out = reader[r].out /\ out # <<>>
    BY <1>3, <2>1
  <2>3. Head(out) \in G /\ Tail(out) \in Seq(G)
    BY <2>2, HeadTail
  <2>4. Head(out) \in G \cup W
    BY <2>3
  <2> QED BY <1>3, <1>6, <2>1, <2>2, <2>3, <2>4
<1>12. CASE Receive
  <2>1. agent' = agent /\ reader' = reader /\ net.wire # <<>> /\ net'.wire = Tail(net.wire)
    BY <1>1, <1>12, ArrivalTypes
  <2>2. Tail(net.wire) \in Seq(G \cup W)
    BY <1>3, <2>1, HeadTail
  <2> QED BY <1>3, <2>1, <2>2
<1>13. CASE PaneChanges \/ Render \/ Expire
  BY <1>1, <1>3, <1>13, PaneTypes, PageTypes
<1>14. CASE Connect \/ Look
  <2>1. agent' = agent /\ reader' = reader /\ (net'.wire = <<Word("auth", 0)>> \/ net'.wire = net.wire)
    BY <1>1, <1>14, AskingTypes
  <2>2. Word("auth", 0) \in G \cup W
    BY <1>1, <1>2 DEF Word, Words
  <2>3. PICK w \in G \cup W : w = Word("auth", 0)
    BY <2>2
  <2>4. <<w>> \in Seq(G \cup W)
    OBVIOUS
  <2> QED BY <1>3, <2>1, <2>3, <2>4
<1>15. CASE Drop \/ LinkLost \/ LinkBack
  <2>1. /\ \/ agent' = agent /\ reader' = reader
           \/ agent'.cache = <<>> /\ \A r \in Readers : reader'[r].out = <<>>
        /\ net'.wire = net.wire \/ net'.wire = <<>>
    BY <1>1, <1>15, LostTypes
  <2> QED BY <1>3, <1>5, <2>1
<1> QED BY <1>7, <1>8, <1>9, <1>10, <1>11, <1>12, <1>13, <1>14, <1>15 DEF ViewNext, Steps

\* The types hold at first, and every step keeps them.
LEMMA FitsFirst == ViewInit => ViewFits
<1> SUFFICES ASSUME ViewInit PROVE ViewFits
  OBVIOUS
<1>1. /\ way \in Ways /\ pane = [now |-> 1, redrawn |-> {1}]
      /\ agent = [rendered |-> 1, lastSeq |-> 1, cache |-> <<Frame(1, "replace", 0, 1)>>]
      /\ reader = [r \in Readers |-> [at |-> "idle", seq |-> 0, out |-> <<>>]]
      /\ net = [up |-> way.watching, link |-> TRUE, asked |-> <<>>, wire |-> <<>>]
      /\ pending = NoPending /\ count = [drops |-> 0, cuts |-> 0]
  BY DEF ViewInit, Idle
<1>2. way.watching \in BOOLEAN
  BY <1>1, ViewAssumption DEF Way
<1>3. /\ view = [content |-> view.content, seq |-> view.seq] /\ page = [known |-> page.known, active |-> page.active]
      /\ page.known \in Unknown .. 1 /\ page.active \in BOOLEAN /\ ref = view.seq
      /\ view.seq \in Unknown .. 1 /\ view.content \in 0 .. 1
  <2>1. CASE way.watching
    BY <1>2, <2>1 DEF ViewInit, Unknown
  <2>2. CASE ~way.watching
    <3>1. view = [content |-> 0, seq |-> -1] /\ ref = -1 /\ page = [known |-> -1, active |-> FALSE]
      BY <2>2 DEF ViewInit, Unknown
    <3>2. -1 \in -1 .. 1 /\ 0 \in 0 .. 1 /\ Unknown = -1
      BY DEF Unknown
    <3> QED BY <3>1, <3>2
  <2> QED BY <2>1, <2>2
<1>4. Fields
  BY <1>1, <1>3 DEF Fields
<1>5. 1 .. MaxPane \in SUBSET Nat /\ 1 \in 1 .. MaxPane
  BY ViewAssumption
<1>6. \A r \in Readers : reader[r].at = "idle" /\ reader[r].seq = 0 /\ reader[r].out = <<>>
  BY <1>1
<1>7. Len(agent.cache) = 1
  BY <1>1
<1>8. AgentFits
  BY <1>1, <1>5, <1>6, <1>7, ViewAssumption DEF AgentFits
<1>9. <<>> \in Seq(Requests) /\ <<>> \in Seq(Frames) /\ <<>> \in Seq(Frames \cup Words)
  OBVIOUS
<1>10. NetFits
  BY <1>1, <1>2, <1>9 DEF NetFits
<1>11. BrowserFits
  BY <1>1, <1>3 DEF BrowserFits, Pendings
<1>12. agent.cache \in Seq(Frames)
  <2>1. Frame(1, "replace", 0, 1) \in Frames
    BY <1>1 DEF Frame, Frames
  <2>2. PICK f \in Frames : f = Frame(1, "replace", 0, 1)
    BY <2>1
  <2>3. agent.cache = <<f>>
    BY <1>1, <2>2
  <2> QED BY <2>3
<1>13. Carried(Frames)
  BY <1>1, <1>6, <1>9, <1>12 DEF Carried
<1> QED BY <1>4, <1>8, <1>10, <1>11, <1>13 DEF ViewFits

LEMMA FitsStep == ViewFits /\ [ViewNext]_<<viewVars, way>> => ViewFits'
<1> SUFFICES ASSUME ViewFits, [ViewNext]_<<viewVars, way>> PROVE ViewFits'
  OBVIOUS
<1>1. CASE UNCHANGED <<viewVars, way>>
  BY <1>1 DEF viewVars, ViewFits, Fields, AgentFits, NetFits, BrowserFits, Carried, Frames, Words, Requests, Pendings
<1>2. CASE ViewNext
  <2>1. Fields' /\ AgentFits' /\ NetFits' /\ BrowserFits' /\ way' = way /\ Frames \subseteq Frames'
    BY <1>2, Grows
  <2>2. PICK F, G : F = Frames /\ G = Frames'
    OBVIOUS
  <2>3. SyncSession => LoopFrame \in G
    BY <2>1, <2>2, SyncTypes
  <2>4. \A r \in Readers : ReplayCaptured(r) => CaptureFrame(r) \in G
    BY <2>1, <2>2, CapturedTypes
  <2>5. Carried(F) /\ F \subseteq G
    BY <2>1, <2>2 DEF ViewFits
  <2>6. \A f \in F : f.seq \in Int
    <3>1. agent.lastSeq \in Nat
      BY DEF ViewFits, AgentFits
    <3> QED BY <2>2, <3>1 DEF Frames
  <2>7. Carried(G)'
    BY <1>2, <2>3, <2>4, <2>5, <2>6, CarriedStep
  <2>8. Carried(Frames)'
    BY <2>2, <2>7 DEF Carried
  <2> QED BY <2>1, <2>8 DEF ViewFits
<1> QED BY <1>1, <1>2

LEMMA FitsTypes == ViewFits => ViewTypeOK
<1> SUFFICES ASSUME ViewFits PROVE ViewTypeOK
  OBVIOUS
<1>1. Fields /\ AgentFits /\ NetFits /\ BrowserFits
  BY DEF ViewFits
<1>2. pane \in [now : 1 .. MaxPane, redrawn : SUBSET (1 .. MaxPane)]
  BY <1>1 DEF Fields, AgentFits
<1>3. pending = NoPending \/ pending.after < pending.target
  BY <1>1 DEF BrowserFits, Pendings
<1> QED BY <1>1, <1>2, <1>3 DEF ViewTypeOK, AgentFits, NetFits, BrowserFits

-----------------------------------------------------------------------------
(***************************************************************************)
(* The contents.  While replays are steady each number stands for one      *)
(* content, c[number], whichever way its frame goes.                       *)
(***************************************************************************)
RightFrames(c) ==
  {f \in Frames : f.to = c[f.seq] /\ (f.mode = "append" => f.seq > 1 /\ f.from = c[f.seq - 1])}

ShowsRight(c) ==
  /\ Carried(RightFrames(c))
  /\ agent.rendered \in {0, c[agent.lastSeq]}
  /\ \/ view.seq = Unknown /\ view.content = 0
     \/ view.seq \in 1 .. agent.lastSeq /\ view.content = c[view.seq]

\* With a React that keeps up the browser shows the content of its number.
ShowsNumber == ~way.lags /\ way.steady => \E c \in [1 .. agent.lastSeq -> 1 .. pane.now] : ShowsRight(c)

LEMMA ShowsFirst == ViewInit => ShowsNumber
<1> SUFFICES ASSUME ViewInit PROVE \E c \in [1 .. agent.lastSeq -> 1 .. pane.now] : ShowsRight(c)
  BY DEF ShowsNumber
<1>1. /\ pane = [now |-> 1, redrawn |-> {1}]
      /\ agent = [rendered |-> 1, lastSeq |-> 1, cache |-> <<Frame(1, "replace", 0, 1)>>]
      /\ reader = [r \in Readers |-> [at |-> "idle", seq |-> 0, out |-> <<>>]]
      /\ net = [up |-> way.watching, link |-> TRUE, asked |-> <<>>, wire |-> <<>>]
  BY DEF ViewInit, Idle
<1>2. PICK c : c = [i \in 1 .. 1 |-> 1]
  OBVIOUS
<1>3. c \in [1 .. agent.lastSeq -> 1 .. pane.now] /\ c[1] = 1
  BY <1>1, <1>2
<1>4. (view.seq = Unknown /\ view.content = 0) \/ (view.seq = 1 /\ view.content = 1)
  BY DEF ViewInit
<1>5. PICK f \in RightFrames(c) : f = Frame(1, "replace", 0, 1)
  <2>1. Frame(1, "replace", 0, 1) \in Frames
    BY <1>1 DEF Frame, Frames
  <2>2. Frame(1, "replace", 0, 1).to = c[Frame(1, "replace", 0, 1).seq] /\ Frame(1, "replace", 0, 1).mode # "append"
    BY <1>3 DEF Frame
  <2> QED BY <2>1, <2>2 DEF RightFrames
<1>6. agent.cache = <<f>> /\ <<f>> \in Seq(RightFrames(c)) /\ <<>> \in Seq(RightFrames(c))
      /\ <<>> \in Seq(RightFrames(c) \cup Words)
  BY <1>1, <1>5
<1>7. \A r \in Readers : reader[r].out = <<>>
  BY <1>1
<1>8. Carried(RightFrames(c))
  BY <1>1, <1>6, <1>7 DEF Carried
<1>9. agent.rendered \in {0, c[agent.lastSeq]}
  BY <1>1, <1>3
<1>10. (view.seq = Unknown /\ view.content = 0) \/ (view.seq \in 1 .. agent.lastSeq /\ view.content = c[view.seq])
  BY <1>1, <1>3, <1>4
<1> QED BY <1>3, <1>8, <1>9, <1>10 DEF ShowsRight

\* What the browser shows after a frame.
LEMMA AcceptedRight ==
  ASSUME ViewFits, ~way.lags, NEW c \in [1 .. agent.lastSeq -> 1 .. pane.now], ShowsRight(c), Receive, UNCHANGED way
  PROVE  \/ view'.seq = Unknown /\ view'.content = 0
         \/ view'.seq \in 1 .. agent.lastSeq /\ view'.content = c[view'.seq]
<1>1. PICK m, n : m = Head(net.wire) /\ n = [net EXCEPT !.wire = Tail(@)]
  OBVIOUS
<1>2. net.wire # <<>>
  BY DEF Receive
<1>3. \/ view' = view
      \/ m.kind = "output" /\ Accepted(n, m) /\ ~(m.seq < ref \/ (m.seq = ref /\ m.mode # "replace")) /\ ~Missed(m)
  BY <1>1 DEF Receive, HandleOutput, HandleState, HandleList, HandleAuth
<1>4. CASE view' = view
  BY <1>4 DEF ShowsRight
<1>5. CASE m.kind = "output" /\ Accepted(n, m) /\ ~(m.seq < ref \/ (m.seq = ref /\ m.mode # "replace")) /\ ~Missed(m)
  <2>1. m \in RightFrames(c)
    <3>1. PICK S : S = RightFrames(c) \cup Words
      OBVIOUS
    <3>2. net.wire \in Seq(S)
      BY <3>1 DEF ShowsRight, Carried
    <3>3. m \in S
      BY <1>1, <1>2, <3>2, HeadTail
    <3>4. m.kind = "output"
      BY <1>5
    <3> QED BY <3>1, <3>3, <3>4 DEF Words
  <2>2. /\ m \in Frames /\ m.to = c[m.seq] /\ (m.mode = "append" => m.seq > 1 /\ m.from = c[m.seq - 1])
    BY <2>1 DEF RightFrames
  <2>3. m.seq \in 1 .. agent.lastSeq /\ m.mode \in {"append", "replace"}
    BY <2>2 DEF Frames
  <2>4. view' = [content |-> IF m.mode = "replace" \/ view.content = m.from THEN m.to ELSE Garbled, seq |-> m.seq]
    BY <1>5 DEF Accepted
  <2>5. m.mode = "append" => view.content = m.from
    <3> SUFFICES ASSUME m.mode = "append" PROVE view.content = m.from
      OBVIOUS
    <3>1. m.seq = ref + 1
      BY <1>5 DEF Missed
    <3>2. ref = view.seq /\ agent.lastSeq \in Nat /\ ref \in Unknown .. agent.lastSeq
      BY DEF ViewFits, BrowserFits, AgentFits
    <3>3. ref = m.seq - 1 /\ m.seq > 1
      BY <2>2, <2>3, <3>1, <3>2 DEF Unknown
    <3>4. view.content = c[view.seq]
      BY <2>3, <3>2, <3>3 DEF ShowsRight, Unknown
    <3> QED BY <2>2, <3>2, <3>3, <3>4
  <2>6. view'.seq = m.seq /\ view'.content = m.to
    BY <2>3, <2>4, <2>5
  <2> QED BY <2>2, <2>3, <2>6
<1> QED BY <1>3, <1>4, <1>5

LEMMA ShowsStep == ViewFits /\ ShowsNumber /\ [ViewNext]_<<viewVars, way>> => ShowsNumber'
<1> SUFFICES ASSUME ViewFits, ShowsNumber, [ViewNext]_<<viewVars, way>> PROVE ShowsNumber'
  OBVIOUS
<1>1. CASE UNCHANGED <<viewVars, way>>
  BY <1>1 DEF viewVars, ShowsNumber, ShowsRight, RightFrames, Carried, Frames, Words
<1>2. CASE ViewNext
  <2>1. /\ way' = way /\ Fields' /\ AgentFits' /\ NetFits' /\ BrowserFits' /\ Frames \subseteq Frames'
        /\ agent'.lastSeq \in Nat /\ pane'.now \in Nat /\ agent.lastSeq <= agent'.lastSeq /\ pane.now <= pane'.now
    BY <1>2, Grows
  <2>2. agent.lastSeq \in Nat \ {0} /\ pane.now \in 1 .. MaxPane /\ MaxPane \in Nat /\ pane.now \in Nat \ {0}
    BY ViewAssumption DEF ViewFits, AgentFits
  <2> SUFFICES ASSUME ~way.lags, way.steady
               PROVE  \E c \in [1 .. agent'.lastSeq -> 1 .. pane'.now] : ShowsRight(c)'
    BY <2>1 DEF ShowsNumber
  <2>3. PICK c \in [1 .. agent.lastSeq -> 1 .. pane.now] : ShowsRight(c)
    BY DEF ShowsNumber
  <2>4. PICK d : d = [i \in 1 .. agent'.lastSeq |-> IF i \in 1 .. agent.lastSeq THEN c[i] ELSE pane.now]
    OBVIOUS
  <2>5. /\ d \in [1 .. agent'.lastSeq -> 1 .. pane'.now]
        /\ \A i \in 1 .. agent.lastSeq : i \in 1 .. agent'.lastSeq /\ d[i] = c[i]
    BY <2>1, <2>2, <2>4
  <2>6. agent.rendered \in {0, c[agent.lastSeq]} /\ Carried(RightFrames(c))
        /\ ((view.seq = Unknown /\ view.content = 0) \/ (view.seq \in 1 .. agent.lastSeq /\ view.content = c[view.seq]))
    BY <2>3 DEF ShowsRight
  <2>7. RightFrames(c) \subseteq RightFrames(d)'
    <3> SUFFICES ASSUME NEW f \in RightFrames(c) PROVE f \in RightFrames(d)'
      OBVIOUS
    <3>1. f \in Frames /\ f.to = c[f.seq] /\ (f.mode = "append" => f.seq > 1 /\ f.from = c[f.seq - 1])
      BY DEF RightFrames
    <3>2. f.seq \in 1 .. agent.lastSeq /\ f \in Frames'
      BY <2>1, <3>1 DEF Frames
    <3>3. f.seq > 1 => f.seq - 1 \in 1 .. agent.lastSeq
      BY <2>2, <3>2
    <3> QED BY <2>5, <3>1, <3>2, <3>3 DEF RightFrames
  <2>8. SyncSession => LoopFrame \in RightFrames(d)' /\ d[agent'.lastSeq] = pane.now /\ agent'.rendered = pane.now
    <3> SUFFICES ASSUME SyncSession
                 PROVE  LoopFrame \in RightFrames(d)' /\ d[agent'.lastSeq] = pane.now /\ agent'.rendered = pane.now
      OBVIOUS
    <3>1. /\ agent' = [rendered |-> pane.now, lastSeq |-> agent.lastSeq + 1, cache |-> Push(LoopFrame)]
          /\ LoopFrame \in Frames'
      BY <2>1, SyncTypes
    <3>2. agent'.lastSeq = agent.lastSeq + 1 /\ agent'.rendered = pane.now
      BY <3>1
    <3>3. d[agent.lastSeq + 1] = pane.now /\ d[agent.lastSeq] = c[agent.lastSeq]
      BY <2>2, <2>4, <3>2
    <3>4. PICK f : f = LoopFrame
      OBVIOUS
    <3>5. f.seq = agent.lastSeq + 1 /\ f.to = pane.now /\ (f.mode = "append" => f.from = agent.rendered /\ agent.rendered # 0)
      BY <3>4 DEF LoopFrame, Frame
    <3>6. f.mode = "append" => f.from = d[agent.lastSeq]
      BY <2>6, <3>3, <3>5
    <3>7. f.seq - 1 = agent.lastSeq /\ f.seq > 1
      BY <2>2, <3>5
    <3> QED BY <3>1, <3>2, <3>3, <3>4, <3>5, <3>6, <3>7 DEF RightFrames
  <2>9. \A r \in Readers : ReplayCaptured(r) => CaptureFrame(r) \in RightFrames(d)'
    <3> SUFFICES ASSUME NEW r \in Readers, ReplayCaptured(r) PROVE CaptureFrame(r) \in RightFrames(d)'
      OBVIOUS
    <3>1. CaptureFrame(r) \in Frames /\ agent.rendered = pane.now
      BY <2>1, CapturedTypes
    <3>2. PICK f : f = CaptureFrame(r)
      OBVIOUS
    <3>3. f.seq = agent.lastSeq /\ f.mode = "replace" /\ f.to = pane.now
      BY <3>2 DEF CaptureFrame, Frame
    <3>4. c[agent.lastSeq] = pane.now /\ d[agent.lastSeq] = c[agent.lastSeq]
      BY <2>2, <2>5, <2>6, <3>1
    <3> QED BY <2>1, <3>1, <3>2, <3>3, <3>4 DEF RightFrames
  <2>10. Carried(RightFrames(d))'
    <3>1. PICK F, G : F = RightFrames(c) /\ G = RightFrames(d)'
      OBVIOUS
    <3>2. \A f \in F : f.seq \in Int
      BY <2>2, <3>1 DEF RightFrames, Frames
    <3>3. Carried(F) /\ F \subseteq G /\ (SyncSession => LoopFrame \in G)
          /\ (\A r \in Readers : ReplayCaptured(r) => CaptureFrame(r) \in G)
      BY <2>6, <2>7, <2>8, <2>9, <3>1
    <3>4. Carried(G)'
      BY <1>2, <3>2, <3>3, CarriedStep
    <3> QED BY <3>1, <3>4 DEF Carried
  <2>11. agent'.rendered \in {0, d[agent'.lastSeq]}
    <3>1. CASE SyncSession
      BY <2>8, <3>1
    <3>2. CASE agent'.rendered \in {0, agent.rendered} /\ agent'.lastSeq = agent.lastSeq
      BY <2>2, <2>5, <2>6, <3>2
    <3>3. SyncSession \/ (agent'.rendered \in {0, agent.rendered} /\ agent'.lastSeq = agent.lastSeq)
      <4>1. agent' = agent \/ SyncSession \/ LinkLost \/ \E r \in Readers : ReplayCaptured(r)
        BY <1>2 DEF ViewNext, Steps, PaneChanges, ListAnswered, ReplayBegin, ReplaySend, Receive, Render, Expire,
                    Connect, Drop, LinkBack, Look
      <4>2. LinkLost => agent'.rendered \in {0, agent.rendered} /\ agent'.lastSeq = agent.lastSeq
        BY <2>1, LostTypes
      <4>3. ASSUME NEW r \in Readers, ReplayCaptured(r)
            PROVE  agent'.rendered \in {0, agent.rendered} /\ agent'.lastSeq = agent.lastSeq
        <5>1. agent' = [rendered |-> agent.rendered, lastSeq |-> agent.lastSeq, cache |-> Push(CaptureFrame(r))]
          BY <2>1, <4>3, CapturedTypes
        <5> QED BY <5>1
      <4> QED BY <4>1, <4>2, <4>3
    <3> QED BY <3>1, <3>2, <3>3
  <2>12. \/ view'.seq = Unknown /\ view'.content = 0
         \/ view'.seq \in 1 .. agent'.lastSeq /\ view'.content = d[view'.seq]
    <3>1. CASE Receive
      <4>1. agent' = agent
        BY <3>1 DEF Receive
      <4> QED BY <2>1, <2>3, <2>5, <3>1, <4>1, AcceptedRight
    <3>2. CASE view' = view
      BY <2>5, <2>6, <3>2
    <3> QED BY <1>2, <3>1, <3>2 DEF ViewNext, Steps, PaneChanges, SyncSession, ListAnswered, ReplayBegin,
              ReplayCaptured, ReplaySend, Render, Expire, Connect, Drop, LinkLost, LinkBack, Look
  <2>13. ShowsRight(d)'
    BY <2>10, <2>11, <2>12 DEF ShowsRight
  <2> QED BY <2>5, <2>13
<1> QED BY <1>1, <1>2

LEMMA ShowsContent == ViewFits /\ ShowsNumber => (~way.lags /\ way.steady => ViewIsSnapshot)
<1> SUFFICES ASSUME ViewFits, ShowsNumber, ~way.lags, way.steady PROVE view.content # Garbled
  BY DEF ViewIsSnapshot
<1>1. PICK c \in [1 .. agent.lastSeq -> 1 .. pane.now] : ShowsRight(c)
  BY DEF ShowsNumber
<1>2. pane.now \in Nat
  BY ViewAssumption DEF ViewFits, AgentFits
<1>3. view.content \in Nat
  BY <1>1, <1>2 DEF ShowsRight
<1> QED BY <1>3, ViewAssumption

-----------------------------------------------------------------------------
(***************************************************************************)
(* The answers.  While React keeps up, replays are steady, the user is     *)
(* patient and the agent stays connected, a request that is held back has  *)
(* an answer coming that the browser will take.                            *)
(***************************************************************************)
Messages == Frames \cup Words

\* The frames in the cache are in order, up to the last number.
CacheInOrder ==
  /\ agent.cache # <<>> /\ agent.cache[Len(agent.cache)].seq = agent.lastSeq
  /\ \A i \in 1 .. Len(agent.cache) - 1 :
       agent.cache[i].seq <= agent.cache[i + 1].seq /\ agent.cache[i + 1].seq <= agent.cache[i].seq + 1

\* Frames S on the wire that a browser with the number `after' finds no gap before: each is
\* a snapshot, or leaves out no number after that one or after another of S before it.
Supported(wire, S, after) ==
  \A k \in S : /\ wire[k].kind = "output"
               /\ \/ wire[k].mode = "replace" \/ wire[k].seq <= after + 1
                  \/ \E j \in S : j < k /\ wire[k].seq <= wire[j].seq + 1
Follows(frame, wire, S, after) ==
  \/ frame.mode = "replace" \/ frame.seq <= after + 1
  \/ \E j \in S : frame.seq <= wire[j].seq + 1
Ends(out, target) ==
  /\ out # <<>> /\ out[Len(out)].seq >= target
  /\ \A i \in 1 .. Len(out) - 1 : GoesOn(out[i + 1], out[i])

\* An answer that brings the target and that the browser will take.
ReplayAsked == \E i \in 1 .. Len(net.asked) : net.asked[i].kind = "replay"
Coming(target) ==
  \/ ReplayAsked
  \/ \E r \in Readers : reader[r].at = "capture" /\ reader[r].seq >= target
  \/ \E S \in SUBSET (1 .. Len(net.wire)) :
       /\ Supported(net.wire, S, ref)
       /\ \/ \E k \in S : net.wire[k].seq >= target
          \/ \E r \in Readers : /\ Ends(reader[r].out, target)
                                /\ Follows(reader[r].out[1], net.wire, S, ref)

\* A list or a frame will tell the browser of the last number, or a replay bring it.
Telling == {"output", "list"}
ListAsked == \E i \in 1 .. Len(net.asked) : net.asked[i].kind = "list"
NewsComes ==
  \/ ListAsked
  \/ \E i \in 1 .. Len(net.wire) : net.wire[i].kind \in Telling /\ net.wire[i].seq = agent.lastSeq
  \/ Coming(agent.lastSeq)

Behind == net.up /\ ref < agent.lastSeq
HeldBack == net.up /\ pending # NoPending /\ pending.recent /\ pending.after = ref
AskedBehind == \A i \in 1 .. Len(net.asked) : net.asked[i].kind = "replay" => net.asked[i].seq <= ref

Answers ==
  /\ net.link /\ CacheInOrder /\ AskedBehind
  /\ pending # NoPending => pending.after <= ref
  /\ HeldBack => Coming(pending.target)
  /\ Behind => NewsComes
  /\ agent.rendered # 0

AnswerInv == Calm => Answers

\* More messages behind them, or the first of all messages taken, change nothing for S.
LEMMA LineGrows ==
  ASSUME NEW M, NEW wire \in Seq(M), NEW more \in Seq(M), NEW S \in SUBSET (1 .. Len(wire)), NEW after \in Int,
         Supported(wire, S, after)
  PROVE  /\ S \in SUBSET (1 .. Len(wire \o more)) /\ Supported(wire \o more, S, after)
         /\ \A k \in S : (wire \o more)[k] = wire[k]
         /\ \A frame : Follows(frame, wire, S, after) => Follows(frame, wire \o more, S, after)
<1>0. wire \o more \in Seq(M)
  OBVIOUS
<1>1. PICK all \in Seq(M) : all = wire \o more
  BY <1>0
<1>2. Len(all) = Len(wire) + Len(more) /\ \A k \in 1 .. Len(wire) : all[k] = wire[k]
  BY <1>1
<1>3. S \in SUBSET (1 .. Len(all)) /\ \A k \in S : all[k] = wire[k]
  BY <1>2
<1>4. Supported(all, S, after)
  BY <1>3 DEF Supported
<1>5. \A frame : Follows(frame, wire, S, after) => Follows(frame, all, S, after)
  BY <1>3 DEF Follows
<1> QED BY <1>1, <1>3, <1>4, <1>5

LEMMA LineShifts ==
  ASSUME NEW M, \A m \in M : m.seq \in Int, NEW wire \in Seq(M), wire # <<>>, NEW after \in Int,
         NEW S \in SUBSET (1 .. Len(wire)), Supported(wire, S, after), 1 \in S => wire[1].seq <= after
  PROVE  \E T \in SUBSET (1 .. Len(Tail(wire))) :
           /\ Supported(Tail(wire), T, after)
           /\ \A k \in S \ {1} : k - 1 \in T /\ Tail(wire)[k - 1] = wire[k]
           /\ \A frame : frame.seq \in Int /\ Follows(frame, wire, S, after) => Follows(frame, Tail(wire), T, after)
<1>1. PICK rest \in Seq(M) : rest = Tail(wire)
  BY HeadTail
<1>2. PICK n \in Nat : n = Len(rest) /\ Len(wire) = n + 1 /\ \A i \in 1 .. n : rest[i] = wire[i + 1]
  <2>1. /\ Len(wire) \in Nat \ {0} /\ Len(Tail(wire)) = Len(wire) - 1
        /\ \A i \in 1 .. Len(wire) - 1 : Tail(wire)[i] = wire[i + 1]
    BY HeadTail
  <2>2. PICK n : n = Len(rest)
    OBVIOUS
  <2>3. n \in Nat /\ Len(wire) = n + 1
    BY <1>1, <2>1, <2>2
  <2>4. \A i \in 1 .. n : rest[i] = wire[i + 1]
    BY <1>1, <2>1, <2>3
  <2> QED BY <2>2, <2>3, <2>4
<1>3. \A k \in 1 .. n + 1 : wire[k].seq \in Int
  BY <1>2
<1>4. PICK T : T = {k \in 1 .. n : k + 1 \in S}
  OBVIOUS
<1>5. \A k \in S \ {1} : k - 1 \in T /\ rest[k - 1] = wire[k]
  <2> TAKE k \in S \ {1}
  <2>1. k \in 1 .. n + 1 /\ k # 1
    BY <1>2
  <2>2. k - 1 \in 1 .. n /\ (k - 1) + 1 = k
    BY <2>1
  <2> QED BY <1>2, <1>4, <2>2
<1>6. ASSUME NEW s \in Int, NEW j \in S, s <= wire[j].seq + 1
      PROVE  s <= after + 1 \/ (j # 1 /\ s <= rest[j - 1].seq + 1)
  <2>1. CASE j = 1
    BY <1>2, <1>3, <1>6, <2>1
  <2>2. CASE j # 1
    BY <1>5, <1>6, <2>2
  <2> QED BY <2>1, <2>2
<1>7. Supported(rest, T, after)
  <2> SUFFICES ASSUME NEW k \in T
               PROVE  /\ rest[k].kind = "output"
                      /\ \/ rest[k].mode = "replace" \/ rest[k].seq <= after + 1
                         \/ \E j \in T : j < k /\ rest[k].seq <= rest[j].seq + 1
    BY DEF Supported
  <2>1. k \in 1 .. n /\ k + 1 \in S /\ rest[k] = wire[k + 1]
    BY <1>2, <1>4
  <2>2. rest[k].seq \in Int
    BY <1>2, <1>3, <2>1
  <2>3. /\ rest[k].kind = "output"
        /\ \/ rest[k].mode = "replace" \/ rest[k].seq <= after + 1
           \/ \E j \in S : j < k + 1 /\ rest[k].seq <= wire[j].seq + 1
    BY <2>1 DEF Supported
  <2>4. ASSUME NEW j \in S, j < k + 1, rest[k].seq <= wire[j].seq + 1
        PROVE  rest[k].seq <= after + 1 \/ \E i \in T : i < k /\ rest[k].seq <= rest[i].seq + 1
    <3>1. CASE rest[k].seq <= after + 1
      BY <3>1
    <3>2. CASE j # 1 /\ rest[k].seq <= rest[j - 1].seq + 1
      <4>1. j - 1 \in T
        BY <1>5, <3>2
      <4>2. j \in Int /\ j - 1 < k
        BY <1>2, <2>1, <2>4
      <4> QED BY <3>2, <4>1, <4>2
    <3> QED BY <1>6, <2>2, <2>4, <3>1, <3>2
  <2> QED BY <2>3, <2>4
<1>8. ASSUME NEW frame, frame.seq \in Int, Follows(frame, wire, S, after) PROVE Follows(frame, rest, T, after)
  <2>1. CASE frame.mode = "replace" \/ frame.seq <= after + 1
    BY <2>1 DEF Follows
  <2>2. ASSUME NEW j \in S, frame.seq <= wire[j].seq + 1 PROVE Follows(frame, rest, T, after)
    <3>1. frame.seq <= after + 1 \/ (j # 1 /\ frame.seq <= rest[j - 1].seq + 1)
      BY <1>6, <1>8, <2>2
    <3>2. j # 1 => j - 1 \in T
      BY <1>5
    <3> QED BY <3>1, <3>2 DEF Follows
  <2> QED BY <1>8, <2>1, <2>2 DEF Follows
<1>9. T \in SUBSET (1 .. Len(rest))
  BY <1>2, <1>4
<1> QED BY <1>1, <1>5, <1>7, <1>8, <1>9

\* What is known of the messages, the replays and the request that is held back.
LEMMA AnswerFacts ==
  ASSUME ViewFits
  PROVE  /\ net.wire \in Seq(Messages) /\ \A m \in Messages : m.seq \in Int
         /\ \A r \in Readers : reader[r].out \in Seq(Frames)
         /\ \A f \in Frames : f.seq \in Int /\ f.seq <= agent.lastSeq /\ f.kind = "output" /\ f \in Messages
         /\ ref \in Int /\ agent.lastSeq \in Nat \ {0}
         /\ pending # NoPending => /\ pending.after \in Int /\ pending.target \in Int /\ pending.recent \in BOOLEAN
                                   /\ pending.after < pending.target /\ pending.target <= agent.lastSeq
<1>1. agent.lastSeq \in Nat \ {0} /\ BrowserFits /\ Carried(Frames)
  BY DEF ViewFits, AgentFits
<1>2. \A f \in Frames : f.seq \in Int /\ f.seq <= agent.lastSeq /\ f.kind = "output" /\ f \in Messages
  BY <1>1 DEF Frames, Messages
<1>3. \A m \in Messages : m.seq \in Int
  BY <1>1 DEF Frames, Words, Messages
<1>4. net.wire \in Seq(Messages) /\ \A r \in Readers : reader[r].out \in Seq(Frames)
  BY <1>1 DEF Carried, Messages
<1>5. ref \in Int
  BY <1>1 DEF BrowserFits, Unknown
<1>6. pending # NoPending => /\ pending.after \in Int /\ pending.target \in Int /\ pending.recent \in BOOLEAN
                             /\ pending.after < pending.target /\ pending.target <= agent.lastSeq
  BY <1>1 DEF BrowserFits, Pendings
<1> QED BY <1>1, <1>2, <1>3, <1>4, <1>5, <1>6

\* An answer is still coming when messages are only added ...
LEMMA AnswerKept ==
  ASSUME ViewFits, NEW target \in Int, Coming(target), ref' = ref, ReplayAsked => ReplayAsked',
         NEW M, Messages \subseteq M, NEW more \in Seq(M), net'.wire = net.wire \o more,
         \A r \in Readers : /\ reader'[r].at = reader[r].at /\ reader'[r].seq = reader[r].seq
                            /\ reader'[r].out = reader[r].out
  PROVE  Coming(target)'
<1>1. CASE ReplayAsked
  BY <1>1 DEF Coming
<1>2. CASE \E r \in Readers : reader[r].at = "capture" /\ reader[r].seq >= target
  BY <1>2 DEF Coming
<1>3. ASSUME NEW S \in SUBSET (1 .. Len(net.wire)), Supported(net.wire, S, ref),
             \/ \E k \in S : net.wire[k].seq >= target
             \/ \E r \in Readers : /\ Ends(reader[r].out, target)
                                   /\ Follows(reader[r].out[1], net.wire, S, ref)
      PROVE  Coming(target)'
  <2>1. PICK wire \in Seq(M) : wire = net.wire
    BY AnswerFacts, MoreSeqs
  <2>2. PICK all : all = wire \o more
    OBVIOUS
  <2>3. /\ S \in SUBSET (1 .. Len(all)) /\ Supported(all, S, ref)
        /\ \A k \in S : all[k] = wire[k]
        /\ \A frame : Follows(frame, wire, S, ref) => Follows(frame, all, S, ref)
    <3>1. ref \in Int
      BY AnswerFacts
    <3>2. PICK after \in Int : after = ref
      BY <3>1
    <3> QED BY <1>3, <2>1, <2>2, <3>2, LineGrows
  <2>4. net'.wire = all
    BY <2>1, <2>2
  <2>5. \/ \E k \in S : all[k].seq >= target
        \/ \E r \in Readers : /\ Ends(reader'[r].out, target)
                              /\ Follows(reader'[r].out[1], all, S, ref)
    BY <1>3, <2>1, <2>3
  <2> QED BY <2>3, <2>4, <2>5 DEF Coming
<1> QED BY <1>1, <1>2, <1>3 DEF Coming

\* A greater number finds no gap where a smaller one finds none.
LEMMA LineNearer ==
  ASSUME NEW M, \A m \in M : m.seq \in Int, NEW wire \in Seq(M), NEW S \in SUBSET (1 .. Len(wire)),
         NEW before \in Int, NEW after \in Int, before <= after, Supported(wire, S, before)
  PROVE  /\ Supported(wire, S, after)
         /\ \A frame : frame.seq \in Int /\ Follows(frame, wire, S, before) => Follows(frame, wire, S, after)
<1>1. \A k \in S : wire[k].seq \in Int
  OBVIOUS
<1>2. \A s \in Int : s <= before + 1 => s <= after + 1
  OBVIOUS
<1>3. Supported(wire, S, after)
  BY <1>1, <1>2 DEF Supported
<1>4. \A frame : frame.seq \in Int /\ Follows(frame, wire, S, before) => Follows(frame, wire, S, after)
  BY <1>2 DEF Follows
<1> QED BY <1>3, <1>4

\* ... or the first is taken that was none of them, or brings less than the target.
LEMMA AnswerShifts ==
  ASSUME ViewFits, NEW target \in Int, Coming(target), ref' \in Int, ref <= ref', ref' < target,
         ReplayAsked => ReplayAsked',
         net.wire # <<>>, net'.wire = Tail(net.wire), UNCHANGED reader,
         \/ Head(net.wire).kind # "output" \/ Head(net.wire).seq <= ref'
         \/ Head(net.wire).mode # "replace" /\ ~(Head(net.wire).seq <= ref + 1)
  PROVE  Coming(target)'
<1>1. CASE ReplayAsked
  BY <1>1 DEF Coming
<1>2. CASE \E r \in Readers : reader[r].at = "capture" /\ reader[r].seq >= target
  BY <1>2 DEF Coming
<1>3. ASSUME NEW S \in SUBSET (1 .. Len(net.wire)), Supported(net.wire, S, ref),
             \/ \E k \in S : net.wire[k].seq >= target
             \/ \E r \in Readers : /\ Ends(reader[r].out, target)
                                   /\ Follows(reader[r].out[1], net.wire, S, ref)
      PROVE  Coming(target)'
  <2>1. PICK M, wire, before, after : M = Messages /\ wire = net.wire /\ before = ref /\ after = ref'
    OBVIOUS
  <2>2. /\ wire \in Seq(M) /\ wire # <<>> /\ \A m \in M : m.seq \in Int
        /\ before \in Int /\ after \in Int /\ before <= after /\ after < target
    BY <2>1, AnswerFacts
  <2>3. wire[1] = Head(net.wire) /\ wire[1].seq \in Int
    <3>1. Head(wire) = wire[1] /\ Head(wire) \in M
      BY <2>2, HeadTail
    <3> QED BY <2>1, <2>2, <3>1
  <2>4. 1 \in S => wire[1].seq <= after
    <3> SUFFICES ASSUME 1 \in S PROVE wire[1].seq <= after
      OBVIOUS
    <3>1. /\ wire[1].kind = "output"
          /\ \/ wire[1].mode = "replace" \/ wire[1].seq <= before + 1
             \/ \E j \in S : j < 1 /\ wire[1].seq <= wire[j].seq + 1
      BY <1>3, <2>1 DEF Supported
    <3>2. \A j \in S : ~(j < 1)
      OBVIOUS
    <3> QED BY <2>1, <2>3, <3>1, <3>2
  <2>5. /\ Supported(wire, S, after)
        /\ \A frame : frame.seq \in Int /\ Follows(frame, wire, S, before) => Follows(frame, wire, S, after)
    BY <1>3, <2>1, <2>2, LineNearer
  <2>6. PICK T \in SUBSET (1 .. Len(Tail(wire))) :
           /\ Supported(Tail(wire), T, after)
           /\ \A k \in S \ {1} : k - 1 \in T /\ Tail(wire)[k - 1] = wire[k]
           /\ \A frame : frame.seq \in Int /\ Follows(frame, wire, S, after) => Follows(frame, Tail(wire), T, after)
    BY <1>3, <2>1, <2>2, <2>4, <2>5, LineShifts
  <2>7. PICK rest : rest = Tail(wire)
    OBVIOUS
  <2>8. \/ \E k \in T : rest[k].seq >= target
        \/ \E r \in Readers : /\ Ends(reader[r].out, target)
                              /\ Follows(reader[r].out[1], rest, T, after)
    <3>1. ASSUME NEW k \in S, wire[k].seq >= target PROVE \E i \in T : rest[i].seq >= target
      <4>1. k # 1
        BY <2>2, <2>3, <2>4, <3>1
      <4> QED BY <2>6, <2>7, <3>1, <4>1
    <3>2. ASSUME NEW r \in Readers, Ends(reader[r].out, target), Follows(reader[r].out[1], wire, S, before)
          PROVE  Follows(reader[r].out[1], rest, T, after)
      <4>1. PICK out \in Seq(Frames) : out = reader[r].out
        BY AnswerFacts
      <4>2. out # <<>>
        BY <3>2, <4>1 DEF Ends
      <4>3. out[1] \in Frames
        BY <4>2
      <4>4. out[1].seq \in Int
        BY <4>3, AnswerFacts
      <4> QED BY <2>5, <2>6, <2>7, <3>2, <4>1, <4>4
    <3> QED BY <1>3, <2>1, <3>1, <3>2
  <2>9. net'.wire = rest
    BY <2>1, <2>7
  <2> QED BY <2>1, <2>6, <2>7, <2>8, <2>9 DEF Coming
<1> QED BY <1>1, <1>2, <1>3 DEF Coming

\* The requests that are made on the connection n, and what replayRequestRef becomes.
Asks(n) ==
  \E requests \in Seq(Requests) :
    /\ net' = Asked(n, requests)
    /\ \A i \in 1 .. Len(requests) : requests[i].kind = "replay" => requests[i].seq = ref
    /\ \/ pending' = pending
       \/ pending' = NoPending
       \/ pending'.after = ref /\ \E i \in 1 .. Len(requests) : requests[i].kind = "replay"

LEMMA RequestRight ==
  ASSUME ViewFits, NEW target \in Unknown .. agent.lastSeq, NEW q, q = RequestReplayForTarget(target)
  PROVE  /\ q = [pending |-> q.pending, requests |-> q.requests]
         /\ \/ q.requests = <<>> /\ q.pending \in {pending, NoPending}
            \/ q.requests = <<Word("replay", ref)>> /\ q.pending.after = ref
BY DEF RequestReplayForTarget

\* Two messages in a row.
LEMMA TwoOfThem ==
  ASSUME NEW S, NEW a \in S, NEW b \in S PROVE <<a>> \o <<b>> = <<a, b>>
<1>1. /\ <<a>> \in Seq(S) /\ Len(<<a>>) = 1 /\ <<a>>[1] = a
      /\ <<b>> \in Seq(S) /\ Len(<<b>>) = 1 /\ <<b>>[1] = b
      /\ <<a, b>> \in Seq(S) /\ Len(<<a, b>>) = 2 /\ <<a, b>>[1] = a /\ <<a, b>>[2] = b
  OBVIOUS
<1>2. PICK s, t, two : s = <<a>> /\ t = <<b>> /\ two = <<a, b>>
  OBVIOUS
<1>3. /\ s \o t \in Seq(S) /\ Len(s \o t) = Len(s) + Len(t)
      /\ \A i \in 1 .. Len(s) + Len(t) : (s \o t)[i] = IF i <= Len(s) THEN s[i] ELSE t[i - Len(s)]
  <2>1. s \in Seq(S) /\ t \in Seq(S)
    BY <1>1, <1>2
  <2> QED BY <2>1, ConcatProperties
<1>4. Len(s) = 1 /\ Len(t) = 1 /\ s[1] = a /\ t[1] = b /\ two \in Seq(S) /\ Len(two) = 2 /\ two[1] = a /\ two[2] = b
  BY <1>1, <1>2
<1>5. \A i \in 1 .. Len(s \o t) : (s \o t)[i] = two[i]
  <2>1. \A i \in 1 .. 2 : i = 1 \/ i = 2
    OBVIOUS
  <2> QED BY <1>3, <1>4, <2>1
<1>6. Len(s \o t) = Len(two)
  BY <1>3, <1>4
<1>7. s \o t = two
  BY <1>3, <1>4, <1>5, <1>6, SeqEqual, Zenon
<1> QED BY <1>2, <1>7

LEMMA MakeAsks ==
  ASSUME ViewFits, NEW n, NEW r, NEW target \in Unknown .. agent.lastSeq, Make(n, r),
         \/ r = RequestReplayForTarget(target) \/ r = RequestMissing
         \/ r = [pending |-> pending, requests |-> <<Word("list", 0)>>]
  PROVE  Asks(n)
<1>1. ref \in Unknown .. agent.lastSeq /\ page.known \in Unknown .. agent.lastSeq /\ agent.lastSeq \in Nat
  BY DEF ViewFits, BrowserFits, AgentFits
<1>2. PICK list, replay : list = Word("list", 0) /\ replay = Word("replay", ref)
  OBVIOUS
<1>3. list \in Requests /\ list.kind = "list" /\ replay \in Requests /\ replay.kind = "replay" /\ replay.seq = ref
  BY <1>1, <1>2 DEF Word, Requests, Unknown
<1>4. net' = Asked(n, r.requests) /\ pending' = r.pending
  BY DEF Make
<1>5. /\ <<>> \in Seq(Requests) /\ <<list>> \in Seq(Requests) /\ <<replay>> \in Seq(Requests)
      /\ <<list, replay>> \in Seq(Requests)
  BY <1>3
<1>6. SUFFICES /\ r.requests \in {<<>>, <<list>>} => pending' \in {pending, NoPending}
               /\ r.requests \in {<<replay>>, <<list, replay>>} => pending' = pending \/ pending'.after = ref
               /\ r.requests \in {<<>>, <<list>>, <<replay>>, <<list, replay>>}
  <2>1. /\ Len(<<>>) = 0 /\ Len(<<list>>) = 1 /\ Len(<<replay>>) = 1 /\ Len(<<list, replay>>) = 2
        /\ <<list>>[1] = list /\ <<replay>>[1] = replay /\ <<list, replay>>[1] = list /\ <<list, replay>>[2] = replay
    OBVIOUS
  <2>2. 1 .. 0 = {} /\ 1 .. 1 = {1} /\ 1 .. 2 = {1, 2}
    OBVIOUS
  <2>3. \A s \in {<<>>, <<list>>, <<replay>>, <<list, replay>>} :
          \A i \in 1 .. Len(s) : s[i].kind = "replay" => s[i].seq = ref
    BY <1>3, <2>1, <2>2
  <2>4. \A s \in {<<replay>>, <<list, replay>>} : \E i \in 1 .. Len(s) : s[i].kind = "replay"
    BY <1>3, <2>1, <2>2
  <2> QED BY <1>4, <1>5, <2>3, <2>4 DEF Asks
<1>7. ASSUME NEW t \in Unknown .. agent.lastSeq, NEW q, q = RequestReplayForTarget(t)
      PROVE  /\ q.requests \in {<<>>, <<replay>>} /\ q = [pending |-> q.pending, requests |-> q.requests]
             /\ q.requests = <<>> => q.pending \in {pending, NoPending}
             /\ q.requests = <<replay>> => q.pending = pending \/ q.pending.after = ref
  <2>1. <<replay>> # <<>>
    OBVIOUS
  <2> QED BY <1>2, <1>7, <2>1, RequestRight
<1>8. <<>> # <<list>> /\ <<>> # <<replay>> /\ <<>> # <<list, replay>> /\ <<list>> # <<replay>> /\ <<list>> # <<list, replay>>
  BY <1>3
<1>9. CASE r = RequestReplayForTarget(target)
  BY <1>4, <1>7, <1>8, <1>9
<1>10. CASE r = [pending |-> pending, requests |-> <<Word("list", 0)>>]
  BY <1>2, <1>4, <1>8, <1>10
<1>11. CASE r = RequestMissing /\ page.known = Unknown
  <2>1. r = [pending |-> pending, requests |-> <<list, replay>>]
    BY <1>2, <1>11 DEF RequestMissing
  <2> QED BY <1>4, <1>8, <2>1
<1>12. CASE r = RequestMissing /\ page.known # Unknown
  <2>1. PICK q : q = RequestReplayForTarget(page.known)
    OBVIOUS
  <2>2. r = [q EXCEPT !.requests = <<list>> \o @]
    BY <1>2, <1>12, <2>1 DEF RequestMissing
  <2>3. r.pending = q.pending /\ r.requests = <<list>> \o q.requests
    BY <1>1, <1>7, <2>1, <2>2
  <2>4. <<list>> \o <<>> = <<list>> /\ <<list>> \o <<replay>> = <<list, replay>>
    BY <1>3, <1>5, TwoOfThem, ConcatEmptySeq
  <2>5. CASE q.requests = <<>>
    BY <1>1, <1>4, <1>7, <1>8, <2>1, <2>3, <2>4, <2>5
  <2>6. CASE q.requests = <<replay>>
    BY <1>1, <1>4, <1>7, <1>8, <2>1, <2>3, <2>4, <2>6
  <2> QED BY <1>1, <1>7, <2>1, <2>5, <2>6
<1> QED BY <1>9, <1>10, <1>11, <1>12

\* What is asked then, on a connection that stands.
LEMMA AsksGive ==
  ASSUME ViewFits, NEW n, n = [up |-> n.up, link |-> n.link, asked |-> n.asked, wire |-> n.wire],
         n.up, n.link, n.asked = net.asked, Asks(n)
  PROVE  /\ AskedBehind => \A i \in 1 .. Len(net'.asked) : net'.asked[i].kind = "replay" => net'.asked[i].seq <= ref
         /\ ReplayAsked => ReplayAsked'
         /\ ListAsked => ListAsked'
         /\ \/ pending' = pending
            \/ pending' = NoPending
            \/ pending'.after = ref /\ ReplayAsked'
<1>1. PICK requests \in Seq(Requests) :
        /\ net' = Asked(n, requests)
        /\ \A i \in 1 .. Len(requests) : requests[i].kind = "replay" => requests[i].seq = ref
        /\ \/ pending' = pending
           \/ pending' = NoPending
           \/ pending'.after = ref /\ \E i \in 1 .. Len(requests) : requests[i].kind = "replay"
  BY DEF Asks
<1>2. PICK asked \in Seq(Requests) : asked = net.asked
  BY DEF ViewFits, NetFits
<1>3. net'.asked = asked \o requests
  <2>1. Asked(n, requests).asked = n.asked \o requests
    BY AskedFits
  <2> QED BY <1>1, <1>2, <2>1
<1>4. PICK k, l : k = Len(asked) /\ l = Len(requests)
  OBVIOUS
<1>5. k \in Nat /\ l \in Nat
  BY <1>4
<1>6. /\ Len(asked \o requests) = k + l
      /\ \A i \in 1 .. k : (asked \o requests)[i] = asked[i]
      /\ \A i \in 1 .. l : (asked \o requests)[k + i] = requests[i]
  BY <1>4
<1>7. PICK all : all = net'.asked
  OBVIOUS
<1>8. /\ Len(all) = k + l
      /\ \A i \in 1 .. k : i \in 1 .. k + l /\ all[i] = asked[i]
      /\ \A i \in 1 .. l : k + i \in 1 .. k + l /\ all[k + i] = requests[i]
      /\ \A i \in 1 .. k + l : i \in 1 .. k \/ (i - k \in 1 .. l /\ k + (i - k) = i)
  BY <1>3, <1>5, <1>6, <1>7
<1>9. ref \in Int
  BY AnswerFacts
<1>10. AskedBehind => \A i \in 1 .. k + l : all[i].kind = "replay" => all[i].seq <= ref
  <2> SUFFICES ASSUME AskedBehind, NEW i \in 1 .. k + l, all[i].kind = "replay" PROVE all[i].seq <= ref
    OBVIOUS
  <2>1. CASE i \in 1 .. k
    BY <1>2, <1>4, <1>8, <2>1 DEF AskedBehind
  <2>2. CASE i - k \in 1 .. l /\ k + (i - k) = i
    <3>1. all[i] = requests[i - k]
      BY <1>8, <2>2
    <3> QED BY <1>1, <1>4, <1>9, <2>2, <3>1
  <2> QED BY <1>8, <2>1, <2>2
<1>11. ReplayAsked => \E i \in 1 .. k + l : all[i].kind = "replay"
  BY <1>2, <1>4, <1>8 DEF ReplayAsked
<1>14. ListAsked => ListAsked'
  BY <1>2, <1>4, <1>7, <1>8 DEF ListAsked
<1>12. (\E i \in 1 .. l : requests[i].kind = "replay") => \E i \in 1 .. k + l : all[i].kind = "replay"
  BY <1>8
<1>13. (\E i \in 1 .. k + l : all[i].kind = "replay") => ReplayAsked'
  BY <1>7, <1>8 DEF ReplayAsked
<1> QED BY <1>1, <1>4, <1>7, <1>8, <1>10, <1>11, <1>12, <1>13, <1>14

\* A message that arrives.
LEMMA ArrivalAsks ==
  ASSUME ViewFits, ~way.lags, Receive, NEW m, m = Head(net.wire), NEW n, n = [net EXCEPT !.wire = Tail(@)]
  PROVE  \/ /\ Asks(n) /\ ref' = ref
            /\ m.kind # "output" \/ m.seq <= ref \/ (m.mode # "replace" /\ ~(m.seq <= ref + 1))
         \/ /\ net' = n /\ ref' = m.seq /\ ref <= m.seq
            /\ \/ pending' = NoPending
               \/ pending' = pending /\ m.seq < pending.target
<1>1. net.wire # <<>>
  BY DEF Receive
<1>2. m.seq \in 0 .. agent.lastSeq /\ (m.kind = "output" => m \in Frames)
  BY <1>1, MessageFits
<1>3. /\ ref \in Int /\ agent.lastSeq \in Nat /\ m.seq \in Int /\ m.seq \in Unknown .. agent.lastSeq
      /\ pending # NoPending => pending.target \in Int
  BY <1>2, AnswerFacts DEF Unknown
<1>4. /\ n = [up |-> n.up, link |-> n.link, asked |-> n.asked, wire |-> n.wire] /\ n.asked \in Seq(Requests)
  BY DEF ViewFits, Fields, NetFits
<1>5. MakeNone(n) => Asks(n)
  <2> SUFFICES ASSUME MakeNone(n) PROVE Asks(n)
    OBVIOUS
  <2>1. Asked(n, <<>>) = n
    BY <1>4, AskedNone
  <2>2. <<>> \in Seq(Requests) /\ 1 .. Len(<<>>) = {}
    OBVIOUS
  <2> QED BY <2>1, <2>2 DEF Asks, MakeNone
<1>6. \A r : Make(n, r) /\ r = RequestReplayForTarget(m.seq) => Asks(n)
  BY <1>3, MakeAsks
<1>7. CASE m.kind = "output" /\ HandleOutput(n, m)
  <2>1. CASE (m.seq < ref \/ (m.seq = ref /\ m.mode # "replace")) /\ MakeNone(n) /\ UNCHANGED <<view, ref, page>>
    BY <1>3, <1>5, <2>1
  <2>2. CASE /\ ~(m.seq < ref \/ (m.seq = ref /\ m.mode # "replace")) /\ Missed(m)
             /\ Make(n, RequestReplayForTarget(m.seq)) /\ UNCHANGED <<view, ref, page>>
    <3>1. m.mode = "append" /\ m.seq # ref + 1 /\ ~(m.seq < ref) /\ m.seq # ref
      BY <2>2 DEF Missed
    <3>2. m.mode # "replace" /\ ~(m.seq <= ref + 1)
      BY <1>3, <3>1
    <3> QED BY <1>6, <2>2, <3>2
  <2>3. CASE ~(m.seq < ref \/ (m.seq = ref /\ m.mode # "replace")) /\ Accepted(n, m)
    <3>1. net' = n /\ ref' = m.seq
      BY <2>3 DEF Accepted
    <3>2. ref <= m.seq
      BY <1>3, <2>3
    <3>3. pending' = IF pending # NoPending /\ m.seq >= pending.target THEN NoPending ELSE pending
      BY <2>3 DEF Accepted
    <3>4. CASE pending = NoPending
      BY <3>1, <3>2, <3>3, <3>4
    <3>5. CASE pending # NoPending
      BY <1>3, <3>1, <3>2, <3>3, <3>5
    <3> QED BY <3>4, <3>5
  <2> QED BY <1>7, <2>1, <2>2, <2>3 DEF HandleOutput
<1>8. CASE m.kind = "state" /\ HandleState(n, m)
  BY <1>5, <1>6, <1>8 DEF HandleState
<1>9. CASE m.kind = "list" /\ HandleList(n, m)
  <2>1. CASE Make(n, RequestReplayForTarget(m.seq))
    BY <1>6, <1>9, <2>1 DEF HandleList
  <2>2. CASE /\ net' = Asked(n, <<Word("replay", ref)>>)
             /\ pending' = [after |-> ref, target |-> m.seq, recent |-> TRUE]
    <3>1. PICK replay : replay = Word("replay", ref)
      OBVIOUS
    <3>2. replay \in Requests /\ replay.kind = "replay" /\ replay.seq = ref
      <4>1. ref \in Unknown .. agent.lastSeq
        BY DEF ViewFits, BrowserFits
      <4> QED BY <3>1, <4>1 DEF Word, Requests
    <3>3. <<replay>> \in Seq(Requests) /\ Len(<<replay>>) = 1 /\ <<replay>>[1] = replay /\ 1 .. 1 = {1}
      BY <3>2
    <3>4. pending'.after = ref
      BY <2>2
    <3>5. Asks(n)
      BY <2>2, <3>1, <3>2, <3>3, <3>4 DEF Asks
    <3> QED BY <1>9, <3>5 DEF HandleList
  <2> QED BY <1>9, <2>1, <2>2 DEF HandleList
<1>10. CASE m.kind = "auth" /\ HandleAuth(n)
  <2>1. PICK r : Make(n, r) /\ (r = RequestMissing \/ r = [pending |-> pending, requests |-> <<Word("list", 0)>>])
    BY <1>10 DEF HandleAuth
  <2>2. Asks(n)
    BY <1>3, <2>1, MakeAsks
  <2> QED BY <1>10, <2>2 DEF HandleAuth
<1> QED BY <1>7, <1>8, <1>9, <1>10 DEF Receive

\* The next frame of a replay is sent behind the messages.
LEMMA LineSends ==
  ASSUME NEW M, \A m \in M : m.seq \in Int, NEW wire \in Seq(M), NEW out \in Seq(M), NEW after \in Int, NEW target \in Int,
         NEW S \in SUBSET (1 .. Len(wire)), Supported(wire, S, after),
         Ends(out, target), Follows(out[1], wire, S, after), out[1].kind = "output"
  PROVE  \E T \in SUBSET (1 .. Len(wire \o <<Head(out)>>)) :
           /\ Supported(wire \o <<Head(out)>>, T, after)
           /\ \/ \E k \in T : (wire \o <<Head(out)>>)[k].seq >= target
              \/ Ends(Tail(out), target) /\ Follows(Tail(out)[1], wire \o <<Head(out)>>, T, after)
<1>1. out # <<>> /\ out[Len(out)].seq >= target /\ \A i \in 1 .. Len(out) - 1 : GoesOn(out[i + 1], out[i])
  BY DEF Ends
<1>2. PICK f \in M, rest \in Seq(M) : f = Head(out) /\ rest = Tail(out)
  BY <1>1, HeadTail
<1>3. /\ f = out[1] /\ Len(out) \in Nat \ {0} /\ Len(rest) = Len(out) - 1
      /\ \A i \in 1 .. Len(out) - 1 : rest[i] = out[i + 1]
  BY <1>1, <1>2, HeadTail
<1>4. PICK n : n = Len(wire)
  OBVIOUS
<1>5. n \in Nat
  BY <1>4
<1>6. <<f>> \in Seq(M) /\ Len(<<f>>) = 1 /\ <<f>>[1] = f
  OBVIOUS
<1>7. PICK all : all = wire \o <<f>>
  OBVIOUS
<1>8. /\ S \in SUBSET (1 .. Len(all)) /\ Supported(all, S, after) /\ \A k \in S : all[k] = wire[k]
      /\ Follows(f, all, S, after)
  <2>1. PICK more \in Seq(M) : more = <<f>>
    BY <1>6
  <2>2. /\ S \in SUBSET (1 .. Len(wire \o more)) /\ Supported(wire \o more, S, after)
        /\ \A k \in S : (wire \o more)[k] = wire[k]
        /\ \A frame : Follows(frame, wire, S, after) => Follows(frame, wire \o more, S, after)
    BY LineGrows
  <2> QED BY <1>3, <1>7, <2>1, <2>2
<1>9. Len(all) = n + 1 /\ all[n + 1] = f
  BY <1>4, <1>5, <1>6, <1>7
<1>10. PICK T : T = S \cup {n + 1}
  OBVIOUS
<1>11. T \in SUBSET (1 .. Len(all)) /\ n + 1 \in T /\ \A j \in S : j < n + 1
  <2>1. \A j \in S : j \in 1 .. n
    BY <1>4
  <2>2. \A j \in S : j < n + 1 /\ j \in 1 .. n + 1
    BY <1>5, <2>1
  <2>3. n + 1 \in 1 .. n + 1
    BY <1>5
  <2> QED BY <1>9, <1>10, <2>2, <2>3
<1>12. Supported(all, T, after)
  <2> SUFFICES ASSUME NEW k \in T
               PROVE  /\ all[k].kind = "output"
                      /\ \/ all[k].mode = "replace" \/ all[k].seq <= after + 1
                         \/ \E j \in T : j < k /\ all[k].seq <= all[j].seq + 1
    BY DEF Supported
  <2>1. CASE k \in S
    BY <1>8, <1>10, <2>1 DEF Supported
  <2>2. CASE k = n + 1
    BY <1>3, <1>8, <1>9, <1>10, <1>11, <2>2 DEF Follows
  <2> QED BY <1>10, <2>1, <2>2
<1>13. CASE Len(out) = 1
  <2>1. all[n + 1].seq >= target
    BY <1>1, <1>3, <1>9, <1>13
  <2> QED BY <1>2, <1>7, <1>11, <1>12, <2>1
<1>14. CASE Len(out) # 1
  <2>1. PICK l : l = Len(rest)
    OBVIOUS
  <2>2. l \in Nat \ {0} /\ Len(out) = l + 1
    BY <1>3, <1>14, <2>1
  <2>3. /\ rest # <<>> /\ rest[l] = out[Len(out)] /\ rest[1] = out[2]
        /\ \A i \in 1 .. l - 1 : rest[i + 1] = out[(i + 1) + 1] /\ rest[i] = out[i + 1] /\ i + 1 \in 1 .. Len(out) - 1
    BY <1>3, <2>1, <2>2
  <2>4. Ends(rest, target)
    BY <1>1, <2>1, <2>3 DEF Ends
  <2>5. GoesOn(out[2], out[1])
    <3>1. 1 \in 1 .. Len(out) - 1 /\ 1 + 1 = 2
      BY <2>2
    <3> QED BY <1>1, <3>1
  <2>6. Follows(rest[1], all, T, after)
    BY <1>3, <1>9, <1>11, <2>3, <2>5 DEF Follows, GoesOn
  <2> QED BY <1>2, <1>7, <1>11, <1>12, <2>4, <2>6
<1> QED BY <1>13, <1>14

\* A frame with the last number, or the next one, goes to the end of the cache.
LEMMA PushInOrder ==
  ASSUME ViewFits, CacheInOrder, NEW frame, frame.seq \in {agent.lastSeq, agent.lastSeq + 1},
         agent'.cache = Push(frame), agent'.lastSeq = frame.seq
  PROVE  CacheInOrder'
<1>1. PICK F : F = Frames \cup {frame}
  OBVIOUS
<1>2. agent.cache \in Seq(F) /\ frame \in F /\ agent.lastSeq \in Nat
  BY <1>1, MoreSeqs DEF ViewFits, Carried, AgentFits
<1>3. PICK k \in Nat : /\ Len(Push(frame)) = Len(agent.cache) + 1 - k /\ Len(Push(frame)) > 0
                       /\ \A i \in 1 .. Len(Push(frame)) :
                            Push(frame)[i] = IF i + k = Len(agent.cache) + 1 THEN frame ELSE agent.cache[i + k]
  BY <1>2, PushKeeps
<1>4. PICK n \in Nat : n = Len(agent.cache)
  BY <1>2
<1>5. PICK all : all = Push(frame)
  OBVIOUS
<1>6. /\ Len(all) = n + 1 - k /\ n + 1 - k > 0
      /\ \A i \in 1 .. n + 1 - k : all[i] = IF i + k = n + 1 THEN frame ELSE agent.cache[i + k]
  BY <1>3, <1>4, <1>5
<1>7. /\ agent.cache[n].seq = agent.lastSeq
      /\ \A i \in 1 .. n - 1 : agent.cache[i].seq <= agent.cache[i + 1].seq /\ agent.cache[i + 1].seq <= agent.cache[i].seq + 1
  BY <1>4 DEF CacheInOrder
<1>8. all[n + 1 - k] = frame
  BY <1>6
<1>9. ASSUME NEW i \in 1 .. (n + 1 - k) - 1 PROVE all[i].seq <= all[i + 1].seq /\ all[i + 1].seq <= all[i].seq + 1
  <2>1. i \in 1 .. n + 1 - k /\ i + 1 \in 1 .. n + 1 - k /\ i + k # n + 1 /\ i + k \in 1 .. n /\ (i + 1) + k = (i + k) + 1
    OBVIOUS
  <2>2. all[i] = agent.cache[i + k]
    BY <1>6, <2>1
  <2>3. CASE (i + 1) + k = n + 1
    <3>1. all[i + 1] = frame /\ i + k = n
      BY <1>6, <2>1, <2>3
    <3>2. all[i] = agent.cache[n]
      BY <2>2, <3>1
    <3>3. all[i].seq = agent.lastSeq /\ all[i + 1].seq \in {agent.lastSeq, agent.lastSeq + 1}
      BY <1>7, <3>1, <3>2
    <3> QED BY <1>2, <3>3
  <2>4. CASE (i + 1) + k # n + 1
    <3>1. all[i + 1] = agent.cache[(i + k) + 1] /\ i + k \in 1 .. n - 1
      BY <1>6, <2>1, <2>4
    <3> QED BY <1>7, <2>2, <3>1
  <2> QED BY <2>3, <2>4
<1>10. all # <<>>
  BY <1>6
<1> QED BY <1>5, <1>6, <1>8, <1>9, <1>10 DEF CacheInOrder

\* What does not concern the answers.
LEMMA StillAnswers ==
  ASSUME ViewFits, Calm, Answers, PaneChanges \/ Render \/ Expire, UNCHANGED way
  PROVE  Answers'
<1>1. CASE PaneChanges
  <2>1. UNCHANGED <<agent, reader, net, ref, pending>>
    BY <1>1 DEF PaneChanges
  <2> QED BY <2>1 DEF Answers, CacheInOrder, AskedBehind, HeldBack, NewsComes, Behind, Coming, ReplayAsked, ListAsked
<1>2. CASE Render
  BY <1>2 DEF Render, Calm, ViewFits, BrowserFits
<1>3. CASE Expire
  <2>1. UNCHANGED <<agent, reader, net, ref>> /\ pending # NoPending /\ pending' = [pending EXCEPT !.recent = FALSE]
    BY <1>3 DEF Expire
  <2>2. pending \in [after : Int, target : Int, recent : BOOLEAN]
    BY <2>1 DEF ViewFits, BrowserFits, Pendings
  <2>3. pending'.after = pending.after /\ pending'.recent = FALSE
    BY <2>1, <2>2
  <2>4. Behind' => NewsComes'
    BY <2>1 DEF Answers, Behind, NewsComes, Coming, ReplayAsked, ListAsked
  <2> QED BY <2>1, <2>3, <2>4 DEF Answers, CacheInOrder, AskedBehind, HeldBack
<1> QED BY <1>1, <1>2, <1>3

LEMMA SyncAnswers ==
  ASSUME ViewFits, Calm, Answers, SyncSession, UNCHANGED way
  PROVE  Answers'
<1>1. PICK f, w : f = LoopFrame /\ w = Word("state", agent.lastSeq + 1)
  OBVIOUS
<1>2. /\ agent' = [rendered |-> pane.now, lastSeq |-> agent.lastSeq + 1, cache |-> Push(f)]
      /\ net' = Told(<<f, w>>) /\ UNCHANGED <<reader, ref, pending>> /\ f.seq = agent.lastSeq + 1
  BY <1>1, SyncTypes DEF SyncSession, LoopFrame, Frame
<1>3. /\ net'.up = net.up /\ net'.link = net.link /\ net'.asked = net.asked
      /\ net'.wire = IF net.up /\ net.link THEN net.wire \o <<f, w>> ELSE net.wire
  BY <1>2, ToldFits DEF ViewFits
<1>4. agent'.cache = Push(f) /\ agent'.lastSeq = f.seq
  BY <1>2
<1>5. CacheInOrder'
  BY <1>2, <1>4, PushInOrder DEF Answers
<1>6. AskedBehind' /\ (ReplayAsked => ReplayAsked')
  BY <1>2, <1>3 DEF Answers, AskedBehind, ReplayAsked
<1>7. ASSUME HeldBack' PROVE Coming(pending.target)'
  <2>1. HeldBack /\ net.up /\ net.link
    BY <1>2, <1>3, <1>7 DEF HeldBack, Answers
  <2>2. PICK M, more : M = Messages \cup {f, w} /\ more = <<f, w>>
    OBVIOUS
  <2>3. more \in Seq(M) /\ Messages \subseteq M /\ net'.wire = net.wire \o more
    BY <1>3, <2>1, <2>2
  <2>4. PICK target \in Int : target = pending.target
    BY <2>1, AnswerFacts DEF HeldBack
  <2>5. Coming(target)'
    BY <1>2, <1>6, <2>1, <2>3, <2>4, AnswerKept DEF Answers
  <2> QED BY <1>2, <2>4, <2>5
<1>8. ASSUME Behind' PROVE NewsComes'
  <2>1. net.up /\ net.link
    BY <1>3, <1>8 DEF Behind, Answers
  <2>2. PICK all : all = net'.wire
    OBVIOUS
  <2>3. Len(all) = Len(net.wire) + 2 /\ Len(net.wire) + 1 \in 1 .. Len(all) /\ all[Len(net.wire) + 1] = f
    BY <1>3, <2>1, <2>2, AnswerFacts
  <2>4. f.kind \in Telling /\ f.seq = agent'.lastSeq
    BY <1>1, <1>4 DEF LoopFrame, Frame, Telling
  <2> QED BY <2>2, <2>3, <2>4 DEF NewsComes
<1>9. agent'.rendered # 0
  BY <1>2 DEF ViewFits, AgentFits
<1> QED BY <1>2, <1>3, <1>5, <1>6, <1>7, <1>8, <1>9 DEF Answers

LEMMA ListAnswers ==
  ASSUME ViewFits, Calm, Answers, ListAnswered, UNCHANGED way
  PROVE  Answers'
<1>1. PICK w : w = Word("list", agent.lastSeq)
  OBVIOUS
<1>2. /\ net.asked # <<>> /\ net'.up = net.up /\ net'.link = net.link /\ net'.asked = Tail(net.asked)
      /\ net'.wire = IF net.up /\ net.link THEN net.wire \o <<w>> ELSE net.wire
      /\ UNCHANGED <<agent, reader, ref, pending>> /\ Head(net.asked).kind = "list"
  BY <1>1, ListTypes DEF ListAnswered
<1>3. CacheInOrder'
  BY <1>2 DEF Answers, CacheInOrder
<1>4. /\ net.asked[1].kind = "list" /\ Len(net.asked) \in Nat \ {0} /\ Len(net'.asked) = Len(net.asked) - 1
      /\ \A i \in 1 .. Len(net.asked) - 1 : net'.asked[i] = net.asked[i + 1]
  BY <1>2, HeadTail DEF ViewFits, NetFits
<1>5. AskedBehind'
  <2> SUFFICES ASSUME NEW i \in 1 .. Len(net.asked) - 1, net.asked[i + 1].kind = "replay" PROVE net.asked[i + 1].seq <= ref
    BY <1>2, <1>4 DEF AskedBehind
  <2>1. i + 1 \in 1 .. Len(net.asked)
    BY <1>4
  <2> QED BY <2>1 DEF Answers, AskedBehind
<1>6. ReplayAsked => ReplayAsked'
  <2> SUFFICES ASSUME NEW i \in 1 .. Len(net.asked), net.asked[i].kind = "replay" PROVE ReplayAsked'
    BY DEF ReplayAsked
  <2>1. i # 1
    BY <1>4
  <2>2. i - 1 \in 1 .. Len(net.asked) - 1 /\ (i - 1) + 1 = i
    BY <1>4, <2>1
  <2>3. net'.asked[i - 1] = net.asked[i]
    BY <1>4, <2>2
  <2> QED BY <1>4, <2>2, <2>3 DEF ReplayAsked
<1>7. ASSUME HeldBack' PROVE Coming(pending.target)'
  <2>1. HeldBack /\ net.up /\ net.link
    BY <1>2, <1>7 DEF HeldBack, Answers
  <2>2. PICK M, more : M = Messages \cup {w} /\ more = <<w>>
    OBVIOUS
  <2>3. more \in Seq(M) /\ Messages \subseteq M /\ net'.wire = net.wire \o more
    BY <1>2, <2>1, <2>2
  <2>4. PICK target \in Int : target = pending.target
    BY <2>1, AnswerFacts DEF HeldBack
  <2>5. Coming(target)'
    BY <1>2, <1>6, <2>1, <2>3, <2>4, AnswerKept DEF Answers
  <2> QED BY <1>2, <2>4, <2>5
<1>8. ASSUME Behind' PROVE NewsComes'
  <2>1. net.up /\ net.link
    BY <1>2, <1>8 DEF Behind, Answers
  <2>2. PICK all : all = net'.wire
    OBVIOUS
  <2>3. Len(all) = Len(net.wire) + 1 /\ Len(net.wire) + 1 \in 1 .. Len(all) /\ all[Len(net.wire) + 1] = w
    BY <1>2, <2>1, <2>2, AnswerFacts
  <2>4. w.kind \in Telling /\ w.seq = agent'.lastSeq
    BY <1>1, <1>2 DEF Word, Telling
  <2> QED BY <2>2, <2>3, <2>4 DEF NewsComes
<1> QED BY <1>2, <1>3, <1>5, <1>6, <1>7, <1>8 DEF Answers

\* The agent takes a request: from the cache, or with what it will capture, it answers.
LEMMA BeginAnswers ==
  ASSUME ViewFits, Calm, Answers, NEW r \in Readers, ReplayBegin(r), UNCHANGED way
  PROVE  Answers'
<1>1. PICK after \in Unknown .. agent.lastSeq, out \in Seq(Frames) :
              /\ out = CachedAfter(after) \/ out = <<>>
              /\ Head(net.asked) = [kind |-> "replay", seq |-> after]
              /\ out # <<>> => Continues(out, after) /\ reader'[r].at = "send"
              /\ out = <<>> => reader'[r].at = "capture" /\ reader'[r].seq = agent.lastSeq
              /\ \A q \in Readers : reader'[q].out = IF q = r THEN out ELSE reader[q].out
  BY BeginTypes
<1>2. /\ UNCHANGED <<agent, ref, pending>> /\ net.asked # <<>> /\ net'.asked = Tail(net.asked) /\ net'.wire = net.wire
      /\ net'.up = net.up /\ net'.link = net.link
  BY BeginTypes
<1>3. CacheInOrder'
  BY <1>2 DEF Answers, CacheInOrder
<1>4. /\ net.asked[1] = Head(net.asked) /\ Len(net.asked) \in Nat \ {0} /\ Len(net'.asked) = Len(net.asked) - 1
      /\ \A i \in 1 .. Len(net.asked) - 1 : net'.asked[i] = net.asked[i + 1]
  BY <1>2, HeadTail DEF ViewFits, NetFits
<1>5. AskedBehind'
  <2> SUFFICES ASSUME NEW i \in 1 .. Len(net.asked) - 1, net.asked[i + 1].kind = "replay" PROVE net.asked[i + 1].seq <= ref
    BY <1>2, <1>4 DEF AskedBehind
  <2>1. i + 1 \in 1 .. Len(net.asked)
    BY <1>4
  <2> QED BY <2>1 DEF Answers, AskedBehind
<1>6. /\ after <= ref /\ after \in Int /\ ref \in Int /\ agent.lastSeq \in Nat
  <2>1. after <= ref
    <3>1. 1 \in 1 .. Len(net.asked) /\ net.asked[1].kind = "replay" /\ net.asked[1].seq = after
      BY <1>1, <1>4
    <3> QED BY <3>1 DEF Answers, AskedBehind
  <2> QED BY <2>1, AnswerFacts DEF Unknown
<1>7. ASSUME NEW target \in Int, target <= agent.lastSeq PROVE Coming(target)'
  <2>2. CASE out = <<>>
    <3>1. reader'[r].at = "capture" /\ reader'[r].seq >= target
      BY <1>1, <1>6, <1>7, <2>2
    <3> QED BY <3>1 DEF Coming
  <2>3. CASE out # <<>>
    <3>1. out = CachedAfter(after) /\ Continues(out, after)
      BY <1>1, <2>3
    <3>2. /\ \A i \in 1 .. Len(out) - 1 : GoesOn(out[i + 1], out[i])
          /\ out[Len(out)] = agent.cache[Len(agent.cache)]
      <4>1. PICK F : F = Frames
        OBVIOUS
      <4>2. agent.cache \in Seq(F) /\ \A f \in F : f.seq \in Int
        BY <4>1, AnswerFacts DEF ViewFits, Carried
      <4>3. \A i \in 1 .. Len(agent.cache) - 1 :
              agent.cache[i].seq <= agent.cache[i + 1].seq /\ agent.cache[i + 1].seq <= agent.cache[i].seq + 1
        BY DEF Answers, CacheInOrder
      <4> QED BY <1>6, <2>3, <3>1, <4>2, <4>3, CachedAreFrames
    <3>3. Ends(out, target)
      BY <1>7, <2>3, <3>2 DEF Ends, Answers, CacheInOrder
    <3>4. out[1] = Head(out) /\ out[1] \in Frames
      BY <2>3, HeadTail
    <3>5. out[1].seq <= ref + 1
      <4>1. out[1].seq <= after + 1
        BY <3>1, <3>4 DEF Continues
      <4>2. out[1].seq \in Int
        BY <3>4, AnswerFacts
      <4> QED BY <1>6, <4>1, <4>2
    <3>6. Follows(out[1], net'.wire, {}, ref')
      BY <1>2, <3>5 DEF Follows
    <3>7. Supported(net'.wire, {}, ref') /\ {} \in SUBSET (1 .. Len(net'.wire))
      BY DEF Supported
    <3>8. Ends(reader'[r].out, target) /\ Follows(reader'[r].out[1], net'.wire, {}, ref')
      BY <1>1, <3>3, <3>6
    <3>9. \E S \in SUBSET (1 .. Len(net'.wire)) :
            /\ Supported(net'.wire, S, ref')
            /\ \E q \in Readers : /\ Ends(reader'[q].out, target)
                                  /\ Follows(reader'[q].out[1], net'.wire, S, ref')
      BY <3>7, <3>8
    <3> QED BY <3>9 DEF Coming
  <2> QED BY <2>2, <2>3
<1>8. ASSUME HeldBack' PROVE Coming(pending.target)'
  <2>1. PICK target \in Int : target = pending.target /\ target <= agent.lastSeq
    BY <1>2, <1>8, AnswerFacts DEF HeldBack
  <2> QED BY <1>2, <1>7, <2>1
<1>9. NewsComes'
  <2>1. PICK target \in Int : target = agent.lastSeq /\ target <= agent.lastSeq
    BY <1>6
  <2> QED BY <1>2, <1>7, <2>1 DEF NewsComes
<1> QED BY <1>2, <1>3, <1>5, <1>8, <1>9 DEF Answers

LEMMA CapturedAnswers ==
  ASSUME ViewFits, Calm, Answers, NEW r \in Readers, ReplayCaptured(r), UNCHANGED way
  PROVE  Answers'
<1>1. PICK f : f = CaptureFrame(r)
  OBVIOUS
<1>2. /\ agent' = [rendered |-> agent.rendered, lastSeq |-> agent.lastSeq, cache |-> Push(f)]
      /\ reader'[r].out = <<f>> /\ UNCHANGED <<net, ref, pending>>
  BY <1>1, CapturedTypes
<1>3. f.seq = agent.lastSeq /\ f.mode = "replace"
  BY <1>1 DEF Calm, CaptureFrame, Frame
<1>4. agent'.cache = Push(f) /\ agent'.lastSeq = f.seq
  BY <1>2, <1>3
<1>5. CacheInOrder'
  BY <1>3, <1>4, PushInOrder DEF Answers
<1>6. ASSUME NEW target \in Int, target <= agent.lastSeq PROVE Coming(target)'
  <2>3. <<f>> # <<>> /\ Len(<<f>>) = 1 /\ <<f>>[1] = f /\ 1 .. 1 - 1 = {}
    OBVIOUS
  <2>4. Ends(reader'[r].out, target)
    BY <1>2, <1>3, <1>6, <2>3 DEF Ends
  <2>5. Follows(reader'[r].out[1], net'.wire, {}, ref')
    BY <1>2, <1>3, <2>3 DEF Follows
  <2>6. Supported(net'.wire, {}, ref') /\ {} \in SUBSET (1 .. Len(net'.wire))
    BY DEF Supported
  <2>7. \E S \in SUBSET (1 .. Len(net'.wire)) :
          /\ Supported(net'.wire, S, ref')
          /\ \E q \in Readers : /\ Ends(reader'[q].out, target)
                                /\ Follows(reader'[q].out[1], net'.wire, S, ref')
    BY <2>4, <2>5, <2>6
  <2> QED BY <2>7 DEF Coming
<1>7. ASSUME HeldBack' PROVE Coming(pending.target)'
  <2>1. PICK target \in Int : target = pending.target /\ target <= agent.lastSeq
    BY <1>2, <1>7, AnswerFacts DEF HeldBack
  <2> QED BY <1>2, <1>6, <2>1
<1>8. NewsComes'
  <2>1. PICK target \in Int : target = agent.lastSeq /\ target <= agent.lastSeq
    BY AnswerFacts
  <2> QED BY <1>2, <1>6, <2>1 DEF NewsComes
<1> QED BY <1>2, <1>5, <1>7, <1>8 DEF Answers, AskedBehind

LEMMA SendAnswers ==
  ASSUME ViewFits, Calm, Answers, NEW r \in Readers, ReplaySend(r), UNCHANGED way
  PROVE  Answers'
<1>1. /\ reader[r].at = "send" /\ reader[r].out # <<>>
      /\ \A q \in Readers : reader'[q].out = IF q = r THEN Tail(reader[q].out) ELSE reader[q].out
      /\ \A q \in Readers \ {r} : reader'[q].at = reader[q].at /\ reader'[q].seq = reader[q].seq
      /\ net'.wire = IF net.up /\ net.link THEN net.wire \o <<Head(reader[r].out)>> ELSE net.wire
      /\ net'.up = net.up /\ net'.link = net.link /\ net'.asked = net.asked
      /\ UNCHANGED <<agent, ref, pending>>
  BY SendTypes
<1>2. CacheInOrder' /\ AskedBehind'
  BY <1>1 DEF Answers, CacheInOrder, AskedBehind
<1>3. ASSUME net.up, NEW target \in Int, Coming(target) PROVE Coming(target)'
  <2>1. net.up /\ net.link
    BY <1>3 DEF Answers
  <2>2. PICK M, wire, out, after :
          M = Messages /\ wire = net.wire /\ out = reader[r].out /\ after = ref
    OBVIOUS
  <2>3. /\ wire \in Seq(M) /\ (\A m \in M : m.seq \in Int) /\ out \in Seq(Frames) /\ Frames \subseteq M
        /\ after \in Int /\ \A f \in Frames : f.kind = "output"
    BY <2>1, <2>2, AnswerFacts
  <2>4. out \in Seq(M) /\ out # <<>> /\ out[1].kind = "output" /\ Head(out) \in M
    <3>1. out \in Seq(M)
      BY <2>3, MoreSeqs
    <3>2. out[1] \in Frames /\ out[1] = Head(out)
      BY <1>1, <2>2, <2>3, HeadTail
    <3> QED BY <1>1, <2>2, <2>3, <3>1, <3>2
  <2>5. PICK all : all = wire \o <<Head(out)>>
    OBVIOUS
  <2>6. net'.wire = all
    BY <1>1, <2>1, <2>2, <2>5
  <2>7. CASE ReplayAsked
    BY <1>1, <2>7 DEF Coming, ReplayAsked
  <2>8. CASE \E q \in Readers : reader[q].at = "capture" /\ reader[q].seq >= target
    <3>1. PICK q \in Readers : reader[q].at = "capture" /\ reader[q].seq >= target
      BY <2>8
    <3>2. q # r
      BY <1>1, <3>1
    <3> QED BY <1>1, <3>1, <3>2 DEF Coming
  <2>9. ASSUME NEW S \in SUBSET (1 .. Len(wire)), Supported(wire, S, after),
               \/ \E k \in S : wire[k].seq >= target
               \/ \E q \in Readers : /\ Ends(reader[q].out, target)
                                     /\ Follows(reader[q].out[1], wire, S, after)
        PROVE  Coming(target)'
    <3>1. PICK more \in Seq(M) : more = <<Head(out)>>
      <4>1. PICK f \in M : f = Head(out)
        BY <2>4
      <4>2. <<f>> \in Seq(M)
        OBVIOUS
      <4> QED BY <4>1, <4>2
    <3>2. /\ S \in SUBSET (1 .. Len(all)) /\ Supported(all, S, after)
          /\ \A k \in S : all[k] = wire[k]
          /\ \A frame : Follows(frame, wire, S, after) => Follows(frame, all, S, after)
      BY <2>3, <2>5, <2>9, <3>1, LineGrows
    <3>3. CASE \E k \in S : wire[k].seq >= target
      <4>1. \E k \in S : net'.wire[k].seq >= target
        BY <1>1, <2>2, <2>6, <3>2, <3>3
      <4> QED BY <1>1, <2>2, <2>6, <3>2, <4>1 DEF Coming
    <3>4. ASSUME NEW q \in Readers, q # r, Ends(reader[q].out, target), Follows(reader[q].out[1], wire, S, after)
          PROVE  Coming(target)'
      <4>1. Ends(reader'[q].out, target) /\ Follows(reader'[q].out[1], net'.wire, S, ref')
        BY <1>1, <2>2, <2>6, <3>2, <3>4
      <4> QED BY <1>1, <2>2, <2>6, <3>2, <4>1 DEF Coming
    <3>5. ASSUME Ends(out, target), Follows(out[1], wire, S, after) PROVE Coming(target)'
      <4>1. PICK T \in SUBSET (1 .. Len(all)) :
               /\ Supported(all, T, after)
               /\ \/ \E k \in T : all[k].seq >= target
                  \/ Ends(Tail(out), target) /\ Follows(Tail(out)[1], all, T, after)
        BY <2>3, <2>4, <2>5, <2>9, <3>5, LineSends
      <4>2. \/ \E k \in T : net'.wire[k].seq >= target
            \/ Ends(reader'[r].out, target) /\ Follows(reader'[r].out[1], net'.wire, T, ref')
        BY <1>1, <2>2, <2>6, <4>1
      <4>3. T \in SUBSET (1 .. Len(net'.wire)) /\ Supported(net'.wire, T, ref')
        BY <1>1, <2>2, <2>6, <4>1
      <4> QED BY <4>2, <4>3 DEF Coming
    <3> QED BY <2>2, <2>9, <3>3, <3>4, <3>5
  <2> QED BY <1>3, <2>2, <2>7, <2>8, <2>9 DEF Coming
<1>4. ASSUME HeldBack' PROVE Coming(pending.target)'
  <2>1. HeldBack
    BY <1>1, <1>4 DEF HeldBack
  <2>2. PICK target \in Int : target = pending.target
    BY <2>1, AnswerFacts DEF HeldBack
  <2> QED BY <1>1, <1>3, <2>1, <2>2 DEF Answers, HeldBack
<1>5. ASSUME Behind' PROVE NewsComes'
  <2>1. Behind /\ net.up /\ net.link
    BY <1>1, <1>5 DEF Behind, Answers
  <2>2. CASE ListAsked
    BY <1>1, <2>2 DEF NewsComes, ListAsked
  <2>3. ASSUME NEW i \in 1 .. Len(net.wire), net.wire[i].kind \in Telling, net.wire[i].seq = agent.lastSeq
        PROVE  NewsComes'
    <3>1. PICK all : all = net'.wire
      OBVIOUS
    <3>2. i \in 1 .. Len(all) /\ all[i] = net.wire[i]
      BY <1>1, <2>1, <3>1, AnswerFacts
    <3> QED BY <1>1, <2>3, <3>1, <3>2 DEF NewsComes
  <2>4. CASE Coming(agent.lastSeq)
    <3>1. PICK target \in Int : target = agent.lastSeq
      BY AnswerFacts
    <3> QED BY <1>1, <1>3, <2>1, <2>4, <3>1 DEF NewsComes
  <2> QED BY <2>1, <2>2, <2>3, <2>4 DEF Answers, NewsComes
<1> QED BY <1>1, <1>2, <1>4, <1>5 DEF Answers

\* A list or a frame that tells the browser that it is behind: it takes the frame, or asks
\* for a replay unless one with this target was asked for recently.
LEMMA TellingAsks ==
  ASSUME ViewFits, ~way.lags, net.link, Receive, NEW m, m = Head(net.wire), m.kind \in Telling, ref < m.seq
  PROVE  ref' = m.seq \/ ReplayAsked' \/ (HeldBack /\ pending.target >= m.seq)
<1>1. PICK n : n = [net EXCEPT !.wire = Tail(@)]
  OBVIOUS
<1>2. /\ n = [up |-> n.up, link |-> n.link, asked |-> n.asked, wire |-> n.wire] /\ n.asked = net.asked
      /\ n.up /\ n.link /\ net.up /\ ref = view.seq
  BY <1>1 DEF ViewFits, Fields, NetFits, BrowserFits, Receive
<1>3. ref \in Int /\ m.seq \in Int
  <2>1. net.wire # <<>>
    BY DEF Receive
  <2>2. m.seq \in 0 .. agent.lastSeq
    BY <2>1, MessageFits
  <2> QED BY <2>2, AnswerFacts
<1>4. PICK replay : replay = Word("replay", ref)
  OBVIOUS
<1>5. replay \in Requests /\ replay.kind = "replay"
  <2>1. ref \in Unknown .. agent.lastSeq
    BY DEF ViewFits, BrowserFits
  <2> QED BY <1>4, <2>1 DEF Word, Requests
<1>6. ASSUME NEW r, r.requests = <<replay>>, Make(n, r) PROVE ReplayAsked'
  <2>1. net'.asked = n.asked \o <<replay>>
    <3>1. Asked(n, <<replay>>).asked = n.asked \o <<replay>>
      BY <1>2, AskedFits
    <3>2. net' = Asked(n, <<replay>>)
      BY <1>6 DEF Make
    <3> QED BY <3>1, <3>2
  <2>2. PICK asked \in Seq(Requests), one \in Seq(Requests) :
           asked = net.asked /\ one = <<replay>> /\ Len(one) = 1 /\ one[1] = replay
    <3>1. <<replay>> \in Seq(Requests) /\ Len(<<replay>>) = 1 /\ <<replay>>[1] = replay
      BY <1>5
    <3> QED BY <3>1 DEF ViewFits, NetFits
  <2>3. PICK all : all = asked \o one
    OBVIOUS
  <2>4. Len(all) = Len(asked) + 1 /\ Len(asked) + 1 \in 1 .. Len(all) /\ all[Len(asked) + 1] = replay
    BY <2>2, <2>3
  <2>5. net'.asked = all
    BY <1>2, <2>1, <2>2, <2>3
  <2> QED BY <1>5, <2>4, <2>5 DEF ReplayAsked
<1>7. ASSUME Make(n, RequestReplayForTarget(m.seq)) PROVE ReplayAsked' \/ (HeldBack /\ pending.target >= m.seq)
  <2>1. ~(ref >= m.seq)
    BY <1>3
  <2>2. CASE Held(m.seq)
    BY <1>2, <2>2 DEF Held, HeldBack
  <2>3. CASE ~Held(m.seq)
    <3>1. PICK r : r = RequestReplayForTarget(m.seq)
      OBVIOUS
    <3>2. r.requests = <<replay>>
      BY <1>4, <2>1, <2>3, <3>1 DEF RequestReplayForTarget
    <3> QED BY <1>6, <1>7, <3>1, <3>2
  <2> QED BY <2>2, <2>3
<1>8. CASE m.kind = "output"
  <2>1. HandleOutput(n, m)
    BY <1>1, <1>8 DEF Receive
  <2>2. ~(m.seq < ref \/ (m.seq = ref /\ m.mode # "replace"))
    BY <1>3
  <2>3. Make(n, RequestReplayForTarget(m.seq)) \/ Accepted(n, m)
    BY <2>1, <2>2 DEF HandleOutput
  <2> QED BY <1>7, <2>3 DEF Accepted
<1>9. CASE m.kind = "list"
  <2>1. HandleList(n, m)
    BY <1>1, <1>9 DEF Receive
  <2>2. ~(view.seq >= m.seq)
    BY <1>2, <1>3
  <2> QED BY <1>7, <2>1, <2>2 DEF HandleList
<1> QED BY <1>8, <1>9 DEF Telling

\* The browser takes a message.
LEMMA ArrivalAnswers ==
  ASSUME ViewFits, Calm, Answers, Receive, UNCHANGED way
  PROVE  Answers'
<1>1. PICK m, n : m = Head(net.wire) /\ n = [net EXCEPT !.wire = Tail(@)]
  OBVIOUS
<1>2. /\ UNCHANGED <<agent, reader>> /\ net.wire # <<>> /\ net'.wire = Tail(net.wire)
      /\ net'.up = net.up /\ net'.link = net.link
  BY ArrivalTypes
<1>3. /\ n = [up |-> n.up, link |-> n.link, asked |-> n.asked, wire |-> n.wire]
      /\ n.up = net.up /\ n.link = net.link /\ n.asked = net.asked
  BY <1>1 DEF ViewFits, Fields
<1>4. net.up /\ net.link
  BY <1>2 DEF ViewFits, NetFits, Answers
<1>5. CacheInOrder'
  BY <1>2 DEF Answers, CacheInOrder
<1>6. /\ ref \in Int
      /\ pending # NoPending => pending.after \in Int /\ pending.target \in Int /\ pending.after < pending.target
  BY AnswerFacts
<1>7. \/ /\ Asks(n) /\ ref' = ref
         /\ m.kind # "output" \/ m.seq <= ref \/ (m.mode # "replace" /\ ~(m.seq <= ref + 1))
      \/ /\ net' = n /\ ref' = m.seq /\ ref <= m.seq
         /\ \/ pending' = NoPending
            \/ pending' = pending /\ m.seq < pending.target
  BY <1>1, ArrivalAsks DEF Calm
<1>10. ASSUME NEW i \in 1 .. Len(net.wire), net.wire[i].kind \in Telling, net.wire[i].seq = agent.lastSeq
      PROVE  NewsComes' \/ (m.kind \in Telling /\ m.seq = agent.lastSeq)
  <2>1. PICK wire \in Seq(Messages) : wire = net.wire
    BY AnswerFacts
  <2>2. PICK rest : rest = Tail(wire)
    OBVIOUS
  <2>3. /\ Head(wire) = wire[1] /\ Len(wire) \in Nat \ {0} /\ Len(rest) = Len(wire) - 1
        /\ \A k \in 1 .. Len(wire) - 1 : rest[k] = wire[k + 1]
    BY <1>2, <2>1, <2>2, HeadTail
  <2>4. CASE i = 1
    BY <1>1, <1>10, <2>1, <2>3, <2>4
  <2>5. CASE i # 1
    <3>1. i - 1 \in 1 .. Len(rest) /\ rest[i - 1] = wire[i]
      <4>1. i - 1 \in 1 .. Len(wire) - 1 /\ (i - 1) + 1 = i
        BY <2>1, <2>3, <2>5
      <4> QED BY <2>3, <4>1
    <3>2. net'.wire = rest
      BY <1>2, <2>1, <2>2
    <3> QED BY <1>2, <1>10, <2>1, <3>1, <3>2 DEF NewsComes
  <2> QED BY <2>4, <2>5
<1>8. CASE /\ Asks(n) /\ ref' = ref
           /\ m.kind # "output" \/ m.seq <= ref \/ (m.mode # "replace" /\ ~(m.seq <= ref + 1))
  <2>1. /\ AskedBehind => \A i \in 1 .. Len(net'.asked) : net'.asked[i].kind = "replay" => net'.asked[i].seq <= ref
        /\ ReplayAsked => ReplayAsked'
        /\ ListAsked => ListAsked'
        /\ \/ pending' = pending
           \/ pending' = NoPending
           \/ pending'.after = ref /\ ReplayAsked'
    BY <1>3, <1>4, <1>8, AsksGive
  <2>2. AskedBehind'
    BY <1>8, <2>1 DEF Answers, AskedBehind
  <2>3. pending' # NoPending => pending'.after <= ref'
    BY <1>6, <1>8, <2>1 DEF Answers
  <2>4. ASSUME HeldBack' PROVE Coming(pending.target)'
    <3>1. CASE pending' = pending
      <4>1. HeldBack /\ pending # NoPending /\ pending.after = ref
        BY <1>4, <1>8, <2>4, <3>1 DEF HeldBack
      <4>2. PICK target \in Int : target = pending.target /\ Coming(target) /\ ref < target
        BY <1>6, <4>1 DEF Answers
      <4>3. Coming(target)'
        BY <1>1, <1>2, <1>6, <1>8, <2>1, <4>2, AnswerShifts
      <4> QED BY <3>1, <4>2, <4>3
    <3>2. CASE pending' = NoPending
      BY <2>4, <3>2 DEF HeldBack
    <3>3. CASE ReplayAsked'
      BY <3>3 DEF Coming
    <3> QED BY <2>1, <3>1, <3>2, <3>3
  <2>5. ASSUME Behind' PROVE NewsComes'
    <3>1. Behind
      BY <1>2, <1>8, <2>5 DEF Behind
    <3>2. PICK target \in Int : target = agent.lastSeq /\ target = agent'.lastSeq /\ ref < target
      BY <1>2, <3>1, AnswerFacts DEF Behind
    <3>3. Coming(target) => Coming(target)'
      BY <1>1, <1>2, <1>6, <1>8, <2>1, <3>2, AnswerShifts
    <3>4. Coming(target)' => NewsComes'
      BY <3>2 DEF NewsComes
    <3>5. ASSUME m.kind \in Telling, m.seq = target PROVE Coming(target)'
      <4>1. ReplayAsked' \/ (HeldBack /\ pending.target >= target)
        BY <1>1, <1>4, <1>6, <1>8, <3>2, <3>5, TellingAsks DEF Calm
      <4>2. CASE ReplayAsked'
        BY <4>2 DEF Coming
      <4>3. CASE HeldBack /\ pending.target >= target
        <5>1. pending.target = target
          BY <3>2, <4>3, AnswerFacts DEF HeldBack
        <5>2. Coming(target)
          BY <4>3, <5>1 DEF Answers
        <5> QED BY <3>3, <5>2
      <4> QED BY <4>1, <4>2, <4>3
    <3> QED BY <2>1, <3>1, <3>2, <3>3, <3>4, <3>5, <1>10 DEF Answers, NewsComes
  <2> QED BY <1>2, <1>4, <1>5, <2>2, <2>3, <2>4, <2>5 DEF Answers
<1>9. CASE /\ net' = n /\ ref' = m.seq /\ ref <= m.seq
           /\ \/ pending' = NoPending
              \/ pending' = pending /\ m.seq < pending.target
  <2>0. m.seq \in Int
    <3>1. m.seq \in 0 .. agent.lastSeq
      BY <1>1, <1>2, MessageFits
    <3> QED BY <3>1
  <2>1. net'.asked = net.asked
    BY <1>3, <1>9
  <2>2. AskedBehind'
    <3> SUFFICES ASSUME NEW i \in 1 .. Len(net.asked), net.asked[i].kind = "replay" PROVE net.asked[i].seq <= ref'
      BY <2>1 DEF AskedBehind
    <3>1. net.asked[i].seq <= ref
      BY DEF Answers, AskedBehind
    <3>2. net.asked[i].seq \in Int
      <4>1. net.asked[i] \in Requests
        BY DEF ViewFits, NetFits
      <4>2. agent.lastSeq \in Nat
        BY AnswerFacts
      <4> QED BY <4>1, <4>2 DEF Requests, Unknown
    <3> QED BY <1>6, <1>9, <2>0, <3>1, <3>2
  <2>3. pending' # NoPending => pending'.after <= ref'
    BY <1>6, <1>9, <2>0 DEF Answers
  <2>5. ASSUME NEW target \in Int, Coming(target), m.seq < target PROVE Coming(target)'
    <3>1. ReplayAsked => ReplayAsked'
      BY <2>1 DEF ReplayAsked
    <3>2. ref' \in Int /\ ref <= ref' /\ ref' < target /\ m.seq <= ref'
      BY <1>9, <2>0, <2>5
    <3> QED BY <1>1, <1>2, <2>5, <3>1, <3>2, AnswerShifts
  <2>4. ASSUME HeldBack' PROVE Coming(pending.target)'
    <3>1. pending # NoPending /\ pending' = pending /\ pending.after = ref' /\ m.seq < pending.target /\ pending.recent
      BY <1>9, <2>4 DEF HeldBack
    <3>2. ref' = ref
      BY <1>6, <1>9, <2>0, <3>1 DEF Answers
    <3>3. HeldBack
      BY <1>4, <3>1, <3>2 DEF HeldBack
    <3>4. PICK target \in Int : target = pending.target /\ Coming(target) /\ m.seq < target
      BY <1>6, <3>1, <3>3 DEF Answers
    <3>5. Coming(target)'
      BY <2>5, <3>4
    <3> QED BY <3>1, <3>4, <3>5
  <2>6. ASSUME Behind' PROVE NewsComes'
    <3>1. PICK target \in Int : target = agent.lastSeq /\ target = agent'.lastSeq /\ m.seq < target
      BY <1>2, <1>9, <2>6, AnswerFacts DEF Behind
    <3>2. Behind
      BY <1>4, <1>6, <1>9, <2>0, <3>1 DEF Behind
    <3>3. Coming(target) => NewsComes'
      BY <2>5, <3>1 DEF NewsComes
    <3>4. ListAsked => NewsComes'
      BY <2>1 DEF ListAsked, NewsComes
    <3>5. ~(m.seq = agent.lastSeq)
      BY <2>0, <3>1
    <3> QED BY <1>10, <3>1, <3>2, <3>3, <3>4, <3>5 DEF Answers, NewsComes
  <2> QED BY <1>2, <1>4, <1>5, <2>2, <2>3, <2>4, <2>6 DEF Answers
<1> QED BY <1>7, <1>8, <1>9

\* A list is always requested with what the active session misses.
LEMMA MissingLists ==
  ASSUME ViewFits, NEW n, n = [up |-> n.up, link |-> n.link, asked |-> n.asked, wire |-> n.wire],
         n.up, n.link, n.asked = net.asked, net' = Asked(n, RequestMissing.requests)
  PROVE  ListAsked'
<1>1. PICK list : list = Word("list", 0)
  OBVIOUS
<1>2. agent.lastSeq \in Nat /\ ref \in Unknown .. agent.lastSeq /\ page.known \in Unknown .. agent.lastSeq
  BY DEF ViewFits, AgentFits, BrowserFits
<1>3. list \in Requests /\ list.kind = "list"
  BY <1>1, <1>2 DEF Word, Requests, Unknown
<1>4. PICK asked \in Seq(Requests), requests \in Seq(Requests) : asked = net.asked /\ requests = RequestMissing.requests
  BY MissingFits DEF ViewFits, NetFits
<1>5. Len(requests) \in Nat \ {0} /\ requests[1] = list
  <2>1. CASE page.known = Unknown
    <3>1. requests = <<list, Word("replay", ref)>>
      BY <1>1, <1>4, <2>1 DEF RequestMissing
    <3> QED BY <3>1
  <2>2. CASE page.known # Unknown
    <3>1. PICK q : q = RequestReplayForTarget(page.known)
      OBVIOUS
    <3>2. q.requests \in Seq(Requests) /\ q = [pending |-> q.pending, requests |-> q.requests]
      BY <1>2, <3>1, RequestFits, RequestRight
    <3>3. RequestMissing = [q EXCEPT !.requests = <<list>> \o @]
      BY <1>1, <2>2, <3>1 DEF RequestMissing
    <3>4. requests = <<list>> \o q.requests
      BY <1>4, <3>2, <3>3
    <3>5. PICK one \in Seq(Requests), more \in Seq(Requests) :
             one = <<list>> /\ more = q.requests /\ Len(one) = 1 /\ one[1] = list
      <4>1. <<list>> \in Seq(Requests) /\ Len(<<list>>) = 1 /\ <<list>>[1] = list
        BY <1>3
      <4> QED BY <3>2, <4>1
    <3>6. Len(one \o more) = 1 + Len(more) /\ Len(more) \in Nat /\ (one \o more)[1] = list
      BY <3>5
    <3> QED BY <3>4, <3>5, <3>6
  <2> QED BY <2>1, <2>2
<1>6. PICK all : all = asked \o requests
  OBVIOUS
<1>7. Len(asked) + 1 \in 1 .. Len(all) /\ all[Len(asked) + 1] = list
  BY <1>5, <1>6
<1>8. net'.asked = all
  <2>1. Asked(n, requests).asked = n.asked \o requests
    BY AskedFits
  <2> QED BY <1>4, <1>6, <2>1
<1> QED BY <1>3, <1>7, <1>8 DEF ListAsked

\* The browser connects, or its user returns to the page.
LEMMA AskingAnswers ==
  ASSUME ViewFits, Calm, Answers, Connect \/ Look, UNCHANGED way
  PROVE  Answers'
<1>1. /\ UNCHANGED <<agent, reader, ref>> /\ net'.up /\ net'.link = net.link
      /\ \/ Connect /\ net'.wire = <<Word("auth", 0)>>
         \/ Look /\ net'.wire = net.wire
  BY AskingTypes
<1>2. PICK n : /\ Make(n, RequestMissing)
               /\ \/ Look /\ n = net /\ net.up
                  \/ Connect /\ n = [net EXCEPT !.up = TRUE, !.wire = <<Word("auth", 0)>>]
  BY DEF Connect, Look
<1>3. /\ n = [up |-> n.up, link |-> n.link, asked |-> n.asked, wire |-> n.wire]
      /\ n.up /\ n.link = net.link /\ n.asked = net.asked
  BY <1>2 DEF ViewFits, Fields
<1>4. net.link
  BY DEF Answers
<1>5. Asks(n)
  <2>1. Unknown \in Unknown .. agent.lastSeq
    BY AnswerFacts DEF Unknown
  <2> QED BY <1>2, <2>1, MakeAsks
<1>6. /\ AskedBehind => \A i \in 1 .. Len(net'.asked) : net'.asked[i].kind = "replay" => net'.asked[i].seq <= ref
      /\ ReplayAsked => ReplayAsked'
      /\ ListAsked => ListAsked'
      /\ \/ pending' = pending
         \/ pending' = NoPending
         \/ pending'.after = ref /\ ReplayAsked'
  BY <1>3, <1>4, <1>5, AsksGive
<1>7. CacheInOrder' /\ AskedBehind'
  BY <1>1, <1>6 DEF Answers, CacheInOrder, AskedBehind
<1>8. pending' # NoPending => pending'.after <= ref'
  <2>1. ref \in Int
    BY AnswerFacts
  <2> QED BY <1>1, <1>6, <2>1 DEF Answers
<1>9. ASSUME HeldBack' PROVE Coming(pending.target)'
  <2>1. CASE pending' = pending /\ Connect
    <3>1. pending # NoPending /\ pending.recent
      BY <1>9, <2>1 DEF HeldBack
    <3>2. Patient
      BY <2>1 DEF Connect, Calm
    <3> QED BY <3>1, <3>2 DEF Patient
  <2>2. CASE pending' = pending /\ Look /\ net'.wire = net.wire
    <3>1. HeldBack
      BY <1>1, <1>9, <2>2 DEF HeldBack, Look
    <3>4. PICK target \in Int : target = pending.target /\ Coming(target)
      BY <3>1, AnswerFacts DEF HeldBack, Answers
    <3>2. PICK M, none : M = Messages /\ none = <<>>
      OBVIOUS
    <3>3. none \in Seq(M) /\ Messages \subseteq M /\ net'.wire = net.wire \o none
      <4>1. net.wire \in Seq(M)
        BY <3>2, AnswerFacts
      <4>2. net.wire \o <<>> = net.wire
        BY <4>1, ConcatEmptySeq
      <4> QED BY <2>2, <3>2, <4>2
    <3>5. Coming(target)'
      BY <1>1, <1>6, <2>2, <3>3, <3>4, AnswerKept
    <3> QED BY <2>2, <3>4, <3>5
  <2>3. CASE pending' = NoPending
    BY <1>9, <2>3 DEF HeldBack
  <2>4. CASE ReplayAsked'
    BY <2>4 DEF Coming
  <2> QED BY <1>1, <1>6, <2>1, <2>2, <2>3, <2>4
<1>10. NewsComes'
  <2>1. n.link /\ net' = Asked(n, RequestMissing.requests)
    BY <1>2, <1>3, <1>4 DEF Make
  <2> QED BY <1>3, <2>1, MissingLists DEF NewsComes
<1> QED BY <1>1, <1>4, <1>7, <1>8, <1>9, <1>10 DEF Answers

LEMMA LostAnswers ==
  ASSUME ViewFits, Calm, Answers, Drop \/ LinkLost \/ LinkBack, UNCHANGED way
  PROVE  Answers'
<1>1. ~LinkLost
  <2> SUFFICES ASSUME LinkLost PROVE FALSE
    OBVIOUS
  <2>1. count.cuts < 0 /\ count.cuts \in Nat
    BY DEF LinkLost, Calm, ViewFits, AgentFits
  <2> QED BY <2>1
<1>2. ~LinkBack
  BY DEF LinkBack, Answers
<1>3. /\ Drop /\ ~net'.up /\ UNCHANGED <<agent, reader, ref, pending>> /\ net'.link = net.link
  BY <1>1, <1>2, LostTypes
<1>4. AskedBehind'
  <2>1. PICK n \in 0 .. Len(net.asked) : net' = [net EXCEPT !.up = FALSE, !.asked = SubSeq(@, 1, n), !.wire = <<>>]
    BY <1>3 DEF Drop
  <2>2. net'.asked = SubSeq(net.asked, 1, n)
    BY <2>1 DEF ViewFits, Fields
  <2>3. PICK asked \in Seq(Requests) : asked = net.asked
    BY DEF ViewFits, NetFits
  <2>4. Len(SubSeq(asked, 1, n)) = n /\ \A i \in 1 .. n : SubSeq(asked, 1, n)[i] = asked[i] /\ i \in 1 .. Len(asked)
    BY <2>1, <2>3
  <2>5. \A i \in 1 .. n : asked[i].kind = "replay" => asked[i].seq <= ref
    BY <2>3, <2>4 DEF Answers, AskedBehind
  <2> QED BY <1>3, <2>2, <2>3, <2>4, <2>5 DEF AskedBehind
<1>5. CacheInOrder' /\ ~HeldBack' /\ ~Behind'
  BY <1>3 DEF Answers, CacheInOrder, HeldBack, Behind
<1> QED BY <1>3, <1>4, <1>5 DEF Answers

LEMMA AnswerFirst == ViewInit => AnswerInv
<1> SUFFICES ASSUME ViewInit PROVE Answers
  BY DEF AnswerInv
<1>1. PICK f : f = Frame(1, "replace", 0, 1)
  OBVIOUS
<1>2. /\ agent = [rendered |-> 1, lastSeq |-> 1, cache |-> <<f>>] /\ net.link /\ net.asked = <<>> /\ pending = NoPending
      /\ f.seq = 1 /\ (net.up => ref = 1)
  BY <1>1 DEF ViewInit, Frame
<1>3. agent.cache = <<f>> /\ agent.lastSeq = 1 /\ Len(<<f>>) = 1 /\ <<f>>[1] = f /\ <<f>> # <<>> /\ 1 .. 1 - 1 = {}
      /\ 1 .. Len(<<>>) = {}
  BY <1>2
<1> QED BY <1>2, <1>3 DEF Answers, CacheInOrder, AskedBehind, HeldBack, Behind

LEMMA AnswerStep == ViewFits /\ AnswerInv /\ [ViewNext]_<<viewVars, way>> => AnswerInv'
<1> SUFFICES ASSUME ViewFits, AnswerInv, [ViewNext]_<<viewVars, way>> PROVE AnswerInv'
  OBVIOUS
<1>1. CASE UNCHANGED <<viewVars, way>>
  BY <1>1 DEF viewVars, AnswerInv, Calm, Answers, CacheInOrder, AskedBehind, HeldBack, Behind, NewsComes, Coming,
                ReplayAsked, ListAsked
<1>2. CASE ViewNext
  <2>1. way' = way
    BY <1>2 DEF ViewNext
  <2>2. SUFFICES ASSUME Calm, Answers PROVE Answers'
    BY <2>1 DEF AnswerInv, Calm
  <2>3. \A r \in Readers : Steps(r) => Answers'
    BY <2>1, <2>2, BeginAnswers, CapturedAnswers, SendAnswers DEF Steps
  <2> QED BY <1>2, <2>1, <2>2, <2>3, StillAnswers, SyncAnswers, ListAnswers, ArrivalAnswers, AskingAnswers, LostAnswers
          DEF ViewNext
<1> QED BY <1>1, <1>2

LEMMA AnswerHolds == ViewFits /\ AnswerInv /\ Calm => HeldForAnAnswer
<1> SUFFICES ASSUME ViewFits, AnswerInv, Calm, HeldBack
             PROVE  \/ \E i \in DOMAIN net.asked : net.asked[i].kind = "replay"
                    \/ \E r \in Readers : \/ reader[r].at = "capture" /\ reader[r].seq >= pending.target
                                          \/ Brings(reader[r].out)
                    \/ Brings(net.wire)
  BY DEF HeldForAnAnswer, HeldBack
<1>1. Coming(pending.target)
  BY DEF AnswerInv, Answers
<1>2. DOMAIN net.asked = 1 .. Len(net.asked)
  BY DEF ViewFits, NetFits
<1>3. CASE ReplayAsked
  BY <1>2, <1>3 DEF ReplayAsked
<1>4. ASSUME NEW S \in SUBSET (1 .. Len(net.wire)), Supported(net.wire, S, ref),
             NEW k \in S, net.wire[k].seq >= pending.target
      PROVE  Brings(net.wire)
  <2>1. DOMAIN net.wire = 1 .. Len(net.wire)
    BY AnswerFacts
  <2> QED BY <1>4, <2>1 DEF Brings, Supported
<1>5. ASSUME NEW r \in Readers, Ends(reader[r].out, pending.target) PROVE Brings(reader[r].out)
  <2>1. PICK out \in Seq(Frames) : out = reader[r].out
    BY AnswerFacts
  <2>2. out # <<>> /\ out[Len(out)].seq >= pending.target
    BY <1>5, <2>1 DEF Ends
  <2>3. Len(out) \in DOMAIN out /\ out[Len(out)] \in Frames
    BY <2>2
  <2>4. out[Len(out)].kind = "output"
    BY <2>3 DEF Frames
  <2> QED BY <2>1, <2>2, <2>3, <2>4 DEF Brings
<1> QED BY <1>1, <1>3, <1>4, <1>5 DEF Coming

\* A browser at rest is not behind, and shows the content of the last number.
LEMMA RestHolds == ViewFits /\ ShowsNumber /\ AnswerInv /\ Calm => RestsCaughtUp
<1> SUFFICES ASSUME ViewFits, ShowsNumber, AnswerInv, Calm, net.up, AtRest
             PROVE  view.seq = agent.lastSeq /\ view.content = agent.rendered
  BY DEF RestsCaughtUp
<1>1. Answers
  BY DEF AnswerInv
<1>2. net.asked = <<>> /\ net.wire = <<>> /\ \A r \in Readers : reader[r].at = "idle"
  BY DEF AtRest
<1>3. 1 .. Len(net.asked) = {} /\ 1 .. Len(net.wire) = {}
  <2>1. Len(<<>>) = 0 /\ 1 .. 0 = {}
    OBVIOUS
  <2> QED BY <1>2, <2>1
<1>4. ASSUME NEW target \in Int PROVE ~Coming(target)
  <2>1. \A r \in Readers : reader[r].out = <<>>
    BY <1>2 DEF ViewFits, AgentFits
  <2> QED BY <1>2, <1>3, <2>1 DEF Coming, ReplayAsked, Ends
<1>5. ~NewsComes
  BY <1>3, <1>4, AnswerFacts DEF NewsComes, ListAsked
<1>6. ~(ref < agent.lastSeq)
  BY <1>1, <1>5 DEF Answers, Behind
<1>7. view.seq = agent.lastSeq
  BY <1>6 DEF Calm, ViewFits, AgentFits, BrowserFits, Unknown
<1>8. PICK c \in [1 .. agent.lastSeq -> 1 .. pane.now] : ShowsRight(c)
  BY DEF ShowsNumber, Calm
<1>9. view.content = agent.rendered
  BY <1>1, <1>7, <1>8, AnswerFacts DEF ShowsRight, Answers, Unknown
<1> QED BY <1>7, <1>9

-----------------------------------------------------------------------------
(***************************************************************************)
(* All of it.                                                              *)
(***************************************************************************)
\* Whatever is lost on the way and whenever messages arrive, the types hold; a browser
\* whose React keeps up shows only contents the pane had, holds a replay back only for an
\* answer that is coming, and comes to rest with nothing less than the agent's last content
\* (App.tsx, the session messages; daemon.ts, handleReplay).
THEOREM ViewHolds == ViewSpec => []ViewInv
<1> DEFINE Inv == ViewFits /\ ShowsNumber /\ AnswerInv
<1>1. ViewInit => Inv
  BY FitsFirst, ShowsFirst, AnswerFirst
<1>2. Inv /\ [ViewNext]_<<viewVars, way>> => Inv'
  BY FitsStep, ShowsStep, AnswerStep
<1>3. Inv => ViewInv
  BY FitsTypes, ShowsContent, AnswerHolds, RestHolds DEF ViewInv
<1> QED BY <1>1, <1>2, <1>3, PTL DEF ViewSpec

=============================================================================
