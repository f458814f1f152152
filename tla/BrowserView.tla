---------------------------- MODULE BrowserView ----------------------------
(***************************************************************************)
(* One browser that looks at one session: app/src/App.tsx (the messages of *)
(* the agent, the sequence number that follows React's rendering, replay   *)
(* requests and their throttle, reconnects, the return to the page) with   *)
(* the agent's side of it (agent/src/daemon.ts: the frames of the loop and *)
(* handleReplay).                                                          *)
(*                                                                         *)
(* The pane's contents are numbered.  An append frame carries what leads   *)
(* from one content to a later one; a browser that adds it to any other    *)
(* content shows what the pane never showed, Garbled.  The loop's pass is  *)
(* one step (AgentOutput.tla has its awaits).  The browser and the agent   *)
(* each have a connection to the relay, which loses what it carries.       *)
(***************************************************************************)
EXTENDS Integers, Sequences

CONSTANTS
  Readers,      \* handleReplay calls that can be under way at once
  Limit,        \* OUTPUT_FRAME_LIMIT
  Garbled,      \* a content the pane never had
  NoPending,    \* replayRequestRef has no entry
  MaxPane,      \* bound on the contents of the pane
  Ways          \* the ways things may go

\* lags: messages may arrive before React has rendered the last ones.  steady: a replay
\* captures what the loop has framed, under its number.  impatient: the user reconnects by
\* hand, sooner than the throttle forgets.  watching: the browser is connected and up to
\* date at first, otherwise it comes later.  drops, cuts: how often the browser loses its
\* connection, and the agent does or is restarted.  queue: how many messages may be under
\* way when the user returns to the page; 0: never.
Way == [lags : BOOLEAN, steady : BOOLEAN, impatient : BOOLEAN, watching : BOOLEAN,
        drops : Nat, cuts : Nat, queue : Nat]

ASSUME ViewAssumption ==
  Limit \in Nat \ {0} /\ MaxPane \in Nat \ {0} /\ Garbled \notin Nat /\ Ways \subseteq Way

VARIABLES
  pane,     \* [now: the content's number, redrawn: the contents that are no continuation]
  agent,    \* [rendered, lastSeq, cache]; lastSeq is on disk
  reader,   \* the replays under way: [at, seq, out]
  net,      \* [up, link: the browser's and the agent's connection, asked: requests, wire: answers]
  view,     \* buffers and bufferSeqs of the session, with the updates React has queued
  ref,      \* bufferSeqsRef: the number of what is rendered
  pending,  \* replayRequestRef: [after, target, recent]
  page,     \* [known: lastSeq in sessions, active: the socket's listener knows the session as active]
  count,    \* [drops, cuts]
  way       \* the one of Ways things go here

viewVars == <<pane, agent, reader, net, view, ref, pending, page, count>>

Unknown == -1
Frame(seq, mode, from, to) == [kind |-> "output", seq |-> seq, mode |-> mode, from |-> from, to |-> to]
Word(kind, seq) == [kind |-> kind, seq |-> seq]
Idle == [at |-> "idle", seq |-> 0, out |-> <<>>]

\* broadcastBusinessMessage and sendBusinessMessageToClient: a closed connection drops the messages.
Told(messages) == IF net.up /\ net.link THEN [net EXCEPT !.wire = @ \o messages] ELSE net

\* The same on the browser's side, sendSecureMessage.
Asked(n, requests) == IF n.up /\ n.link THEN [n EXCEPT !.asked = @ \o requests] ELSE n

\* pushOutputFrame
Push(frame) ==
  LET all == Append(agent.cache, frame)
  IN  SubSeq(all, IF Len(all) > Limit THEN Len(all) - Limit + 1 ELSE 1, Len(all))

\* The loop has framed the session's first content.
ViewInit ==
  /\ way \in Ways
  /\ pane = [now |-> 1, redrawn |-> {1}]
  /\ agent = [rendered |-> 1, lastSeq |-> 1, cache |-> <<Frame(1, "replace", 0, 1)>>]
  /\ reader = [r \in Readers |-> Idle]
  /\ net = [up |-> way.watching, link |-> TRUE, asked |-> <<>>, wire |-> <<>>]
  /\ pending = NoPending
  /\ IF way.watching
     THEN /\ view = [content |-> 1, seq |-> 1]
          /\ ref = 1
          /\ page \in [known : {1}, active : BOOLEAN]
     ELSE /\ view = [content |-> 0, seq |-> Unknown]
          /\ ref = Unknown
          /\ page = [known |-> Unknown, active |-> FALSE]
  /\ count = [drops |-> 0, cuts |-> 0]

-----------------------------------------------------------------------------
\* The pane and the agent.
PaneChanges ==
  /\ pane.now < MaxPane
  /\ \E redrawn \in {pane.redrawn, pane.redrawn \cup {pane.now + 1}} :
       pane' = [now |-> pane.now + 1, redrawn |-> redrawn]
  /\ UNCHANGED <<agent, reader, net, view, ref, pending, page, count>>

\* A pass of the loop that finds new content: deriveOutputFrame, the cache, the messages.
SyncSession ==
  LET continues == agent.rendered # 0 /\ \A p \in agent.rendered + 1 .. pane.now : p \notin pane.redrawn
      seq == agent.lastSeq + 1
      frame == IF continues THEN Frame(seq, "append", agent.rendered, pane.now)
                            ELSE Frame(seq, "replace", 0, pane.now)
  IN
  /\ agent.rendered # pane.now
  /\ agent' = [rendered |-> pane.now, lastSeq |-> seq, cache |-> Push(frame)]
  /\ net' = Told(<<frame, Word("state", seq)>>)
  /\ UNCHANGED <<pane, reader, view, ref, pending, page, count>>

\* session.list
ListAnswered ==
  /\ net.asked # <<>> /\ Head(net.asked).kind = "list"
  /\ net' = [Told(<<Word("list", agent.lastSeq)>>) EXCEPT !.asked = Tail(@)]
  /\ UNCHANGED <<pane, agent, reader, view, ref, pending, page, count>>

\* Mutant of Continues: a missing frame is overlooked.
ContinuesAcrossGap(frames, after) == frames # <<>> /\ (after < 0 => Head(frames).mode = "replace")

\* handleReplay: do the cached frames continue what the browser has?
Continues(frames, after) ==
  /\ frames # <<>>
  /\ Head(frames).seq <= after + 1
  /\ after < 0 => Head(frames).mode = "replace"

\* The cached frames with a greater number.
CachedAfter(after) ==
  LET kept[n \in 0 .. Len(agent.cache)] ==
        IF n = 0 THEN <<>>
        ELSE IF agent.cache[n].seq > after THEN Append(kept[n - 1], agent.cache[n]) ELSE kept[n - 1]
  IN  kept[Len(agent.cache)]

\* handleReplay: from the cache ...
ReplayBegin(r) ==
  LET after == Head(net.asked).seq
      frames == CachedAfter(after)
  IN
  /\ net.asked # <<>> /\ Head(net.asked).kind = "replay"
  /\ reader[r].at = "idle"
  /\ net' = [net EXCEPT !.asked = Tail(@)]
  /\ reader' = [reader EXCEPT ![r] = IF Continues(frames, after)
                                     THEN [at |-> "send", seq |-> 0, out |-> frames]
                                     ELSE [at |-> "capture", seq |-> agent.lastSeq, out |-> <<>>]]
  /\ UNCHANGED <<pane, agent, view, ref, pending, page, count>>

\* ... or with a frame of what the pane shows, under the number read before.
ReplayCaptured(r) ==
  LET seq == IF way.steady THEN agent.lastSeq ELSE reader[r].seq
      frame == Frame(seq, "replace", 0, pane.now)
  IN
  /\ reader[r].at = "capture"
  /\ way.steady => agent.rendered = pane.now
  /\ agent' = [agent EXCEPT !.cache = Push(frame)]
  /\ reader' = [reader EXCEPT ![r] = [at |-> "send", seq |-> seq, out |-> <<frame>>]]
  /\ UNCHANGED <<pane, net, view, ref, pending, page, count>>

ReplaySend(r) ==
  LET out == reader[r].out IN
  /\ reader[r].at = "send"
  /\ net' = Told(<<Head(out)>>)
  /\ reader' = [reader EXCEPT ![r] = IF Len(out) > 1 THEN [@ EXCEPT !.out = Tail(out)] ELSE Idle]
  /\ UNCHANGED <<pane, agent, view, ref, pending, page, count>>

-----------------------------------------------------------------------------
\* Mutant of Held: requests are held back however long ago the last one was.
HeldForever(target) == pending # NoPending /\ pending.after = ref /\ pending.target >= target

\* requestReplayForTarget: what holds a request back, what becomes of
\* replayRequestRef, and the requests sent.
Held(target) == /\ pending # NoPending
                /\ pending.after = ref /\ pending.target >= target /\ pending.recent

RequestReplayForTarget(target) ==
  IF ref >= target THEN [pending |-> NoPending, requests |-> <<>>]
  ELSE IF Held(target) THEN [pending |-> pending, requests |-> <<>>]
  ELSE [pending |-> [after |-> ref, target |-> target, recent |-> TRUE],
        requests |-> <<Word("replay", ref)>>]

\* requestSessions, and what the active session misses: after opening a connection, after
\* auth.ok, and on return to the page.
RequestMissing ==
  IF page.known = Unknown
  THEN [pending |-> pending, requests |-> <<Word("list", 0), Word("replay", ref)>>]
  ELSE LET replay == RequestReplayForTarget(page.known)
       IN  [replay EXCEPT !.requests = <<Word("list", 0)>> \o @]

\* The request r is made, on the connection n.
Make(n, r) == net' = Asked(n, r.requests) /\ pending' = r.pending
MakeNone(n) == net' = n /\ UNCHANGED pending

\* What a message does, n being the connection without it.
Accepted(n, m) ==
  /\ view' = [content |-> IF m.mode = "replace" \/ view.content = m.from THEN m.to ELSE Garbled,
              seq |-> m.seq]
  /\ ref' = IF way.lags THEN ref ELSE m.seq
  /\ pending' = IF pending # NoPending /\ m.seq >= pending.target THEN NoPending ELSE pending
  /\ net' = n
  /\ UNCHANGED page

\* Mutant of Missed: a gap is not noticed.
MissedNone(m) == FALSE

Missed(m) == m.mode = "append" /\ m.seq # ref + 1

\* session.output
HandleOutput(n, m) ==
  IF m.seq < ref \/ (m.seq = ref /\ m.mode # "replace")
  THEN MakeNone(n) /\ UNCHANGED <<view, ref, page>>
  ELSE IF Missed(m)
  THEN Make(n, RequestReplayForTarget(m.seq)) /\ UNCHANGED <<view, ref, page>>
  ELSE Accepted(n, m)

\* session.state: the listener of the socket may not know which session is active.
HandleState(n, m) ==
  /\ page' = [page EXCEPT !.known = m.seq]
  /\ IF ref >= m.seq \/ page.active THEN Make(n, RequestReplayForTarget(m.seq)) ELSE MakeNone(n)
  /\ UNCHANGED <<view, ref>>

\* session.list.result
HandleList(n, m) ==
  /\ page' = [page EXCEPT !.known = m.seq]
  /\ IF view.seq >= m.seq /\ ref < m.seq
     THEN net' = Asked(n, <<Word("replay", ref)>>)
          /\ pending' = [after |-> ref, target |-> m.seq, recent |-> TRUE]
     ELSE Make(n, RequestReplayForTarget(m.seq))
  /\ UNCHANGED <<view, ref>>

\* auth.ok
HandleAuth(n) ==
  /\ IF page.active THEN Make(n, RequestMissing) ELSE Make(n, [pending |-> pending, requests |-> <<Word("list", 0)>>])
  /\ UNCHANGED <<view, ref, page>>

Receive ==
  LET m == Head(net.wire)
      n == [net EXCEPT !.wire = Tail(@)]
  IN
  /\ net.wire # <<>>
  /\ \/ m.kind = "output" /\ HandleOutput(n, m)
     \/ m.kind = "state" /\ HandleState(n, m)
     \/ m.kind = "list" /\ HandleList(n, m)
     \/ m.kind = "auth" /\ HandleAuth(n)
  /\ UNCHANGED <<pane, agent, reader, count>>

\* React renders; the effect of bufferSeqs.
Render ==
  /\ ref # view.seq
  /\ ref' = view.seq
  /\ UNCHANGED <<pane, agent, reader, net, view, pending, page, count>>

\* 1.5 s after the request.
Expire ==
  /\ pending # NoPending /\ pending.recent
  /\ pending' = [pending EXCEPT !.recent = FALSE]
  /\ UNCHANGED <<pane, agent, reader, net, view, ref, page, count>>

-----------------------------------------------------------------------------
\* scheduleReconnect: the first attempt comes 2 s after the loss.
Patient == IF pending = NoPending THEN TRUE ELSE ~pending.recent

\* connect, up to the effect of `connected': the relay greets with auth.ok.
Connect ==
  /\ ~net.up
  /\ way.impatient \/ Patient
  /\ Make([net EXCEPT !.up = TRUE, !.wire = <<Word("auth", 0)>>], RequestMissing)
  /\ \E active \in BOOLEAN : page' = [page EXCEPT !.active = active]
  /\ UNCHANGED <<pane, agent, reader, view, ref, count>>

\* The browser's connection is lost; some of its requests have passed the relay.
Drop ==
  /\ net.up /\ count.drops < way.drops
  /\ \E n \in 0 .. Len(net.asked) :
       net' = [net EXCEPT !.up = FALSE, !.asked = SubSeq(@, 1, n), !.wire = <<>>]
  /\ count' = [count EXCEPT !.drops = @ + 1]
  /\ UNCHANGED <<pane, agent, reader, view, ref, pending, page>>

\* The agent's is, or the agent is restarted and its loop runs before it is connected.
LinkLost ==
  /\ net.link /\ count.cuts < way.cuts
  /\ net' = [net EXCEPT !.link = FALSE, !.asked = <<>>]
  /\ \/ UNCHANGED <<agent, reader>>
     \/ /\ agent' = [agent EXCEPT !.rendered = 0, !.cache = <<>>]
        /\ reader' = [r \in Readers |-> Idle]
  /\ count' = [count EXCEPT !.cuts = @ + 1]
  /\ UNCHANGED <<pane, view, ref, pending, page>>

\* relay.state tells the browser, which only shows it.
LinkBack ==
  /\ ~net.link
  /\ net' = [net EXCEPT !.link = TRUE]
  /\ UNCHANGED <<pane, agent, reader, view, ref, pending, page, count>>

\* recoverForegroundState
Look ==
  /\ net.up /\ Len(net.asked) + Len(net.wire) < way.queue
  /\ Make(net, RequestMissing)
  /\ UNCHANGED <<pane, agent, reader, view, ref, page, count>>

-----------------------------------------------------------------------------
Steps(r) == ReplayBegin(r) \/ ReplayCaptured(r) \/ ReplaySend(r)

ViewNext ==
  /\ \/ PaneChanges \/ SyncSession \/ ListAnswered
     \/ \E r \in Readers : Steps(r)
     \/ Receive \/ Render \/ Expire
     \/ Connect \/ Drop \/ LinkLost \/ LinkBack \/ Look
  /\ UNCHANGED way

ViewSpec == ViewInit /\ [][ViewNext]_<<viewVars, way>>

\* The loop and the handlers run, what is sent on a connection that stays arrives, lost
\* connections come back, and the user who returns to the page does so again and again.
ViewFairSpec ==
  /\ ViewSpec
  /\ WF_viewVars(SyncSession) /\ WF_viewVars(ListAnswered)
  /\ WF_viewVars(\E r \in Readers : ReplayBegin(r))
  /\ \A r \in Readers : WF_viewVars(ReplayCaptured(r)) /\ WF_viewVars(ReplaySend(r))
  /\ WF_viewVars(Receive) /\ WF_viewVars(Render) /\ WF_viewVars(Expire)
  /\ WF_viewVars(Connect) /\ WF_viewVars(LinkBack) /\ WF_viewVars(Look)

-----------------------------------------------------------------------------
\* Types.  No answer outlives the connection it was sent on, the browser is
\* never ahead of the number on the agent's disk, the cache keeps to its limit.
ViewTypeOK ==
  /\ way \in Ways
  /\ pane \in [now : 1 .. MaxPane, redrawn : SUBSET (1 .. MaxPane)]
  /\ agent.rendered \in 0 .. pane.now /\ agent.lastSeq \in Nat /\ Len(agent.cache) <= Limit
  /\ \A r \in Readers : /\ reader[r].at \in {"idle", "capture", "send"}
                        /\ reader[r].at = "send" <=> reader[r].out # <<>>
  /\ net.up \in BOOLEAN /\ net.link \in BOOLEAN
  /\ ~net.up => net.wire = <<>>
  /\ ~net.link => net.asked = <<>>
  /\ view.content \in 0 .. pane.now \cup {Garbled}
  /\ view.seq \in Unknown .. agent.lastSeq /\ ref \in Unknown .. agent.lastSeq
  /\ pending = NoPending \/ pending.after < pending.target
  /\ page.known \in Unknown .. agent.lastSeq

\* The browser shows a content the pane has had: frames are combined only as they
\* were derived.  Gaps in the numbers, answers from the cache, replays with the
\* pane's content and live frames all meet at the check of the numbers.
ViewIsSnapshot == view.content # Garbled

\* A replay is held back only while an answer that brings the target is coming:
\* the throttle does not take a request that was lost for one under way.
Brings(frames) == \E i \in DOMAIN frames : frames[i].kind = "output" /\ frames[i].seq >= pending.target
HeldForAnAnswer ==
  net.up /\ pending # NoPending /\ pending.recent /\ pending.after = ref =>
    \/ \E i \in DOMAIN net.asked : net.asked[i].kind = "replay"
    \/ \E r \in Readers : \/ reader[r].at = "capture" /\ reader[r].seq >= pending.target
                          \/ Brings(reader[r].out)
    \/ Brings(net.wire)

\* A browser at rest, with nothing asked, under way or in a handler's hands, shows what
\* the agent rendered last: every way in which it can fall behind is followed by a list, a
\* replay or a frame that tells it so, even if requests are held back.
AtRest == net.asked = <<>> /\ net.wire = <<>> /\ \A r \in Readers : reader[r].at = "idle"
RestsCaughtUp == net.up /\ AtRest => view.seq = agent.lastSeq /\ view.content = agent.rendered

\* All of it: while React keeps up and replays are steady the browser shows only contents
\* the pane had; if besides the agent stays connected and the user is patient, requests are
\* held back for answers only and the browser comes to rest with the last content.
Calm == ~way.lags /\ way.steady /\ ~way.impatient /\ way.cuts = 0
ViewInv ==
  /\ ViewTypeOK
  /\ ~way.lags /\ way.steady => ViewIsSnapshot
  /\ Calm => HeldForAnAnswer /\ RestsCaughtUp

\* The browser ends up with the number of the last frame, whatever was lost on the
\* way: by a gap it notices, a state it hears of, or a reconnect.
SeqCaughtUp == <>[](view.seq = agent.lastSeq)

\* ... and with the content the pane has, if replays are steady.
ViewCaughtUp == SeqCaughtUp /\ <>[](way.steady => view.content = pane.now)
=============================================================================
