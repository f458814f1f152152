-------------------------- MODULE SessionSelection --------------------------
(***************************************************************************)
(* Which session app/src/App.tsx shows: the one the user chose, the one    *)
(* the last page showed, or, with activeSelectionModeRef at "auto", the    *)
(* one that ranks first.                                                   *)
(*                                                                         *)
(* What the agent reports is rendered in a transition, what the user does  *)
(* at once.  React then applies the updates once more in the order in      *)
(* which they were made, on the state from before the first waiting one:   *)
(* an updater of session.list can run on a session that is no longer       *)
(* shown, and it writes to activeSelectionModeRef when it runs.            *)
(***************************************************************************)
EXTENDS Naturals, Sequences

CONSTANTS
  Sids,
  NoSid,
  Lists,       \* lists the agent may send: sequences of [sid, running], last active first
  Haste,       \* {}, or what may come early: "pick", "state"
  MaxReports,  \* bounds on the messages and on the acts of the user
  MaxActs

\* Besides a session the user may wish to stay at the list, or nothing in particular.
AtList == "list"
Anything == "anything"

ASSUME SelectionAssumption ==
  /\ NoSid \notin Sids /\ Sids \cap {AtList, Anything} = {}
  /\ Lists \subseteq Seq([sid : Sids, running : BOOLEAN])
  /\ MaxReports \in Nat /\ MaxActs \in Nat

VARIABLES
  desktop,     \* isDesktop: the window is at least 1024 wide
  sessions,    \* the list that is rendered
  active,      \* activeSid
  base,        \* activeSid before the first waiting update
  mode,        \* activeSelectionModeRef
  suppressed,  \* suppressMobileAutoSelectRef
  pinned,      \* pinnedSids
  connected,
  waiting,     \* updates not rendered yet, and what was rendered since the first
  answered,    \* the list has been sent since the page was loaded
  wish,        \* history: what the user wants to see
  reports, acts

selectionVars ==
  <<desktop, sessions, active, base, mode, suppressed, pinned, connected, waiting, answered, wish,
    reports, acts>>

SidsOf(list) == {list[i].sid : i \in DOMAIN list}

\* pickPreferredSession: running before exited, pinned before others, then the last active.
Outranks(list, i, j) ==
  \/ list[i].running /\ ~list[j].running
  \/ /\ list[i].running = list[j].running
     /\ \/ list[i].sid \in pinned' /\ list[j].sid \notin pinned'
        \/ (list[i].sid \in pinned' <=> list[j].sid \in pinned') /\ i < j
Preferred(list) ==
  list[CHOOSE i \in DOMAIN list : \A j \in DOMAIN list \ {i} : Outranks(list, i, j)].sid

Update(kind, list, sid) == [kind |-> kind, list |-> list, sid |-> sid]

\* sessions.filter: all but sid's.
Without(list, sid) ==
  LET kept[n \in 0 .. Len(list)] ==
        IF n = 0 THEN <<>>
        ELSE IF list[n].sid = sid THEN kept[n - 1] ELSE Append(kept[n - 1], list[n])
  IN  kept[Len(list)]

\* What an update makes of the list.
ListAfter(list, u) ==
  IF u.kind \in {"list", "clear"} THEN u.list
  ELSE IF u.kind = "state" THEN u.list \o Without(list, u.sid) ELSE list

\* Mutant of Applied: the updater of a list always goes back to "auto".
AppliedAlways(was, u) ==
  [list |-> ListAfter(was.list, u),
   active |-> IF u.kind \in {"set", "clear"} THEN u.sid
              ELSE IF u.kind = "list" /\ was.active \notin SidsOf(u.list) THEN NoSid ELSE was.active,
   mode |-> IF u.kind = "list" THEN "auto" ELSE was.mode]

\* What one update makes of list, activeSid and mode: a list without the session that is
\* shown takes it away.
Applied(was, u) ==
  LET gone == u.kind = "list" /\ was.active \notin SidsOf(u.list)
  IN  [list |-> ListAfter(was.list, u),
       active |-> IF u.kind \in {"set", "clear"} THEN u.sid ELSE IF gone THEN NoSid ELSE was.active,
       mode |-> IF gone THEN "auto" ELSE was.mode]

\* What all that wait make of it, in their order.
AppliedAll(was) ==
  LET after[n \in 0 .. Len(waiting)] ==
        IF n = 0 THEN was ELSE Applied(after[n - 1], waiting[n])
  IN  after[Len(waiting)]

\* The effect on [activeSid, connected, isDesktop, pinnedSidSet, sessions] after a commit.
\* The effect on [sessions] has dropped the pins of sessions that are not listed.
Committed(now) ==
  /\ sessions' = now.list
  /\ IF \/ ~connected' \/ now.list = <<>> \/ (~desktop' /\ suppressed')
        \/ now.active \in SidsOf(now.list) /\ now.mode # "auto"
     THEN active' = now.active /\ mode' = now.mode
     ELSE active' = Preferred(now.list) /\ mode' = "auto"

\* An update that is rendered at once; the effect's own choice is one, too.
Urgent(list, sid, newMode, update) ==
  /\ Committed([list |-> list, active |-> sid, mode |-> newMode])
  /\ IF waiting = <<>> THEN base' = active' /\ waiting' = <<>>
     ELSE /\ base' = base
          /\ waiting' = waiting \o update \o
               (IF active' = sid THEN <<>> ELSE <<Update("set", <<>>, active')>>)

\* The page is loaded with what the last one stored.  Pins do not survive: the effect on
\* [sessions] finds them before the first list is there.
SelectionInit ==
  /\ sessions = <<>> /\ waiting = <<>> /\ pinned = {}
  /\ connected = FALSE /\ answered = FALSE /\ reports = 0 /\ acts = 0
  /\ desktop \in BOOLEAN /\ suppressed \in BOOLEAN   \* a touch device suppresses
  /\ active \in (IF suppressed THEN {} ELSE Sids) \cup {NoSid} /\ base = active
  /\ mode = IF suppressed THEN "manual" ELSE IF active # NoSid THEN "restored" ELSE "auto"
  /\ wish = IF suppressed /\ ~desktop THEN AtList ELSE IF active # NoSid THEN active ELSE Anything

Told == reports < MaxReports /\ reports' = reports + 1 /\ UNCHANGED acts
Acted == acts < MaxActs /\ acts' = acts + 1 /\ UNCHANGED reports

\* session.list.result
List(list) ==
  /\ connected /\ Told
  /\ waiting' = Append(waiting, Update("list", list, NoSid))
  /\ answered' = TRUE
  /\ UNCHANGED <<desktop, sessions, active, base, mode, suppressed, pinned, connected, wish>>

\* session.created, session.state: new output, or the session is exited.
State(sid, running) ==
  /\ connected /\ Told
  /\ answered \/ "state" \in Haste
  /\ waiting' = Append(waiting, Update("state", <<[sid |-> sid, running |-> running]>>, sid))
  /\ UNCHANGED <<desktop, sessions, active, base, mode, suppressed, pinned, connected, answered, wish>>

\* The transition is rendered, with all that was reported.
RenderReports ==
  /\ waiting # <<>>
  /\ UNCHANGED <<desktop, suppressed, connected, answered, reports, acts>>
  /\ LET now == AppliedAll([list |-> sessions, active |-> base, mode |-> mode])
     IN  /\ pinned' = pinned \cap SidsOf(now.list)
         /\ Committed(now)
         /\ wish' = IF wish \in Sids /\ \E i \in DOMAIN waiting :
                         waiting[i].kind = "list" /\ wish \notin SidsOf(waiting[i].list)
                    THEN Anything ELSE wish
  /\ waiting' = <<>> /\ base' = active'

\* The user wants this one.
Choose(sid) ==
  /\ Acted
  /\ waiting = <<>> \/ "pick" \in Haste
  /\ suppressed' = FALSE
  /\ UNCHANGED <<desktop, pinned, connected, answered>>
  /\ Urgent(sessions, sid, "manual", <<Update("set", <<>>, sid)>>)
  /\ wish' = IF sid \in SidsOf(sessions) THEN sid ELSE Anything

\* selectSession
Select(sid) == sid \in SidsOf(sessions) /\ Choose(sid)

\* notification.onclick: the session may be gone.
ClickNotification(sid) == Choose(sid)

\* onBack
Back ==
  /\ Acted /\ ~desktop /\ active # NoSid
  /\ suppressed' = TRUE
  /\ UNCHANGED <<desktop, pinned, connected, answered>>
  /\ Urgent(sessions, NoSid, "manual", <<Update("set", <<>>, NoSid)>>)
  /\ wish' = AtList

\* togglePinnedSession
Pin(sid) ==
  /\ Acted /\ sid \in SidsOf(sessions)
  /\ pinned' = IF sid \in pinned THEN pinned \ {sid} ELSE pinned \cup {sid}
  /\ UNCHANGED <<desktop, suppressed, connected, answered, wish>>
  /\ Urgent(sessions, active, mode, <<>>)

\* Another binding or device: stay at an empty list, or open its first session.
Rebind(stay) ==
  /\ Acted
  /\ suppressed' = stay
  /\ UNCHANGED <<desktop, connected, answered>> /\ pinned' = {}
  /\ Urgent(<<>>, NoSid, IF stay THEN "manual" ELSE "auto", <<Update("clear", <<>>, NoSid)>>)
  /\ wish' = IF stay THEN AtList ELSE Anything

\* A pairing code is redeemed, or auth.ok tells another device.
Pair == Rebind(~desktop)

\* The device's id is edited: the effect on [connected, deviceId], on phones as well.
EditDevice == connected /\ Rebind(FALSE)

\* The connection is admitted, or lost.  What was rendered stays.
Connection ==
  /\ connected' = ~connected
  /\ IF connected THEN Acted ELSE UNCHANGED <<reports, acts>>
  /\ UNCHANGED <<desktop, suppressed, pinned, answered, wish>>
  /\ Urgent(sessions, active, mode, <<>>)

\* The window becomes wide or narrow: a wide one has no list to stay at.
Turn ==
  /\ Acted /\ desktop' = ~desktop
  /\ UNCHANGED <<suppressed, pinned, connected, answered>>
  /\ Urgent(sessions, active, mode, <<>>)
  /\ wish' = IF wish = AtList THEN Anything ELSE wish

SelectionNext ==
  \/ \E list \in Lists : List(list)
  \/ \E sid \in Sids : Select(sid) \/ ClickNotification(sid) \/ Pin(sid) \/ \E running \in BOOLEAN : State(sid, running)
  \/ RenderReports \/ Back \/ Pair \/ EditDevice \/ Connection \/ Turn

SelectionSpec == SelectionInit /\ [][SelectionNext]_selectionVars

-----------------------------------------------------------------------------
\* The page shows what the user wished, chosen by hand or shown before the page was
\* loaded, until the session leaves the list: whatever is reported of other sessions,
\* whatever is pinned, across lost connections.  A phone opens nothing by itself.
ChoiceStands ==
  /\ wish \in Sids => active = wish
  /\ wish = AtList => active = NoSid
=============================================================================
