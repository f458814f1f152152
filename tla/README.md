# A TLA+ model of TermPilot

TermPilot lets a browser watch and drive the tmux sessions of a computer. Three
programs take part: the **agent** on the computer (`agent/`), the **relay**
(`relay/`) and the **browser app** (`app/`). This directory holds TLA+ modules
of their core logic, the TLC configurations that check them on small instances
and TLAPS proofs of the properties that matter most.

The order of this document: the system, what each module models, the runs, the
fairness, the proofs, the further instances in which code and docs disagree,
what is left out, and the plan.

## 1. The system

| part | state | operations | interacts with |
| --- | --- | --- | --- |
| relay stores (`relay/src/auth-store.ts`) | pairing codes, access grants | create code, redeem, look up (and note the use), revoke, list | called by the relay's HTTP and WebSocket handlers; memory, SQLite or PostgreSQL |
| relay server (`relay/src/server.ts`) | `agents`: device → connection, `clients`: set of browser connections | agent connect/close/message, browser admission/close/message, pairing and revocation endpoints | stores; agents and browsers over WebSocket |
| agent daemon (`agent/src/daemon.ts`) | per session `runtimeState` and `outputBuffers`; `grantPublicKeys`; socket | sync loop, handlers of list/replay/create/input/resize/kill, refresh of the keys, connect loop | tmux, state file, relay |
| agent state store (`agent/src/state-store.ts`) | session records, device id and key, runtime file | locked read-modify-write of the state file, plain files for the rest | agent daemon and every CLI command |
| tmux backend (`agent/src/tmux-backend.ts`) | none of its own | one `tmux` process per command | tmux |
| agent and relay CLI (`agent/src/cli.ts`, `relay/src/cli.ts`) | runtime files with a pid | start, stop, status, foreground; pair, revoke; create, kill | processes, files, relay, tmux |
| browser app (`app/src/App.tsx`) | sessions, buffers, sequence numbers, pending replays, socket, binding, reconnect timer; the session shown, pins; the build and the reload marker | pair, connect, apply messages, ask for replays; choose a session; reconcile the build | relay; agent through encrypted envelopes |
| browser terminal (`app/src/components/XtermTerminal.tsx`) | the snapshot drawn, notes of forwarded keys, letters' size | draw, forward keys, fit | xterm; the app passes snapshots down and sizes and keys up |

A browser pairs with a code the agent asked the relay for, and receives an
access token. It then connects with the token; the relay looks the grant up,
admits the connection and forwards end-to-end encrypted envelopes between the
browser and the device's agent. The agent captures each session's pane, compares
it with what it rendered last and sends numbered frames, which the browser
applies in order and completes by asking for replays.

What is hard about it:

* **Awaits.** Every process is a single-threaded event loop, so code between two
  `await`s is atomic and everything else interleaves: admission and revocation at
  the relay; the sync loop and the handlers at the agent; refreshes of the keys.
* **Failures.** Agents are replaced while their old connection lingers; sockets
  close during admission; the agent restarts with its records on disk and its
  frames lost; database transactions abort between queries; daemons are slow to
  stop, crash, or are started twice.
* **Stale copies.** The agent derives a frame from a buffer it noted earlier and
  writes metadata computed from an older record; the browser compares frames with
  a number that lags behind, and a timer calls a function that remembers an
  older token; the relay acts on a grant it has read before; an updater React runs
  late decides about a session that is no longer shown.
* **Other people's event orders.** xterm parses later than it is written to, a key
  is up to four events, React renders what the user does before what was reported
  earlier.
* **Loops through several parties.** The terminal's size decides the window's, the
  window the snapshot, the snapshot the terminal's size; a build that differs
  reloads the page, which may find the difference again.

What makes each part correct:

* store: a code becomes at most one token, of the code's device; revoked is for good;
* relay: the open connection of a device's agent is the one routed to; browsers
  are told the truth about their device; a revoked browser is cut off; envelopes
  stay in the scope of their token;
* output: frames applied in order give a screen the pane had; the newest frame
  shows the pane once it rests; the agent takes nothing for rendered that its browsers are not sent;
* lifecycle: an exited session is gone and stays exited, its end is noticed and
  told; nothing is cleaned up unannounced;
* browser: it shows only what the pane showed, asks again for whatever it missed,
  and comes back when its connection is lost;
* terminal: it shows the snapshot, loses no key and forwards none more often than its
  events say, and its size comes to be the window's;
* page: it stays with the session the user chose, and with the build that is
  served, without reloading for ever;
* processes: one daemon, which the commands find and can stop;
* state file: changes of several processes are all kept;
* keys: a browser has the key the agent uses, and the agent the browser's.

## 2. Modules

| module | models |
| --- | --- |
| `PairingLedger` | the abstract promise of the store: issue, redeem once, revoke for good |
| `AuthStore` | memory and SQLite store, one step per operation |
| `PgAuthStore` (extends `AuthStore`) | PostgreSQL store, the redemption query by query |
| `Relay` (extends `AuthStore`) | the relay's connections composed with its store |
| `AgentOutput` | output of one running session: sync loop, input, resize, replay |
| `SessionLifecycle` | one session from creation to end: exit detection, residual sessions, kill from anywhere |
| `BrowserView` | one browser that looks at one session, composed with the agent's frames and replays |
| `AppConnection` | a page's sockets, timers, renders and binding, with the relay it talks to |
| `BackgroundProcess` | the commands and daemons of agent and relay around the runtime file |
| `SecureChannel` | the device key, the pairing codes and the agent's cache of browser keys |
| `StateFile` | the abstract promise of the state store: a change of `state.json` is one step |
| `StateLock` | the lock file around the changes of `state.json` |
| `TerminalScreen` | drawing snapshots into xterm |
| `TerminalKeys` | forwarding keys that cause several events each |
| `TerminalSize` | page, agent and tmux agreeing on a size |
| `SessionSelection` | which session the page shows |
| `AppBuild` | keeping the page's build the relay's |
| `Relay_proofs` | theorems about `AuthStore`, `PgAuthStore` and `Relay` |
| `Machine_proofs` | theorems about `StateLock` and `BackgroundProcess` |
| `Browser_proofs` | theorems about `TerminalKeys`, `TerminalScreen`, `TerminalSize`, `SessionSelection` and `AppBuild` |
| other `*_proofs` | theorems about the module of that name |
| `MC_*` | values of the constants for TLC |

### AuthStore, PgAuthStore, PairingLedger

`pairings` and `grants` are the two tables (or maps) as sets of records;
timestamps that are never read back are left out. `now` is a clock of a few
ticks, so a code expires before, between or after other operations.
`redemptions` is a history variable: which code became which token.
`UniqueCodes` tells the SQL stores, whose insert fails on a code that exists,
from the memory store, whose `Map.set` replaces the row. `LegacyGrants` are rows
of a relay older than the key columns, which have no browser key.

In the memory and SQLite stores an operation never gives up the event loop (the
SQLite driver is synchronous and redemption runs in a transaction), so it is one
step. In `PgAuthStore` a redemption is begin, `select ... for update`, check,
update, insert, commit, with an abort possible at every point. Both are shown to
implement `PairingLedger` (`KeepsLedger`, `PgKeepsLedger`).

### Relay

Variables are the server's `agents` and `clients`, the socket states, and `told`:
whether the last `relay.state` a browser was sent listed its device. A handler is
split at its `await`s: admission is `ClientConnect`, `ClientLookup` (the store),
`ClientAdmit` or `ClientRefuse`; revocation is `RevokeStore`, `RevokeDisconnect`.
`AsyncStore = FALSE` is the memory and SQLite stores, where the continuation is a
microtask that nothing can precede (`Idle` holds everything else back), `TRUE` is
PostgreSQL. A close event may come long after `close()` was called ("closing").
An agent names its own device in its envelopes, as `daemon.ts` does.

### AgentOutput

One session that keeps running. `pane` is what tmux would answer; it may change
at any time. Each task (the loop, one per request) walks through `capture` (tmux
command under way), `answered`, `cursor`, `send` and, for the loop, `commit`. A
frame is modelled by what it shows: an append frame carries its `base` (the
buffer it was derived from) and the `screen` it should give, so applying frames
in order is right exactly when each `base` is the `screen` before. `made` is the
history of numbered frames, `shown` that of the screens this agent has broadcast since
it started: a task numbers a frame, notes what it rendered (`runtimeState`) and sends
it in steps of their own, in an order that is not the same for the loop and for inputs
and resizes, and may be stopped between any two. A broadcast is the agent's act: with
no socket it goes nowhere (`daemon.ts:903`), which is `BrowserView`'s matter. `Restart` ends the agent in the middle of anything:
only `lastSeq`, which is on disk, survives. The model commits right after the
broadcast and lets the loop start over at once, while the program still sends a
`session.state` first: it allows more, not less.

### SessionLifecycle

One session, its record on disk, the agent's `runtimeState` of it, and a task for
the loop, for each request and for each CLI command (`OfAgent` tells which die
with the agent). The steps are the tmux commands and the messages: everything the
code awaits. A task keeps its own copy of the record (`snap`); an update starts
from what is on disk, as `updateSession` does under its lock. Output is a counter
and attachment a flag; `Metadata` is what the governance of residual sessions
computes. An input or a resize that finds a new capture says which status the record
has, and writes it into `runtimeState` (`NewOutput`); a resize that finds nothing new
writes the one of its copy, from before its awaits (`NothingNew`); each of them, and a
replay, makes the entry of a session the loop has not come to (`Note`). A tick of the clock is an hour and comes only when every task rests and
the loop has passed, since awaits take seconds and the thresholds hours.
`HasFails` lets `has-session` fail for a session that is there: the code cannot
tell the two apart. `Stop` ends the agent in the middle of anything.

### BrowserView

The pane's contents are numbered and an append frame leads from one content to
another; a browser that adds it to anything else shows `Garbled`. `view` is what
the page will show once React has rendered, `ref` the number in `bufferSeqsRef`,
which is compared with the next message and follows only with a render. `net` has
both connections: what is under way on one is lost with it, and what the agent
sends without one goes nowhere. The loop's pass is one step here, as
`AgentOutput` has its awaits. A `way` says how things go, and its fields name what
the code does not guarantee: `lags` (messages come faster than React renders),
`steady` (a replay captures what the loop has framed under its number), `impatient`
(a user reconnects by hand sooner than the throttle of 1.5 s forgets a lost
request), `watching` (the browser is up to date at first), how often the browser
loses its connection (`drops`) and the agent its own (`cuts`), and whether the user
returns to the page (`queue`). `Ways` is the set of them an instance allows, so one
theorem speaks of all.

### AppConnection

A listener or timer belongs to the render whose `connect()` made it and sees that
render's token for ever (`seen`); state set in an event is on the page only after
`Render`, whose effects may connect. A socket has the events still to come, so the
close event of a replaced one may come after its successor was opened. `Reload`
loses everything but `localStorage`. The relay grants, refuses and revokes
tokens. `InOrder` says that older sockets close before younger ones, which the
network usually but not always does. `left` is history: the user disconnected.

### BackgroundProcess

The agent's and the relay's commands have one shape and are checked together;
`program` says which it is. A step is one access to the runtime file, a process
or the network: a start reads, spawns and saves; a stop reads, signals, waits and
kills. What makes a second daemon give way differs: the relay's port for one, for
the other the relay's AGENT_REPLACED, after which a daemon does not come back.
`overlap` is history: a command ran beside another or beside a daemon nobody
recorded. Properties of commands typed one after the other assume its absence.

### SecureChannel

The first part is the device key: generated where no file is found, by the daemon
or by a CLI command; a code carries the CLI's, the daemon decrypts with its own.
The second is `grantPublicKeys`: `refreshGrantPublicKeys` is started by the loop,
by each message handler that misses a key, and on connecting, and the answer of
each replaces the map, however old. `owed` is history: who was known when
a broadcast began and has not been dealt with. A refresh that fails leaves it, and the
broadcast goes on with the cache as it is (`daemon.ts:253`, `893`). `older` is history,
too: whom among them an older answer took out of the cache since the broadcast began.
Browsers stand for their tokens and key pairs; that a browser reads an answer means that
it holds the daemon's key.

### StateLock

The daemon and the CLI's commands are processes that change one file. A step is one
call of the file system: open with `wx`, stat, remove, read, rename, remove. Each
process adds a change of its own, so the file is the set of processes whose change
it holds, and a lost update is a set that has become smaller. The lock's age is
counted up to one more than `LOCK_STALE_MS`. `Prompt` says that nobody is slow
under the lock, `ReadFails` that reading the file may fail, which the code takes
for an empty state. `robbed` is history: a lock in use was removed; `crowd`: a
process came to remove a stale lock while another was about to. The other
modules take a change of the file as one step, which is `StateFile`. `KeepsChanges`
says that every step of `StateLock` is one of `StateFile`'s or leaves the file alone,
unless a lock in use was removed: who saves has read all that was saved before.

### TerminalScreen, TerminalKeys, TerminalSize

Three questions about `XtermTerminal.tsx` that share no state, so each is a module
of its own and `MC_Terminal` runs them as three parts.

In `TerminalScreen` a snapshot is a sequence of cells. What React passes down
(`page`, and `shown` behind `useDeferredValue`), what was drawn last (`expected`),
what xterm has not parsed (`writes`) and what it shows (`screen`) are kept apart.
`Frame` renders text and cursor together; a frame without a cursor, or one only
the deferred value of which changed, appends to what is drawn. `whole` and
`hurried` are history.

In `TerminalKeys` a key causes the events that come after keydown or input
(`due`); notes last for `KeyTime` and `TextTime` ticks. What xterm and the browser do
between the page's handlers is external: xterm cancels the keydown of most letters,
leaves that of space and capitals (`Late`) to the keypress, and reports Enter's
keypress, which the custom handler lets pass, by `onData`; it cancels no keypress, so
`beforeinput` follows. Enter of a keyboard therefore comes as `enter` and as "\r", and
space and capitals come again from `beforeinput`, whose note `onData` has spent; the
note that `beforeinput` leaves makes letters typed within 160 ms come twice. `typed`
is history and says of each key where its forwarding began and how often it should
come, so `KeysArrive` says what is lost, doubled or out of order key by key, and not
only where nothing is. `Habits` are what keyboards and users may do beyond one key at
a time.

`TerminalSize` joins three programs: the page fits, shrinks its letters and sends
sizes, the agent sizes the window or leaves it to a local client, and what it
captures decides what the page needs. `Calm` says that the agent captures when no
resize or frame is on its way. `disturbed` is history: a local client took the
window, or a size was lost.

### SessionSelection

What is reported waits for its transition (`waiting`), what the user does is
rendered at once and applied once more when the transition is: `base` is the
state of before, and `Applied` the updaters, one of which writes to
`activeSelectionModeRef`. `wish` is history: what the user chose, or the page
showed before it was loaded. `Haste` allows what the run excludes: the user
chooses while something waits, a session's state comes before the first list.

### AppBuild

The relay reads its files at each request and its version once; the page compares
both with its own, with several checks under way. Two builds may have the same id
and differ in their script. `RelayIds`: the environment may set an id no build has.

## 3. Runs

| run | instance | shows |
| --- | --- | --- |
| `relay_async` | 2 devices, 3 agent connections (2 of one device), 2 browsers, 3 tokens, a legacy grant, expiry; a store that answers in later events | the store refines its ledger under the relay's handlers (single use, revoked for good); registration, `relay.state`, scope |
| `relay_sync` | the same with the memory store: two codes that may be replaced | revocation cuts off, no ghost in `clients` |
| `pg_auth_store` | 2 concurrent redemptions, 2 codes, 2 tokens, aborts | the check under the row lock is never stale, refinement, every redemption is answered |
| `agent_output` | 3 screens, cache of 2; a replay with 2 changes and 1 restart, or an input and a resize beside the loop with 1 change | frames chain, what the agent takes for rendered it has broadcast or is about to, it comes to render the pane, the cache keeps to its limit |
| `session_lifecycle` | a managed command with kills by a browser and the CLI, attachments, output and 4 hours, or create, input and list of a browser with 1 stop of the agent, or create, resize and replay | exited is gone and final, cleanup only after a warning, every end is noticed, and told last unless a request that read the record before has still to answer |
| `browser_view` | cache of 2, 2 contents; 1 lost connection, or lagging numbers with 2 losses or restarts of the agent and a user who returns | only contents the pane had, requests held back only for an answer, caught up |
| `app_connection` | 2 tokens, 3 sockets, 2 timers, 2 losses, 4 acts of the user | one open socket, a true phase, no page forgotten, staying off, keeping the binding, reconnecting |
| `background_process` | 4 processes, 4 commands in 2 terminals, 1 crash, 1 lost connection | one daemon, recorded, gone after a stop; several settle to one |
| `secure_channel` | 2 browsers, 2 keys, a terminal, a handler beside the loop, 2 pairings | codes fit, requests answered, nobody left out unless an older answer and a failed refresh meet, revoked keys forgotten |
| `state_lock` | 3 processes, 1 crash, stale after 2 ticks | processes exclude each other, saved changes are kept, a dead owner's lock is removed, and one in use only where two remove at once |
| `terminal` | 5 snapshots of two cells and an inverse one, 4 changes; 2 special keys, 2 letters of which one is reported at its keypress, 6 keys; 3 widths, 2 sizes of letters, 5 events | the snapshot and its cursor are drawn, no key is lost and none comes more often than its events say, sizes come to rest |
| `page` | 3 builds with 2 ids, 2 checks, 4 events; 3 sessions, 4 lists, 3 reports, 2 acts | the user's choice stands, the page settles on the build that is served |

Three runs have scenes, as one set of bounds does not suit them: `agent_output`,
`session_lifecycle` and `browser_view` begin in or keep to one of those that the
row separates by "or" (for `browser_view` they are the two `Ways` of its
`Scenes`), and `TimelyBrowserLearns`, `ViewInv` and `ViewCaughtUp` say of each scene
what holds there. `terminal` and `page` have parts that do not share state;
`SizeReachedHere` and `BuildSettlesHere` are `SizeReached` and `BuildSettles` of
the part they are about. Both have a safety half (`SizeHeld`: with no size on its way
the window has the page's; `NeverHeldBack`: the marker never stops a reload that is
needed) and one that needs fairness.

Type invariants (and `KeysUnique`, `MarkedIffRedeemed`, `NoResurrection`,
`NewestIsRendered`) that section 5 proves for every value of the constants are
not repeated in the runs. An invariant called `...Inv` in a run joins the types of
its module with what belongs together: `TxnInv` the row read under the lock and
the committed one, `ProcInv` one daemon and its record, `AppInv` the phase on the
page and the only open socket, `ChannelInv` the keys and whom a broadcast leaves
out, `LockInv` the lock file and its owner. `RoutingTrue` is registration and
`relay.state`, `CutOff` revocation and the list of clients.

Why the bounds are enough: every race above needs two actors (two redemptions,
old and new agent, lookup and revocation, loop and handler, two commands, two
sockets), and each instance has two, where it matters with a bystander of another
scope (second device, browser or code). The three screens are blank, a line, and
that line with one more: a frame can append, replace or clear. A cache of one or
two frames drops its oldest within the run, as forty would later. Four hours are
enough for output or an attachment to fall before the warning, between warning
and cleanup, or after. Three sockets are one in use and two whose close events
are still to come. A third process is needed for a lock to be taken from its new
owner. Two columns more by smaller letters, and a pane's line that is longer than
any width, make every combination of fitting, shrinking and wrapping occur. Two
builds with one id are those `/health` cannot tell apart, and two checks are the
least of which one can be stale.

The deadlock check is off (`CHECK_DEADLOCK FALSE`) where the system really comes
to rest: connections, tokens and codes are used up (`Relay`), every task is done
or a create has failed (`SessionLifecycle`), the pane no longer changes and
everybody has been answered (`BrowserView`), the user has left
(`AppConnection`), nothing runs and nobody types (`BackgroundProcess`,
`SecureChannel`), the user and the relay have done what the bounds allow
(`terminal`, `page`).

## 4. Fairness

Nothing external is ever assumed to happen: no output, no user's act, no request,
except where it is said.

* `PgFairSpec`: a transaction that waits for nothing goes on (the database
  answers or the connection fails), and a row lock that is released again and
  again reaches each waiter (PostgreSQL queues waiters).
* `OutputFairSpec`, `LifeFairSpec`: the sync loop runs for as long as the agent
  does (`while (this.running)`), and a handler that was started goes on, since
  tmux commands and timers complete.
* `ViewFairSpec`: the same of loop and replays; what is sent on a connection that
  stays arrives; lost connections are tried again for ever, by `scheduleReconnect`
  and `connectLoop`; React renders; the throttle expires; and a user who returns to
  the page at all (`queue` above 0) does so again and again (`docs/index.md:59`).
* `AppFairSpec`: React renders; a socket is answered or fails, and its events
  come; timers fire; the request to redeem a code is answered or fails.
* `ProcFairSpec`: processes and commands go on, a port or a connection is got when
  it is free, a message that replaces an agent arrives.
* `ChannelFairSpec`: the daemon boots, its tasks go on, the relay answers or the
  request fails, time passes (a refresh falls due), sessions go on writing.
* `LockFairSpec`: time passes, processes go on, and there is always somebody who
  calls again (the daemon writes the state with every frame).
* `SizeFairSpec`: a page that may control its device says its size, renders, and
  what it sends arrives; the agent's loop captures. `BuildFairSpec`: the tab is
  seen again and again, and requests are answered or fail.

The scenes and parts of the other runs of section 3 have the fairness of their
modules, each in its scene (`SceneSpec`, `PartSpec`).

## 5. Proofs

Every invariant and every action property that a run checks is proved as well. A
theorem holds for every value of the constants under the modules' `ASSUME`s; where
it assumes more, that is said here, and section 6 has for most of these conditions an
instance that shows why.

The stores and the relay (`Relay_proofs`):

* `StoreInv` = types, unique keys, `SingleUse`, `MarkedIffRedeemed` and
  `GrantsAccounted`. The last part is what makes it inductive: without "every grant
  was handed out" a fresh token might collide with one in force, and without "a
  redemption's code is on record" a code might be issued again. From it
  `StoreWellFormed`, `CodesSingleUse`, `RevokedStaysRevoked` (the action property)
  and `StoreKeepsLedger`, the refinement, where a lookup and a clock tick are
  stutters. The refinement assumes `UniqueCodes`; the memory store does not have it.
* Under `UniqueCodes`, `PgInv` adds to `StoreInv` that one transaction holds a row at
  most, that what it checked still stands (`TxnInv`; the code may meanwhile have
  expired, which the check no longer asks), and that the tokens of open transactions
  are in no table. From it `LockKeepsRow` and `TransactionsKeepLedger`: a commit is
  the ledger's redemption, every other step of a transaction a stutter.
* `RoutingSound` (types and `RoutingTrue`) needs only that a socket's state and the
  phases go together. `RevocationCutsOff` (`CutOff`) assumes `~AsyncStore`: the
  strengthening says that a browser between lookup and admission still has its
  grant, as nothing comes between. `RoutingInScope` assumes `UniqueCodes`: with codes
  that may be replaced, "the device a token's code was issued for" is not a function
  of what is on record.

The agent:

* `AgentOutput_proofs`: `LookingIsSafe`: until the first input or resize is handled,
  frames chain and the newest shows what is rendered, for any number of replays,
  screens, changes and restarts. `LoopInv` adds where the loop is between its bump
  and its commit: there the newest frame shows the loop's capture, elsewhere the
  rendered buffer. `RenderedSent`: with inputs and resizes, too, what the agent takes
  for rendered it has broadcast since it started, or an input or a resize holds the frame
  and has still to send it (`RenderedGoesOut`); `SentInv` adds that the loop holds the
  frame of its capture until it is sent, and that it has been when the loop notes it. `OutputFits`: the cache keeps to its limit, a task
  has frames exactly where it sends them; the frames cached after a number are
  frames, by induction over the cache (see below).
* `SessionLifecycle_proofs`: `LifeInv` = types and, for each task, `Sound`: what its
  place says about the record, the runtime state and the tmux session (a task at
  "killed" has seen the session gone). From it `LifeTyped`; `ExitedGone`, under
  `~HasFails`: an exited record has no living tmux session, for any requests,
  thresholds and restarts; and `ExitedStays`, the action property.
  `WarnedBeforeCleanup` assumes that the warning's age is positive and below the
  cleanup's (1 and 12 hours by default, `daemon.ts:52`) and an agent that keeps
  running, as a stop of many hours passes the warning. `WarnInv` says that the record
  on disk has had the warning that was due at the last tick, and so has the copy by
  which the loop decides, which differs from the disk only where output made the
  session young again or it has exited.
* `SecureChannel_proofs`: `SecureInv` has three parts. `KeysInv`: while no two
  processes generate at once, the key file, the daemon's key and the key of every
  code under way are one. `TasksInv`: whoever is owed a
  broadcast is in the cache unless an older answer took them out, and is still to come
  in the broadcast unless, besides, a refresh failed (`Excused`): the answer to the
  broadcast's own refresh was asked for later and has everybody in force. `RequestsInv`: who was dropped has no grant. From them
  `BroadcastsReachAll`, `BrowsersHaveTheKey`, `CodesCarryTheKey` and `NoneDropped`,
  the safety half of `RequestAnswered`.

The processes of the computer (`Machine_proofs`):

* `ApartInv`: processes exclude each other and, where no lock in use was removed, what
  a process has read is what the file holds. `ClearInv` adds what makes a removal safe
  where processes are `Prompt` and none came to remove beside another: whoever holds the
  lock is younger than the limit, so a stale lock has no living owner, and while one
  process is about to remove it nobody else can take it. From them `LockExcludes`
  (`LockInv`), `ChangesKept` (under `~ReadFails`) and `NoneRobbed`: with any number of
  owners that die and any number that wait, removing stale locks robs nobody but by the
  race of two. `ChangeIsOneStep`: under the same conditions and `~ReadFails`,
  `StateLock` implements `StateFile`; a save is the one step, every other call a stutter.
* `MachineInv`: while commands are typed one after the other, one daemon at most
  lives; what the one command under way has read or spawned (`Relies`) is still so;
  with no command under way the daemon that has booted is the recorded one; and after
  a stop none lives. From it `OneDaemonRecorded` (`ProcInv`) and `StopLeavesNothing`,
  for any number of processes, terminals, crashes and lost connections.

The page:

* `AppConnection_proofs`: `PageInv` adds to `AppInv` what may still come of a socket
  in each state; from it `OnePageOneConnection`, in any order of close events. The
  others assume `InOrder`. `OrderInv` says that the socket in the ref is the youngest
  and, unless the page was told to stay off, at work; that a timer is the one in the
  ref and there is no socket beside it; and that only a page without a binding pairs.
  From it `StoppedStaysOff` and `NobodyForgotten`: without "the youngest" the close
  event of an older socket would set a second timer. `BindingInv` says that what
  connects sees the binding's token and finds its keys, that a socket is told of a
  revocation after its grant is gone, and that `localStorage` has what was shown;
  from it `BindingKept`.
* `BrowserView_proofs`: `ViewHolds`, for any ways, cache limit, replays at once,
  contents and losses. Its invariant has a part for each part of `ViewInv`.
  `ViewFits`: types of everything that is under way; frames carry numbers up to the
  agent's and contents the pane has had. `ShowsNumber`, where replays are steady: each
  number stands for one content, and every frame that is kept, captured or under way
  leads to its number's content, an append frame from the content of the number
  before. The number is therefore all the browser has to compare, as long as React
  keeps it up to date. `AnswerInv`, under `Calm`, which adds that the agent stays
  connected and the user is patient: for a request that is held back there is on the
  way the request itself, a replay that captures, or a chain of frames that reaches the
  target, none of which the browser will find a gap before, even if live frames come
  between. For
  "none of which" the cache must be in order and nobody may have asked for more than
  the browser has, which is why both are in the invariant. Likewise for a browser that
  is behind: a list is requested, or a list or frame with the last number is under way,
  or such an answer that reaches it (`NewsComes`); what a list or frame makes the
  browser ask is either sent or held back for that same number. So a browser with
  nothing on its way shows what the agent rendered last (`RestsCaughtUp`), which is the
  safety half of `ViewCaughtUp`.
* `Browser_proofs`, `KeysForwarded` (`KeysArrive`), under `Habits = {}`: `NotesInv` says
  that what is due was forwarded and is noted, or that its key may come once more, and
  that a note of a special key does not outlast the time for which the key rests.
* `Browser_proofs`, `ScreenShowsText`: `DrawInv` says what xterm will show once it has
  parsed what it was given: the last write that draws starts from a cleared screen
  with the whole text, and what follows moves the cursor at most (`DrawnSoon`); where
  xterm kept up, the cursor comes to its place (`PlacedSoon`).
* `Browser_proofs`, `ChoiceIsKept`, under `Haste = {}`: `ChoiceInv` says that nothing
  which waits for its transition shows another session than the user's, that a list
  comes before all else if there has been none, and, if the user went back to the list,
  that from some waiting update on no session is shown, whatever the earlier ones do.
* `Browser_proofs`, `NoSizeLeftOut`, the safety half of `SizeReached`: `NotedIsSent`
  says that the size the page noted is the last one on its way or, with none on its
  way, the window's. It holds under any captures, so `Calm` is what coming to rest
  needs and not what this half does.
* `Browser_proofs`, `MarkerHoldsNobodyBack`, the safety half of `BuildSettles`, under
  `~Rollbacks` and `~Cached`: the script a check has read is no older than the page's
  and no newer than what is served, and `MarkerFits` says that the marker leads from a
  build no newer than the page's to one that has been served since, and that it speaks
  of the page's own build only while the page is leaving it. Without these two conditions the marker of an
  earlier change does stop a reload (section 6).

The library's induction theorems take an operator as a parameter, which the
provers cannot instantiate. Where an invariant speaks of a recursive function
(cached frames, the updaters that wait), the proofs state the induction with a set
instead: a set of numbers with 0 and with the successor of each of its members has
them all (`AllNumbers`, from a least number that is missing). That proves what the
function preserves, not that it equals another definition.

Model-checked only: what needs fairness, since the prover does not reason about
ENABLED (`RedemptionAnswered`, `CatchesUp`, `TimelyBrowserLearns`, `ExitNoticed`,
`Reconnects`, `Settles`, `RevokedForgotten`, `LockFreed`, and what `RequestAnswered`,
`ViewCaughtUp`, `SizeReached` and `BuildSettles` say beyond their safety halves),
and the counterexamples of section 6.

## 6. Further instances

Beside the runs some configurations are kept. `BrowserView_reconnect`
(`SeqCaughtUp`) passes, with two replays at once and four contents. The others have
a counterexample. Each drops one condition that a run or a theorem makes, and shows
that the code needs it, against what a document says.

| configuration | refutes | what happens |
| --- | --- | --- |
| `Relay_revoke_race` | `RevokedDisconnected` | With PostgreSQL a grant revoked between `server.ts:517` and `server.ts:538` leaves its browser connected (`docs/security-design.md:88`: "会主动断开对应 client 连接"). |
| `AgentOutput_race` | `AlwaysChain` | `daemon.ts:465` notes the rendered buffer after two awaits; an input handled meanwhile derives its append frame from the older one (`docs/protocol.md:147`: snapshots). |
| `AgentOutput_stale` | `NewestShowsPane` | The same line overwrites what the input rendered; if the pane has gone back the browsers keep the other screen (`docs/protocol.md:152`). |
| `SessionLifecycle_late` | `BrowserLearns` | An input's state message (`daemon.ts:725`) is older than the end the loop has told, and comes after it (`docs/operations-guide.md:89`). |
| `SessionLifecycle_residue` | `CleanedOnlyIdle` | The cleanup is decided (`daemon.ts:366`) from a record read before: a session with output or a terminal of this minute is killed (`docs/getting-started.md:201`). |
| `SessionLifecycle_lost` | `ExitedIsGone` | `tmux-backend.ts:132` takes any failure for a missing session: a running one is marked exited for good (`docs/cli-reference.md:139`). |
| `BrowserView_capture` | `ViewIsSnapshot` | A replay captured anew (`daemon.ts:617`) has the number of before the capture, and a later append adds to it again (`docs/protocol.md:147`). |
| `BrowserView_impatient` | `SeqCaughtUp` | A request lost with its connection holds back the next (`App.tsx:1297`) if the user reconnects by hand at once (`docs/protocol.md:158`). |

More of them are a small change to a configuration (the other
INVARIANTS and PROPERTIES taken out); "spec" is the SPECIFICATION.

| configuration, with | refutes | what happens |
| --- | --- | --- |
| `BrowserView_capture`, `Ways <- Twice` | `ViewIsSnapshot` | Two messages before a render are compared with the same old number (`App.tsx:1204`); a frame that is sent twice is added twice (`docs/architecture.md:131`). |
| `AppConnection_page`, `MaxActs = 3` | `StaysReachable` | After a pairing on the page, `connect()` runs in a render without a token: the first reconnect is refused, and refused means no more (`App.tsx:1322`, `1387`; `docs/getting-started.md:222`). |
| `AppConnection_page`, `MaxActs = 3`, `InOrder = FALSE`, spec `AppSpec` | `StaysOff` | The close event of an older socket that comes last sets a second timer, and the first can no longer be cleared (`App.tsx:1322`). |
| `SessionLifecycle_late`, `Kind <- RunAndResize` or `RunAndList` | `BrowserLearns` | A resize tells the status of its bump (`daemon.ts:785`), a list that of the records it was given (`daemon.ts:573`), after the loop has told the end; a resize that finds nothing new writes its older status where the loop looks (`daemon.ts:796`). |
| `BackgroundProcess_start_stop`, one shell, 2 pids, 2 commands, no crash or loss | `StopFinds` | A daemon in the foreground overwrites the runtime file of the running one and clears it (`relay/src/cli.ts:51`): `stop` finds nothing (`docs/cli-reference.md:208`). |
| `SecureChannel_pairing` | `CodesAlwaysFit` | In the first `agent --pair` the CLI and the daemon it spawned both find no key (`state-store.ts:201`, `cli.ts:399`); the code carries the one the daemon does not use (`docs/security-design.md:74`). |
| `SecureChannel_pairing` | `EverybodyReached` | A broadcast is under way, an older answer replaces the map without a browser that has just paired, the refresh for it fails (`daemon.ts:253`) and the broadcast goes on without it (`daemon.ts:893`). |
| `StateLock`, spec `LockSpec` | `NeverRobbed` | The owner dies; two others find its lock stale, and the second removes the one the first has just made (`state-store.ts:118`). |
| `StateLock`, `ReadFails = TRUE` | `KeepsChanges` | A state that cannot be read counts as empty and is written back without the sessions (`state-store.ts`, `loadStateFromDisk`). |
| `Terminal` | `AlwaysDrawn` | A frame without a cursor is appended where the terminal's cursor stands, which the last frame moved (`XtermTerminal.tsx:839`). |
| `Terminal` | `CursorRight` | The callback of an addition moves the cursor to where an older frame had it (`XtermTerminal.tsx:849`). |
| `Terminal` on `TerminalScreen` and its constants only, no screens, no columns, no changes, spec `ScreenFairSpec` | `RetryHelps` | The promise of a failed import is kept, and the button to try again finds it (`XtermTerminal.tsx:44`, `900`). |
| `Terminal`, also with `Late = {}` | `KeysOnce` | Enter of a keyboard is forwarded again at its keypress (`XtermTerminal.tsx:418`, `503`), space and capitals at their `beforeinput` (`XtermTerminal.tsx:550`), and a letter typed soon after them, too (`XtermTerminal.tsx:469`). |
| `Terminal`, `Habits` = `{"repeats"}`, `{"ahead"}`, `{"slow"}`, `{"ime"}` or `{"hasty"}` | `KeysArrive` | A note swallows the next key of the same name, or has expired or been replaced when the event it is for comes; a key meant for an input method is forwarded; text put in over the note of a capital is taken for it (`XtermTerminal.tsx:417`, `543`, `550`). |
| `Terminal`, `Calm = FALSE` | `SizeReachedHere` | Two sizes and the two snapshots they lead to chase each other for ever (`XtermTerminal.tsx:731`). |
| `Terminal` on `TerminalSize` and its constants only, spec `SizeFairSpec` | `SizeRestored` | A size that was lost with its connection, or overridden by a local client, is never sent again (`App.tsx:1742`). |
| `Page`, `Rollbacks = TRUE` or `Cached = TRUE` | `BuildSettlesHere` | The marker of the first upgrade, or of the attempt a cached document answered, stops the reload that is needed (`docs/troubleshooting.md:48`). |
| `Page`, `Haste = {"pick"}` | `ChoiceStands` | The user chooses while a list waits for its transition, whose updater runs on the session shown before and sets the mode to automatic (`App.tsx:1164`). |
| `Page`, `Haste = {"state"}` | `ChoiceStands` | A state before the first list makes a list of one session, which replaces the restored one. |

## 7. Left out

* Encryption itself, HTTP authentication of the agent, static files, formatting,
  layout and styling, full screen and orientation, the order in which inputs the
  agent handles at once reach tmux.
* Audit events: no other component reads them. An append that fails after a
  redemption costs the browser its token, which the hazards list.
* Device ids other than its own in an agent's envelopes; broken JSON and unknown
  messages, which are dropped.
* In the lifecycle: how a resize chooses the window's size, tmux commands other than
  `has-session` that fail for no reason (a capture for a replay that fails is an
  unhandled rejection of `daemon.ts:196`), the tmux session nobody lists
  because the process stopped between creating and recording it.
* In the view: cursors (`TerminalScreen` has them) and the choice among sessions
  (`SessionSelection`).
* In the terminal: scrolling, rows, colours, focus, copying, panning on phones; a
  composition that is cancelled by leaving the page.
* In the page: the notices it shows, the requests it makes before a cleanup
  (`App.tsx` 708-808) and their answers, notifications but for the click on one.
  Pins are lost at every load (`App.tsx:671` restores them, the effect at 586
  compares them with a list that is still empty); no document promises otherwise.
* In the connection: a typed-in token, device or relay; how long timers wait;
  connections that are dead but not closed; bindings of versions without keys.
* In the processes: process ids used again, a CLI killed between spawning and
  recording, changed configurations, the migration of old ones.

PROJECT.json lists under its components what is not modelled.

## 8. Plan

Done, in this order: store and PostgreSQL store, relay, output, lifecycle, view,
connection, background processes, keys, the state's lock, the terminal, the page's
selection and build.

Next:

1. Messages a browser sends before the relay has admitted it (`server.ts:546`,
   `App.tsx:647`), as a composition of `Relay` and `BrowserView`'s requests.
2. The audit store within the pairing handlers: partial failure.
3. The page's requests before a cleanup, with their time limits.
4. Proofs: the transitions of `SessionSelection` as a refinement of a selection that
   is rendered at once; a safety half of more properties that need fairness, as
   `NoneDropped` is of `RequestAnswered` and `RestsCaughtUp` of `ViewCaughtUp`: that
   daemons at rest are one (`Settles`), that a message tells of the exit
   (`TimelyBrowserLearns`).
