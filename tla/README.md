# Verification of ccht

TLA+ modules, TLC runs and TLAPS proofs about `ccht`, the Rust library (with
Wasm, Python and Svelte bindings) that puts an ACP chat agent behind a
conversation an application can render. Line numbers refer to the repository's
sources; `PROJECT.json` maps every definition to the lines it stands for.

## 1. The system

| Part | State | Operations | Talks to |
|---|---|---|---|
| **Conversation reducer** `src/conversation.rs`, `src/configuration.rs` | turns (status, items, tools, permissions, `last_sequence`, bytes), the controls of the session | `new`, `apply`, `apply_json` | fed by the application, or by the pool's router |
| **Session** `src/native/session.rs` | turn lock (reserved, current, cancelled), activity watch, event sender, pending permissions, failure, closed flag, command channel | the worker `run_session`; `prompt`, `cancel`, `close`, `set_config_option`, `respond_permission`; the drop guards of a prompt and of the last handle | the SDK's `ActiveSession` (queue of updates, answer callback), the connection's `ClientState`, a bounded stream to the application |
| **Session pool** `src/native/pool.rs` | one entry per key: handle, snapshot, busy, turn and sequence counters; the shared client | `prompt`, `cancel`, `close`, `shutdown`, `set_model`; one forwarder task per session, one router | sessions through handles, the application through one tagged stream |
| **Client** `src/native/client.rs` | `ClientState` (closed, abort, exit reason), the connection task and the agent's process | `connect`, new session, load, list, authenticate, `close` | the agent process, every session |
| **Login drivers** `src/native/drivers/` | the helper process, its numbered requests, queued notifications, the login id; for keys, a local server and its URL | `start`, `poll`, `account`, `cancel` | helper over JSON lines, or HTTP |
| **Credential state** `src/auth.rs`, `src/web/src/auth.ts` | `AuthState`, `ApiKeyState` (key, origin, service, loaded) | load, set, clear, prompt | the application's `CredentialsProvider` |
| **Dock** `src/dock.rs`, `src/web/src/dock.ts` | registered agents, open and focused panels | register, open, close, focus, resize | the Svelte components |
| **Pure helpers** `transport.rs`, `native/env.rs`, `configuration.rs`, `well_known.rs` | none | conversions, a filter of the environment, a table | the others |
| **Bindings** `web.rs`, `py/`, `web/src/components/` | none of their own | forward | the reducer and the dock |

An agent's update travels: agent, SDK queue, session worker (`emit`: the tag of
the current turn), bounded stream, forwarder, router (sequence number, `apply`
on the key's snapshot), the application's log, and from there over any transport
to snapshots elsewhere, which the same reducer keeps.

### What is hard, and what must hold

* **Reducer.** Events may arrive lost, repeated, late or out of order, from
  other producers, and after a reload from the beginning. A snapshot must be
  what its log says, a rejection must leave it alone, a turn must end exactly at
  its first terminal event, and status, tools and permissions must agree.
* **Session.** The worker and the calls share a turn lock, a map, a watch, a
  stream and two channels, with a lock or an await between almost every two
  steps. Turns must not mix, a terminal event must be the last of its turn, a
  result must have been streamed, a dropped prompt must leave no agent at work,
  every call must return and every permission be answered.
* **Pool.** A call knows its key, a message knows its key, and the session of
  the key may be closing, dead or another by then. A snapshot must take what was
  streamed and no more, `Ended` must be the last word, busy must end.
* **Login.** Answers, notifications and exits of a helper meet calls that have
  timed out or were dropped. Nothing may be reported that the vendor did not
  say of this login, nothing said of it may be overlooked, every call is bounded.
* **Client.** Several sessions share a connection that any of them may abort; closes
  overlap and race an abort for the task's handle; the SDK's cleanup may be stuck.
  The connection must go down for a cause only, and then take every session and the
  process along; every call must return.
* **Key login.** Each of four steps may fail, time out or be dropped with a server
  running that has the user's key: none may stay behind, and a login is reported
  only when this call's key was stored and the vendor lists the provider.
* **Credentials, dock.** The store fails, changes and loses calls, and no key may be shown
  for another service; the two implementations of the dock must agree.

The hazards in the code, each with its line and the properties aimed at it, are
listed in `PROJECT.json`.

## 2. The modules

### Reducer

* **ConversationState** has the data and the pure functions: `ApplyEvent` is
  `Conversation::apply` after its checks with `Update` for `TurnState::update`,
  `Verdict` is every early return in the code's order, `Apply`/`ApplyJson` return the new
  snapshot and the result. It has no state of its own; Conversation and Pool use it.
* **Conversation** is one snapshot with its log per request. `Log` is the
  application's numbering of the session's events. The transport has no state:
  since anything logged may be lost, repeated, delayed or reordered, what may be
  delivered next is any logged event (`Deliver`, `DeliverJson`). `DeliverStray`
  and `DeliverMalformed` are the envelopes the first checks are for, `Reload`
  and `Replay` the consumer that starts again.
* **EventReader** is the abstract promise: a reader that takes each log in order,
  once, up to its first terminal event. `ReadsInOrder` is Conversation's
  refinement of it, with the cursor `last_sequence` as the mapping.
* **MCConversation** gives TLC the events, and `MCSpec`, which bounds what is logged: one request
  streams any of them at length, or two requests stream a few in brief and the consumer starts again.

Data is abstracted to what the reducer tells apart: an event has a kind, the tool call or
permission it names, a status or value, and a size. Text, titles and plan
entries only count by their size.

### Session

**Session** is one session: the worker's biased select split where the
code has a lock or an await (`PollClosed`, `PollUpdate`, `PollPermission`,
`InsertPermission`, `AskPermission`, `PollEmpty`, `PollCompletion`, `PollCommand`, `SendPrompt`, `PollExpiry`, `Finish`,
`FreeTurn`, `Settle`), and each call split likewise (`PromptStart`, `PromptReserve`,
`PromptSend`, `PromptReceive`, `PromptTimeout`, `PromptDrop` with `PromptGuard`,
`CloseStart` and `CancelStart`, `CancelTurn`, `CancelNotify`, `CancelQuiet`, `CloseAnswered`, the
`Config*` steps, `RespondPermission`, `LeaseDrop`).
`SessionState::close` may be run by anyone at any time, so it is a small program
counter per process: `CloseEnter`, `CloseReadTurn` (the turn lock), `CloseTakeEvents` (the events
lock), `CloseSettle`. The agent (`AgentSends`,
`AgentAnswer`), the loss of the connection and the application's reader
(`Consume`, `StopReading`) are the environment. The repository prescribes a runtime with several
threads, so all of these interleave freely: a message may arrive when the reader has been polled and
the other branches of the same poll have not (`PollEmpty` is a step of its own).

**SessionPromise** is what all this amounts to for whoever holds a handle: turns one
after the other, each with one terminal event before the next begins, progress only of
the turn that runs, results that the stream showed first,
nothing after the end. Three races of the code are part of it, since no document excludes them: a close between
the terminal event of a turn (188) and its reset (189) adds one last error for it; so does a close
that read a turn (154) which is over when it takes the sender (155); a configuration change that read the
turn (121) before its end is tagged with it. `KeepsPromise` is Session's refinement of it: a turn runs from
reservation to `FreeTurn`, and the stream ends when its sender is taken.

### Pool

**Pool** has the entries, the calls (`PromptKnown`, `PromptNew`, `PromptSubmit`,
`PromptReturns`, `PromptRelease`, `PromptDrop`), `CloseKey`, `Shutdown`, a forwarder per
session (`Forward`) and the router (`RouteNowhere`, `RouteEnd`, `RouteOutside`,
`RouteTurn`). It composes with the reducer by applying `Apply` to the entry's
conversation, and with the sessions through SessionPromise: the session behind a handle does
what that module allows (`SessionStreams`, `SessionFinishes`, `SessionFrees`, `SessionCloses` are its
`Report`, `Finish`, `Release`, `End`), late configuration changes and the error for a turn that is over included.

### Client

**Client** is one connection: `connect` with its guard (`ConnectStart` to `ConnectGivesUp`), the task
that runs the SDK (`TaskReady` to `TaskDropped`), overlapping closes (`CloseStart`, `CloseJoined`,
`CloseTimeout`, `CloseDrop`), operations (`OpStart` to `OpDrop`) that create sessions (`OpConfigured` is
`finish_session`) or authenticate, and the sessions, each with its own progress of
`SessionState::close`, its handle, and its worker between two looks at the closed flags, which may also end
on an error of its own (`WorkerStep`, "broken"; session.rs:537 and 564). A dropped call may be in
the middle of `finish_session` ("configure"), and then drops the session with it. `link` is
what the task does, `task` who holds its handle, `aborted` that it was told to stop.
`Abort`, as in the code, finds the handle or does not. `Threads` says whether
the caller's runtime lets a close overlap a run of the worker.

### Device login

**DeviceLogin** is the Codex driver: `Start`, `Poll`, `Account`, `Cancel`, `DropCall` and
the loops they run (`ReadReply` is `round_trip`, `PollQueued` and `PollLine` are `next_note`
and the loop around it). Lines have a kind, an id and a body; a line may be
*torn*, still being written, and a reader that gives up on it loses what it had read, as
`read_until` does. The helper answers open requests in any order or never,
announces this login or another, writes garbage, exits, and the vendor's account
may change meanwhile. Time passes only while the running call has nothing to
do: the runtime is quick against seconds.

### Key login, credentials, dock

These have no task behind them; each call takes `&mut self`.

* **KeyLogin** is the OpenCode driver. `Start` stops the server of before and launches one;
  `ReadyAgain` and `HealthAnswered` are the loop of `await_ready`, `PutAnswered` and `Listed` the
  rest of `start`; `Presence` is what `poll` and `account` share; `Cancel`, `DropCall`, `DropDriver`.
  A round trip is a request (`Ask`), what the server does (`ServerActs`), and what comes back, or
  not (`RequestFails`, `RequestTimesOut`): the server may have done what it never answers.
* **ApiKeys** is `ApiKeyState`: a load, a store or a delete waits for the provider, and meanwhile or
  between calls the provider's content and the environment change, the provider fails, the
  call is dropped (`Broken`: what was to be written may have been).
* **Dock** has both registries, a vector with a search (`Rust...`) and a map with an order (`Web...`),
  as functions from a manager and arguments to a manager and an answer. Every call is made
  on both, for the application that moves from one to the other. What is saved has a form: Rust's serde writes an
  object, `{"docks":[...]}`, the browser a bare array, and each refuses the other's (`RestoreOther`). On two calls the
  managers part: an empty focus token, which Rust stages and the browser refuses before it looks at the id
  (`OpenWithEmptyToken`), and a snapshot edited to hold a name twice or one that is not valid, which Rust reads and the browser
  refuses (`RestoreEdited`). `apart` says that such a call was made; a behaviour ends there.
* **Application** puts the three side by side. They share no state, so a behaviour `uses` one
  of them, and the instance (**MCApplication**) is the sum of the three and not their product.

## 3. What is checked

Passing runs, with the distinct states TLC finds:

| Run | Instance | States | Shows |
|---|---|---|---|
| `Conversation` | two requests, one slot; one streams nine kinds of event at length (`MaxLog` 3), or both stream four kinds in brief and the consumer reloads once; limits that bite | 40,718 | the turn renders exactly the prefix of its log that it took (`TurnRendersItsLog`, `PermissionsAwaitAnAnswer`), its status agrees (`StatusTellsTheTurn`), it ends at the first terminal event; controls come from an applied event; refinement of EventReader; a replay catches up |
| `SessionTurns` | two prompts, a cancel, one message, `Capacity` 2, reader may stop, last handle may go | 1,134,800 up to exchange of the prompts | refinement of SessionPromise, one turn at the agent, only late messages stray, questions die with their turn |
| `SessionFaults` | a prompt, a close, a configuration change; dropped prompts, a lost connection | 1,747,139 | refinement of SessionPromise, the close leaves nothing it knew of unconcluded, a dropped prompt stops the agent |
| `SessionLive` | a prompt and a cancel, one message, timeouts | 265,224 | refinement of SessionPromise under timeouts, every call returns, every permission is answered |
| `PoolTurns` | two calls about one key, one session, one update | 612,616 | the snapshot follows the stream, `Ended` is last and is told, busy ends |
| `ClientSharing` | connect, two calls that open a session (one of them may authenticate instead), two closes, all faults, one thread | 287,459 | the connection closes for a cause, a close leaves no child, closing ends every session and the process, every call returns |
| `DeviceLogin` | three calls, three lines, `CallTimeout` 2, `ApprovalDeadline` 3, `MaxQueued` 1 | 297,289 | approvals are this login's, presences are fresh, calls are bounded, no approval is overlooked |
| `ApplicationParts` | two services with a key each, three control servers, two docks and an invalid name | 144,092 | no key for another service, no stray server, a reported login is real, the docks agree |

Every property has a mutant in `PROJECT.json`: a change to one definition, of
the kind a bug would make, under which TLC finds the property violated.

### Bounds, and why they are enough

* `MaxLog`: three events are a permission, its tool call's update and a terminal event, or a terminal event
  and two beyond it. `MaxTurns` 1 with two requests makes the snapshot
  refuse a turn; `MaxTurnBytes` and `MaxEventBytes` are smaller than what the
  events of the run add up to.
* `MaxReloads` 1: a second reload begins in the same state as the first.
* `MaxMessages`: one message that is an update or a permission request; none in `SessionFaults`, where the configuration
  change is what a closing turn shows. Two prompts
  are the least that can mix turns; a cancel or a close is the third actor. The kinds of fault are divided among the three
  runs, and `KeepsPromise` is checked in each; its theorem has no such bound.
* `Capacity` 2 is less than what one turn streams, so the full buffer is reached.
* `MaxSessions`, `MaxUpdates`: one session with one update and a terminal event per turn; the
  second session of a key is what `PoolRecreate` is about.
* `Opens`, `Auths`, `Closes`: two of each is what overlaps; `s2` is in both sets of calls and
  is either kind. `Configured` has one call whose options ask for a model. `Threads` is
  "one" where the properties hold; "many" is what `ClientSpread` is about.
* `MaxStarts` 3: a server replaced, one that a failed start leaves, and one after that.
  Two services and two dock names are what can be confused; one kind of dock, since no
  operation changes it.
* `MaxQueued` 1 stands for 64: the first note fills the queue. `MaxCalls` and
  `MaxFrames` 3 allow a challenge, a read that times out and its late answer,
  and a challenge, a foreign note and a completion. `CallTimeout` 2 below
  `ApprovalDeadline` 3 makes the last wait of a poll the shorter one.

Sets are small; the two prompts of `SessionTurns` are symmetric (**MCSession**: safety only, and no step tells one from the
other), nothing else is. Deadlock is not checked where calls are finite in
number: those systems stop when the calls are over. The conversation runs do check it.

### Fairness

* `Session`: weak fairness of the worker's steps, of each call's own steps and of its
  timers, since the runtime polls a task that is woken. Strong fairness of `PollExpiry` alone:
  it is the last branch of a biased select, so an agent whose messages never let
  the select rest keeps it from running; the assumption is that the agent
  pauses. Nothing is assumed of the agent, the application, or its reader.
* `Pool`: weak fairness of forwarders, router and call steps; a session that has finished a turn goes on to free it or,
  if it was closed, to its end, whichever comes first, and one that was closed goes on to its end.
* `Conversation`: `Replay` delivers each event again (`ReplayCatchesUp`), and
  the transport owes nothing else.
* `Client`: weak fairness of the steps of connect, of the task where the SDK moves by itself, of
  closes, session closes and workers, with their timers. Strong fairness of each operation: on one thread it
  runs only when a worker has let go of it, and the runtime serves both in turn. The agent
  may never answer, and with "stuck" among the faults the cleanup may never end.
* `DeviceLogin`: weak fairness of the running call and of time. Nothing is
  assumed of the helper.

### Where the code and its documentation disagree

| Run | What it shows |
|---|---|
| `PoolRecreate` | events of a closed session are applied to the conversation of the key's next one, under request ids given out again |
| `DevicePatience` | a poll for browser approval ends after `call_timeout` of silence and not at the approval deadline |
| `SessionThreads` | with several threads, an update that the agent sent before its answer may be streamed after the turn's end, under no request or the next one's (session.rs:591-592) |
| `ClientSpread` | with several threads, closing one session may take the connection of all down: its worker takes the close for a failure |

More were met and are noted here, with what shows them.

* session.rs:188-189: a close between the terminal event and the reset of a turn streams a second terminal event for it, and
  so does a close that read the turn at 154 before the reset and takes the sender at 155 after it. The promise has both.
* session.rs:154-155: a close without an error to tell that finds no turn at 154 takes the sender silently at 155. A turn that
  began in between, with an update in its stream already, is never concluded there (`TurnsAreConcluded` excepts that turn).
* session.rs:190 sets activity false after the turn was freed, and may overwrite the true of the
  next turn: a cancel of that one returns Ok at once. `CancelWaits` of Session states the promise and fails.
* pool.rs:331 and the release after a failed call clear the busy flag of a key whose next
  turn runs. `BusyTellsTheTurn` of Pool states the promise and fails.
* A close that has denied the pending permissions (session.rs:153) may be followed by one insertion at 552
  before the worker stops; nobody answers it (a run of `PermissionExpires` with a closer shows it).
* `apply_json` measures the envelope against `MAX_EVENT_BYTES` and `apply` the event: an event just within
  the limit passes one and not the other.
* auth.rs:241: a load that fails or is dropped after the environment's variable went away leaves its key
  in place with `from_env_var` false. The key is still "of its service" and `store` no longer refuses.
* auth.rs:289: what `store` reads back may be white space, which `load_if_needed` would not take.
* opencode.rs:368 subtracts a second reading of the clock from the limit it was compared with at 352: should it have been
  reached in between, the subtraction panics (`ReadyAgain` has it as an outcome; the server is stopped all the same).
* opencode.rs:93 calls the operation timeout the deadline of "one HTTP round trip"; it bounds each of its
  five waits. opencode.rs:105 says `has_helper` tells whether a server runs; it tells whether one was kept.
* client.rs:374: a `close` whose future is dropped takes the task's handle along, and a cleanup that is
  stuck then keeps the process (`CloseDrop`; `ClosingEndsAll` excepts it).
* Rust saves its docks as an object (dock.rs:113-121), the browser as an array and reads nothing else (dock.ts:187-202): neither
  reads what the other saved. Reading back, Rust checks neither names nor duplicates, the browser both; only the browser refuses an
  empty focus token. `toggle` tells the new state in the browser and nothing in Rust. `DocksAgree` holds until an
  edited snapshot or an empty token is accepted by one of them.

## 4. What is proved

TLAPS checks these for every value of the constants, under the named assumptions of the
modules: bounds and limits are naturals, timeouts positive, events events; the names of calls,
sessions and identities are pairwise different where the code's are different objects; each permission is about one
tool. Every passing run evaluates the assumptions of its modules. A theorem that needs
more says so in its `ASSUME`, and the paragraph below says why.

| Proofs | About | Properties of runs that are proved |
|---|---|---|
| **ConversationProofs** | Conversation | `TypeOK`, `StatusTellsTheTurn`, `TurnsEndAtFirstTerminal`, `PermissionsAwaitAnAnswer`, `TurnRendersItsLog`, `ConfigurationComesFromATurn`, refinement `ReadsInOrder` |
| **SessionProofs** | Session | `TypeOK`, `OneTurnAtTheAgent`, `OnlyLateOnesStray`, `QuestionsEndWithTheTurn`, `DropStopsTheAgent` |
| **SessionPromiseProofs** | Session | `TurnsAreConcluded`, refinement `KeepsPromise` |
| **PoolProofs** | Pool | `TypeOK`, `EndedIsLast`, `SnapshotFollowsStream` |
| **ClientProofs** | Client | `TypeOK`, `CloseCleansUp`, `ClosesForACause` |
| **DeviceLoginProofs** | DeviceLogin | `TypeOK`, `CallsAreBounded`, `ApprovedIsMine`, `PresenceIsFresh`, the steps `ApprovalIsKept`, `ApprovalIsNotMissed` |
| **ApplicationProofs** | ApiKeys, KeyLogin | `TypeOK`, `KeyIsOfItsService`, `NoStrayServer`, `AuthenticatedIsReal` |
| **DockProofs** | Dock | `DocksAgree` |

All follow one pattern: the state is typed in groups (`Typed` and its conjuncts), an
invariant is kept by each action (`...Kept`, one step per action), by a stuttering step
(`...Stands`) and by whatever leaves its variables alone (`...Stay`, `...Carries`), and the theorem
combines them. The strengthenings are what the code relies on without saying so.

**ConversationProofs** (about Conversation)

* `TypeCorrect`. The step lemma is `StepShape`: whatever arrives, the step
  stands still, logs an event, restarts, or lets one turn that is not terminal take
  the *next* event of its log. It rests on `AppliedInOrder` and `AppliedTakes`, which read
  the code's early returns, and all later proofs go by its four cases.
* `StatusIsRight`: `EventKeepsStatus` shows it of one event; it is inductive with the types.
* `EndsAtFirstTerminal`: inductive with the types, because it speaks of the whole taken
  prefix: the turn is terminal exactly when its last taken event is, and no earlier one is.
* `Refinement`: every step maps to a step of EventReader or a stutter, using
  `EndsAtFirstTerminal` for the guard of the abstract read.
* `PermissionsAreRight` and `TurnsRender`: neither is inductive, because which permissions a tool update answers
  depends on that tool's status. The strengthening, `Renders`, adds that each tool's status is the last one
  reported in the taken prefix; `EventKeepsRendering` shows one event, `PrefixStands` that a growing log does
  not change what its prefix says, `RenderingHolds` that it always holds. `Texts` is the same of the text,
  counted unit by unit (`UnitsStep`).
* `ControlsHaveATurn`: inductive with the types, by `EventConfiguration` for one event.

**DeviceLoginProofs** (about DeviceLogin)

* `LoginTypeCorrect`: types, with the queue never above `MaxQueued`.
* `CallsStayBounded`: `CallsAreBounded` is not inductive; `Budget` adds what the
  timer still allows: elapsed plus timer is within the call's bound, and within the approval deadline while poll waits for a note.
* `ApprovalsAreMine`: `Approval` adds that an approval on its way to poll, on the wire, in
  the queue or taken by a poll that reads the account, was really announced.
* `PresencesAreFresh`: `Freshness` adds that all ids on the wire and open at the
  helper are at most `next_id`, so that a new request's id is on nothing yet, and that a
  presence which answers the running request was true during the call.
* `ApprovalsAreKept` (an action property): a step either leaves an end of the login in the queue (`Told`) or
  on the wire before any garbage (`Legible`), or goes one of the three ways the property names (`Stays`, in `ApprovalStays`
  for each step). `WireTells` and `QueueTells` say what appending, reading and the exit of the helper do to both.
* `ApprovalsAreSeen` rests on `Heard`: a poll that began with the end of the login to be read has it still, and
  its clock has not moved, because there is something to read; so it cannot be the one that times out.

**SessionProofs** and **SessionPromiseProofs** (about Session)

* `SessionTypeCorrect`: types, among them that completions, commands and messages in their channels name
  prompts and turns that exist.
* `OneTurnReachesTheAgent`: turn lock, command channel, worker, agent, completion channel and caller each know
  a part of the turn. `OneTurn` says how the parts fit: the reserved prompt is on its way to the worker or is the
  worker's, the agent has it or has answered it once, and nobody else is past its reservation.
* `OnlyLateMailStrays` rests on `Mail`: what lies in the inbox, or is on its way into the map, was sent in no turn, in the
  worker's, or in one whose terminal event is streamed (`ConcludedStays`: it stays so). Nothing is assumed of when messages arrive.
* `QuestionsAreDead` rests on `InOrder`: messages are read in the order in which they were sent, so that a question on its way
  into the map is younger than any in the stream, and what `finish` denied cannot come back. `OpenFalls` says that a
  sender once taken is gone, which is when the property stops to speak.
* `DroppedPromptIsStopped` rests on `Stopping`: a dropped prompt whose guard ran has the connection down,
  is about to take it down, or no longer holds the turn.
* `EveryTurnIsConcluded` (an action property) rests on `Accounted`: every request in the stream, every turn that a close in
  progress has read, and every turn that a configuration change has read is the turn under way or has its terminal
  event in the stream. `WhoReads`, `WhoConfigures` and `WhatTurns` say which steps can disturb it, `AccountableStays` that
  no other does. `TakingConcludes` reads the step that takes the sender (`WhoTakes`): it tells of the turn that was read, so what is
  left is a turn that began since.
* `SessionKeepsPromise`: the refinement, with `Phase`, `Holder` and `Told` as the mapping. Most steps are *unseen*
  (`Unseen`: nothing the promise speaks of changes); `Reported` (a reason the caller will get has been
  streamed) is the guard of `Tell`, and `Accounted` that of what `emit` tags after it unlocked.

**PoolProofs** (about Pool)

* `PoolTypeCorrect`: types; a key's turns are counted by the calls that began them, and so stay within `Requests`.
* `SessionEndsAreLast` holds for any re-creation of keys: after the `Ended` of a *session* nothing of that session
  is sent. `Owned` says that what is under way names the key of its session, `Over` that an end
  is reported once the session is closed and its stream empty.
* `KeyEndsAreLast` is the same for the *key*, as the application sees it, and needs `~Recreate` (`Single`: a key has had
  one session): a second session of a key talks after the `Ended` of the first.
* `SnapshotsFollow` needs `~Recreate` as well, which `PoolRecreate` shows, and `Room`: finitely many requests, within
  `MaxTurns`, and limits above what is streamed, since the router re-emits what `apply` refused. `Bounded` keeps the limits
  out of reach: text in the snapshot and updates under way are at most the updates streamed. `Following` is
  the invariant: the cursor of a turn counts what was sent of it to the first terminal event, and the entry's
  sequence counter is that cursor while the turn goes on.

**ClientProofs** (about Client)

* `ClientTypeCorrect`, and `ClientIsWired`: the order of the connection's life, on which the others rest.
* `CloseLeavesNothing` rests on `Handle`: the close that took the task's handle is the one that waits, and returns
  Ok only after the task is over, whatever other closes and aborts do.
* `ClosingHasACause` assumes `Threads = "one"`: there a session is closed only while its worker waits (`Attached`), so that a
  worker in the middle of a run never takes a close for a failure. With several threads it does (`ClientSpread`).
  `Caused` follows the cause from whoever has one to the flag, the abort and the end of the task.

**ApplicationProofs** and **DockProofs** (about the parts of Application)

* `KeysStayWithTheirService`: `CallKeepsService` says that a call in progress writes a key of the service it began
  with, though store and environment change while it waits.
* `NoServerIsStray`: `ServerHeld` gives each running server one holder, the start under way or the driver.
* `ReportedLoginIsReal`: `AnswersAreReal` says at each step of a start what its server must have done by then.
* `DocksAlwaysAgree`: `Agree` relates vector and map, no name twice in either; one lemma for each of the
  operations shows that both answer alike, up to `ToldAlike`, and stay related. `Sound` is the same of what was
  saved, object and array. The two calls on which the managers part are steps of the system, and the theorem says what holds until then.
* `PartsTypeCorrect` joins their types.

**Only model-checked.**

* Liveness (`ReplayCatchesUp`, `EveryCallReturns`, `PermissionExpires`, `BusyEnds`, `EndIsTold`, `ClosingEndsAll`):
  fairness and ENABLED are out of the prover's reach.
* The four properties that the code does not have: a run refutes each.

Text in Conversation is counted unit by unit, open docks and the messages of a turn are places and not
filtered sequences: sums over a set and `SelectSeq` are defined by recursion, which the provers cannot unfold.

## 5. What is not modelled, and why

* Content: the text of messages, prompts' size checks, option values, challenge
  URLs. They are checked by pure functions that unit tests reach.
* `transport.rs`, `env.rs`, `well_known.rs`: conversions, a filter and a table, with no state
  and nothing that interleaves. A model of them would be their text again.
* `native/mod.rs`: types, defaults and the mapping of errors to categories; the values that matter
  are constants of Session and Client.
* Components, Python and Wasm bindings: forwarding and layout. `auth.ts` mirrors types.
* A write to the login helper that blocks: the pipe has room for hundreds of requests.
* The port that `free_port` releases may be taken by another process before the server binds it.

## 6. Plan

1. *Done*: reducer, session with its promise, pool, client, device login, key login, credentials, dock.
2. *Done*: proofs of every safety invariant and action property that a passing run checks, and of both refinements.
3. **Proofs left**: the safety halves of the liveness properties, as `WaitingIsReady` is of a poll: that a prompt which waits
   has its turn at the worker or its answer under way, that a busy entry has a turn or a message about to clear it, that
   a client which closes has somebody left to end each session. They would show that nobody waits for
   nothing; fairness then does the rest, with TLC.
4. **Model left**: `session.rs:91`, the guard's read and its close as two steps, and `session.rs:190` as a run.
