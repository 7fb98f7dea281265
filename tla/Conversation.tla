----------------------------- MODULE Conversation -----------------------------
(***************************************************************************)
(* One Conversation (src/conversation.rs) fed by an unreliable transport.  *)
(*                                                                         *)
(* The application keeps the source event log of every request and numbers *)
(* its events from one. Between the log and the snapshot any logged event  *)
(* may be lost, duplicated, delayed or reordered, so what may arrive next  *)
(* is any event logged so far; strays (another version, conversation or    *)
(* identity, text that is not JSON) arrive too. A page that reloads starts *)
(* from an empty snapshot and is replayed the log.                         *)
(***************************************************************************)
EXTENDS ConversationState, Sequences

CONSTANTS
  Self,        \* the identity of this conversation
  Other,       \* another conversation of the same application
  Events,      \* the events the session may stream
  StrayEvents, \* those of them that strays carry
  MaxLog,      \* bound: events logged for one request
  MaxReloads   \* bound: times the consumer starts again from nothing

ASSUME EventsAreEvents == Events \subseteq Event /\ StrayEvents \subseteq Events
ASSUME ConversationsDiffer == Self # Other /\ Self # None
ASSUME BoundsAreNaturals == MaxLog \in Nat /\ MaxReloads \in Nat

VARIABLES
  log,      \* the application's event log, one per request
  conv,     \* the snapshot
  result,   \* what the last apply returned
  reloads   \* times the consumer started again

vars == <<log, conv, result, reloads>>

Cursor(r) == conv.turns[r].last_sequence

Init ==
  /\ log = [r \in Requests |-> <<>>]
  /\ conv = NewConversation(Self)
  /\ result = "applied"
  /\ reloads = 0

\* The session streams an event and the application logs it. Nothing keeps a
\* session from streaming an error after a completion, so neither does the log.
Log(r, e) ==
  /\ Len(log[r]) < MaxLog
  /\ log' = [log EXCEPT ![r] = Append(@, e)]
  /\ UNCHANGED <<conv, result, reloads>>

Return(outcome) ==
  /\ conv' = outcome.conv
  /\ result' = outcome.result
  /\ UNCHANGED <<log, reloads>>

Logged(r, i) == Wire(Self, r, i, log[r][i])

\* Some logged event reaches Conversation::apply.
Deliver(r, i) ==
  /\ i \in 1..Len(log[r])
  /\ Return(Apply(conv, Logged(r, i)))

\* Some logged event reaches Conversation::apply_json (the browser's way in).
DeliverJson(r, i) ==
  /\ i \in 1..Len(log[r])
  /\ Return(ApplyJson(conv, Logged(r, i)))

\* What a consumer may be handed that is no event of this log.
Strays ==
  [ version : {WireVersion, WireVersion + 1}, conversation_id : {Self, Other},
    request_id : Requests \cup {None}, sequence : 0..MaxLog, event : StrayEvents ]

DeliverStray(w) ==
  /\ \/ w.version # WireVersion
     \/ w.conversation_id # Self
     \/ w.request_id = None
     \/ w.sequence = 0
  /\ Return(ApplyJson(conv, w))

\* Text that does not parse never reaches apply.
DeliverMalformed == Return([conv |-> conv, result |-> "Json"])

\* The consumer is created anew; the application replays its log.
Reload ==
  /\ reloads < MaxReloads
  /\ reloads' = reloads + 1
  /\ conv' = NewConversation(Self)
  /\ result' = "applied"
  /\ UNCHANGED log

Next ==
  \/ \E r \in Requests, e \in Events : Log(r, e)
  \/ \E r \in Requests, i \in 1..MaxLog : Deliver(r, i) \/ DeliverJson(r, i)
  \/ \E w \in Strays : DeliverStray(w)
  \/ DeliverMalformed
  \/ Reload

Spec == Init /\ [][Next]_vars

\* The replay the application owes its consumers: the missing event of each
\* request that is not terminal, again and again, through the browser's entry.
Replay(r) == ~IsTerminal(conv.turns[r]) /\ DeliverJson(r, Cursor(r) + 1)

LiveSpec == Spec /\ \A r \in Requests : WF_vars(Replay(r))

-----------------------------------------------------------------------------
(* What the log says, read without running the reducer *)

\* Event i of the log tells the status of tool t.
Reports(l, t, i) ==
  /\ l[i].kind \in {"tool_call", "tool_update"}
  /\ l[i].tool = t
  /\ l[i].value # None

\* The last event up to position n that tells the status of t, if there is one.
LastReport(l, t, n) ==
  {i \in 1..n : Reports(l, t, i) /\ \A j \in i+1..n : ~Reports(l, t, j)}

TheOne(S) == CHOOSE i \in S : TRUE

\* The status of tool t after n events: the last one reported, "open" for a
\* call known only from updates without a status.
StatusAt(l, t, n) ==
  IF LastReport(l, t, n) # {}
  THEN l[TheOne(LastReport(l, t, n))].value
  ELSE IF \E i \in 1..n : l[i].kind = "tool_update" /\ l[i].tool = t
  THEN "open" ELSE None

\* Event n withdraws permission p: its tool call is now known to be over.
Withdraws(l, n, p) ==
  /\ l[n].kind = "tool_update"
  /\ l[n].tool = ToolOf[p]
  /\ StatusAt(l, ToolOf[p], n) \in Finished

Ended(l, n) == \E i \in 1..n : l[i].kind \in Terminals

\* The permissions that await an answer after n events.
PendingAt(l, n) ==
  IF Ended(l, n) THEN {}
  ELSE {p \in PermissionIds :
          \E i \in 1..n :
            /\ l[i].kind = "permission" /\ l[i].permission = p
            /\ \A j \in i+1..n : ~Withdraws(l, j, p)}

\* The units of text in the first n events: a chunk of size k has k of them.
Units(l, n) ==
  UNION {{i} \X (1..l[i].size) : i \in {j \in 1..n : l[j].kind = "message"}}

-----------------------------------------------------------------------------
(* Properties *)

TypeOK ==
  /\ log \in [Requests -> Seq(Events)]
  /\ conv \in Conversations({Self})
  /\ result \in Results
  /\ reloads \in 0..MaxReloads

\* A turn is terminal exactly when the last event it took from its log is a
\* terminal one, it took no terminal event before, and it never ran ahead of
\* the log: whatever is lost, repeated, reordered or logged after the end.
TurnsEndAtFirstTerminal ==
  \A r \in Requests :
    LET n == Cursor(r) IN
    /\ n <= Len(log[r])
    /\ IsTerminal(conv.turns[r]) <=> (n > 0 /\ log[r][n].kind \in Terminals)
    /\ ~Ended(log[r], n - 1)

\* The permissions a turn shows are those its log left unanswered: asked for,
\* not withdrawn by a later update that leaves the tool call finished (one
\* without a status included), the turn not over. A stale one would put a
\* dead question to the user, a missing one would hang the agent.
PermissionsAwaitAnAnswer ==
  \A r \in Requests :
    conv.turns[r].permissions = PendingAt(log[r], Cursor(r))

StatusAgrees(turn) ==
  /\ ~(turn.error /\ turn.stop_reason # None)
  /\ turn.status =
       IF turn.error THEN "failed"
       ELSE IF turn.stop_reason # None THEN OutcomeStatus(turn.stop_reason)
       ELSE IF turn.permissions # {} THEN "awaiting_permission"
       ELSE "streaming"

\* The status a renderer shows always agrees with the rest of the turn: it
\* awaits a permission exactly while one is pending, and the outcome is failed,
\* or the agent's stop reason, never both.
StatusTellsTheTurn == \A r \in Requests : StatusAgrees(conv.turns[r])

\* Text is the concatenation of the chunks taken, each once, and every tool
\* call has the status last reported for it.
TurnRendersItsLog ==
  \A r \in Requests :
    /\ conv.turns[r].text = Cardinality(Units(log[r], Cursor(r)))
    /\ \A t \in Tools : conv.turns[r].tools[t] = StatusAt(log[r], t, Cursor(r))

\* The option list of the snapshot is the one some turn still shows as its
\* latest: no rejected event ever changes the controls.
ConfigurationComesFromATurn ==
  conv.configuration # None =>
    \E r \in Requests : conv.turns[r].updates["config"] = conv.configuration

\* A request that is replayed catches up with its log, reaches its end, or comes
\* to an event that exceeds a limit: nothing else stops it for good, whatever
\* was lost, reordered or rejected before, and however often it starts again.
ReplayCatchesUp ==
  \A r \in Requests :
    []<>(\/ IsTerminal(conv.turns[r])
         \/ Cursor(r) = Len(log[r])
         \/ ApplyJson(conv, Logged(r, Cursor(r) + 1)).result = "Capacity")

\* What a reader of the log promises, whoever renders it: see EventReader.
Reader == INSTANCE EventReader WITH
  Ending <- {e \in Events : e.kind \in Terminals},
  cursor <- [r \in Requests |-> Cursor(r)]

\* Through the snapshot, each log is read in order, each event once, no
\* further than its first terminal event.
ReadsInOrder == Reader!Spec
=============================================================================
