-------------------------- MODULE ConversationState --------------------------
(***************************************************************************)
(* The reducer of src/conversation.rs: a snapshot of a conversation, and   *)
(* what Conversation::apply and Conversation::apply_json do to it with one *)
(* wire event. Pure operators, used by the delivery system (Conversation)  *)
(* and by the session pool (Pool).                                         *)
(*                                                                         *)
(* Data are abstracted to what the guards and the properties tell apart:   *)
(*   - message, thought and user chunks only make a turn longer;           *)
(*   - a tool call is its status, a plan or usage update is not kept;      *)
(*   - pending permissions are a set of ids (their order is only display); *)
(*   - serialized sizes are counted in small units by TurnBytes;           *)
(*   - a turn that no event created yet has last_sequence 0: a turn enters *)
(*     the turns vector with the event of sequence 1, never before.        *)
(***************************************************************************)
EXTENDS Integers, FiniteSets

CONSTANTS
  Requests,       \* request identities, as assigned by the application
  Tools,          \* tool call ids
  PermissionIds,  \* permission request ids
  ToolOf,         \* the tool call each permission request is about
  Values,         \* option lists and modes an agent may advertise
  MaxTurns,       \* MAX_TURNS
  MaxTurnBytes,   \* MAX_TURN_BYTES, in the units of TurnBytes
  MaxEventBytes,  \* MAX_EVENT_BYTES
  EnvelopeBytes   \* what a JSON envelope adds to the event inside it

None == "none"

ASSUME NoneIsNoName ==
  None \notin Requests \cup Tools \cup PermissionIds \cup Values
ASSUME ToolOfIsFunction == ToolOf \in [PermissionIds -> Tools]
ASSUME LimitsAreNaturals ==
  /\ MaxTurns \in Nat
  /\ MaxTurnBytes \in Nat
  /\ MaxEventBytes \in Nat
  /\ EnvelopeBytes \in Nat

-----------------------------------------------------------------------------
(* Events and envelopes *)

ToolStatuses == {"open", "completed", "failed"}
Finished     == {"completed", "failed"}
StopReasons  == {"end_turn", "cancelled", "refusal"}
OtherUpdates == {"config", "mode"}
Terminals    == {"completed", "error"}

Carrying(kinds, tools, permissions, values) ==
  [ kind : kinds, tool : tools, permission : permissions, value : values,
    size : Nat ]

\* value: a tool status (None in an update that carries none), an option list
\* or mode, or a stop reason; size: the length of the serialized event.
Event ==
  Carrying({"message", "error"}, {None}, {None}, {None})
    \cup Carrying({"tool_call"}, Tools, {None}, ToolStatuses)
    \cup Carrying({"tool_update"}, Tools, {None}, ToolStatuses \cup {None})
    \cup Carrying(OtherUpdates, {None}, {None}, Values)
    \cup Carrying({"permission"}, {None}, PermissionIds, {None})
    \cup Carrying({"completed"}, {None}, {None}, StopReasons)

WireVersion == 1

Wire(conversation, request, sequence, event) ==
  [ version |-> WireVersion, conversation_id |-> conversation,
    request_id |-> request, sequence |-> sequence, event |-> event ]

-----------------------------------------------------------------------------
(* Turns *)

TurnStatuses ==
  {"streaming", "awaiting_permission", "completed", "cancelled", "refused",
   "failed"}

Turn ==
  [ last_sequence : Nat,
    text          : Nat,
    tools         : [Tools -> ToolStatuses \cup {None}],
    permissions   : SUBSET PermissionIds,
    updates       : [OtherUpdates -> Values \cup {None}],
    status        : TurnStatuses,
    stop_reason   : StopReasons \cup {None},
    error         : BOOLEAN ]

NewTurn ==
  [ last_sequence |-> 0,
    text          |-> 0,
    tools         |-> [t \in Tools |-> None],
    permissions   |-> {},
    updates       |-> [k \in OtherUpdates |-> None],
    status        |-> "streaming",
    stop_reason   |-> None,
    error         |-> FALSE ]

\* Mutant: an error does not end a turn.
IsTerminalByReason(turn) == turn.stop_reason # None

IsTerminal(turn) == turn.stop_reason # None \/ turn.error

\* The length of the serialized turn, one unit for each tool call, pending
\* permission and outcome. It may shrink: a finished tool drops permissions.
TurnBytes(turn) ==
  turn.text
    + Cardinality({t \in Tools : turn.tools[t] # None})
    + Cardinality(turn.permissions)
    + (IF IsTerminal(turn) THEN 1 ELSE 0)

\* Mutant: an update without a status reopens its call.
UpdatedStatusForgets(turn, e) == IF e.value # None THEN e.value ELSE "open"

\* The status of a tool call after a tool update that may not carry one.
UpdatedStatus(turn, e) ==
  IF e.value # None THEN e.value
  ELSE IF turn.tools[e.tool] # None THEN turn.tools[e.tool]
  ELSE "open"

\* Mutant: permissions go only with an update that itself says finished.
RetainedPermissionsByReport(turn, e) ==
  IF e.kind = "tool_update" /\ e.value \in Finished
  THEN {p \in turn.permissions : ToolOf[p] # e.tool}
  ELSE turn.permissions

\* A tool update that leaves its call finished retains the permissions of the
\* other calls. A tool call (not an update) replaces the call and retains all.
RetainedPermissions(turn, e) ==
  IF e.kind = "tool_update" /\ UpdatedStatus(turn, e) \in Finished
  THEN {p \in turn.permissions : ToolOf[p] # e.tool}
  ELSE turn.permissions

\* Mutant: the status is computed before permissions are dropped.
ResumeEarly(turn, permissions) ==
  [turn EXCEPT !.permissions = permissions,
               !.status = IF turn.permissions = {} THEN "streaming"
                          ELSE "awaiting_permission"]

\* The status a turn goes on with after an update.
Resume(turn, permissions) ==
  [turn EXCEPT !.permissions = permissions,
               !.status = IF permissions = {} THEN "streaming"
                          ELSE "awaiting_permission"]

\* TurnState::update
Update(turn, e) ==
  LET next == Resume(turn, RetainedPermissions(turn, e))
  IN CASE e.kind = "message"      -> [next EXCEPT !.text = @ + e.size]
       [] e.kind = "tool_call"    -> [next EXCEPT !.tools[e.tool] = e.value]
       [] e.kind = "tool_update"  -> [next EXCEPT !.tools[e.tool] =
                                        UpdatedStatus(turn, e)]
       [] e.kind \in OtherUpdates -> [next EXCEPT !.updates[e.kind] = e.value]

\* Mutant: the agent's reason is shown as it is.
OutcomeStatusRaw(reason) == IF reason = "end_turn" THEN "completed" ELSE reason

OutcomeStatus(reason) ==
  CASE reason = "cancelled" -> "cancelled"
    [] reason = "refusal"   -> "refused"
    [] OTHER                -> "completed"

\* The match of Conversation::apply on the event.
ApplyEvent(turn, e) ==
  CASE e.kind = "permission" ->
         [turn EXCEPT !.permissions = @ \cup {e.permission},
                      !.status = "awaiting_permission"]
    [] e.kind = "completed" ->
         [turn EXCEPT !.status = OutcomeStatus(e.value),
                      !.stop_reason = e.value, !.permissions = {}]
    [] e.kind = "error" ->
         [turn EXCEPT !.status = "failed", !.error = TRUE,
                      !.permissions = {}]
    [] OTHER -> Update(turn, e)

-----------------------------------------------------------------------------
(* Conversations *)

NewConversation(id) ==
  [ id |-> id, turns |-> [r \in Requests |-> NewTurn],
    configuration |-> None ]

Known(conv) == {r \in Requests : conv.turns[r].last_sequence > 0}

\* SessionConfiguration::apply on a snapshot, which never learns the agent's
\* modes: an option list replaces the list, a mode update is ignored.
ApplyConfiguration(configuration, e) ==
  IF e.kind = "config" THEN e.value ELSE configuration

\* The turn an event in order would commit.
Candidate(conv, w) ==
  [ApplyEvent(conv.turns[w.request_id], w.event)
     EXCEPT !.last_sequence = w.sequence]

\* Mutants: a gap is taken for progress; sequences counted from zero.
FollowsAny(turn, w)      == w.sequence > turn.last_sequence
FollowsFromZero(turn, w) == w.sequence = turn.last_sequence

Follows(turn, w) == w.sequence = turn.last_sequence + 1

\* What Conversation::apply returns: its early returns, in their order.
Verdict(conv, w) ==
  IF w.version # WireVersion THEN "Version"
  ELSE IF conv.id = None \/ w.conversation_id # conv.id THEN "Scope"
  ELSE IF w.request_id = None \/ w.sequence = 0 THEN "Identity"
  ELSE LET turn == conv.turns[w.request_id] IN
    IF w.sequence <= turn.last_sequence THEN "duplicate"
    ELSE IF IsTerminal(turn) THEN "Terminal"
    ELSE IF /\ w.request_id \notin Known(conv)
            /\ Cardinality(Known(conv)) >= MaxTurns THEN "Capacity"
    ELSE IF ~Follows(turn, w) THEN "Gap"
    ELSE IF w.event.size > MaxEventBytes THEN "Capacity"
    ELSE IF TurnBytes(Candidate(conv, w)) > MaxTurnBytes THEN "Capacity"
    ELSE "applied"

\* Mutant: the controls change before the event is accepted.
ApplyEager(conv, w) ==
  LET verdict == Verdict(conv, w) IN
  [ result |-> verdict,
    conv   |->
      IF verdict = "Capacity"
      THEN [conv EXCEPT !.configuration = ApplyConfiguration(@, w.event)]
      ELSE IF verdict # "applied" THEN conv
      ELSE [conv EXCEPT
              !.turns[w.request_id] = Candidate(conv, w),
              !.configuration = ApplyConfiguration(@, w.event)] ]

\* Conversation::apply: what it returns and the snapshot it leaves.
Apply(conv, w) ==
  LET verdict == Verdict(conv, w) IN
  [ result |-> verdict,
    conv   |->
      IF verdict # "applied" THEN conv
      ELSE [conv EXCEPT
              !.turns[w.request_id] = Candidate(conv, w),
              !.configuration = ApplyConfiguration(@, w.event)] ]

\* Conversation::apply_json: the limit is on the whole envelope here.
ApplyJson(conv, w) ==
  IF w.event.size + EnvelopeBytes > MaxEventBytes
  THEN [result |-> "Capacity", conv |-> conv]
  ELSE Apply(conv, w)

Results ==
  {"applied", "duplicate", "Version", "Scope", "Identity", "Gap",
   "Terminal", "Capacity", "Json"}

Conversations(ids) ==
  [ id : ids, turns : [Requests -> Turn],
    configuration : Values \cup {None} ]
=============================================================================
