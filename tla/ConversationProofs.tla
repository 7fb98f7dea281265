-------------------------- MODULE ConversationProofs --------------------------
(***************************************************************************)
(* Proofs about Conversation, for every set of requests, tools, events and *)
(* every limit. The argument: a step either leaves log and snapshot alone, *)
(* logs one event, starts the snapshot again, or lets one request that is  *)
(* not terminal take exactly the next event of its log (StepShape).        *)
(***************************************************************************)
EXTENDS Conversation, FiniteSetTheorems, TLAPS

Wires ==
  [ version : Nat, conversation_id : {Self, Other},
    request_id : Requests \cup {None}, sequence : Nat, event : Event ]

\* A wire event that is applied is in order, for a turn that is not terminal.
LEMMA AppliedInOrder ==
  ASSUME NEW c \in Conversations({Self}), NEW w \in Wires,
         Verdict(c, w) = "applied"
  PROVE  /\ w.version = WireVersion
         /\ w.conversation_id = Self
         /\ w.request_id \in Requests
         /\ w.sequence = c.turns[w.request_id].last_sequence + 1
         /\ ~IsTerminal(c.turns[w.request_id])
  BY DEF Verdict, Follows, Wires, Conversations

\* A verdict is one of the results.
LEMMA VerdictIsResult ==
  ASSUME NEW c, NEW w
  PROVE  Verdict(c, w) \in Results
  BY DEF Verdict, Results

\* Whatever apply or apply_json answers but "applied", the snapshot stands.
LEMMA RejectedLeaves ==
  ASSUME NEW c, NEW w
  PROVE  /\ Apply(c, w).result \in Results
         /\ ApplyJson(c, w).result \in Results
         /\ Apply(c, w).result # "applied" => Apply(c, w).conv = c
         /\ ApplyJson(c, w).result # "applied" => ApplyJson(c, w).conv = c
         /\ ApplyJson(c, w).result = "applied" => ApplyJson(c, w) = Apply(c, w)
         /\ Apply(c, w).result = "applied" <=> Verdict(c, w) = "applied"
  BY VerdictIsResult DEF Apply, ApplyJson, Results

\* What one event does to a turn that is not terminal.
LEMMA EventEffect ==
  ASSUME NEW turn \in Turn, ~IsTerminal(turn), NEW e \in Event
  PROVE  /\ ApplyEvent(turn, e) \in Turn
         /\ IsTerminal(ApplyEvent(turn, e)) <=> e.kind \in Terminals
<1> USE DEF IsTerminal, Terminals, Turn, StopReasons, None, ToolStatuses,
            TurnStatuses, OtherUpdates, ApplyEvent
<1>1. CASE e \in Carrying({"message", "error"}, {None}, {None}, {None})
  <2>1. CASE e.kind = "message"
    <3>1. e.size \in Nat /\ turn.text + e.size \in Nat
      BY <1>1 DEF Carrying
    <3>2. RetainedPermissions(turn, e) = turn.permissions
      BY <2>1 DEF RetainedPermissions
    <3>3. QED BY <2>1, <3>1, <3>2 DEF Update, Resume
  <2>2. CASE e.kind = "error"
    BY <1>1, <2>2 DEF Carrying
  <2>3. QED BY <1>1, <2>1, <2>2 DEF Carrying
<1>2. CASE e \in Carrying({"tool_call"}, Tools, {None}, ToolStatuses)
  BY <1>2 DEF Carrying, Update, Resume, RetainedPermissions
<1>3. CASE e \in Carrying({"tool_update"}, Tools, {None}, ToolStatuses \cup {None})
  <2>1. UpdatedStatus(turn, e) \in ToolStatuses
    BY <1>3 DEF Carrying, UpdatedStatus
  <2>2. RetainedPermissions(turn, e) \in SUBSET PermissionIds
    BY <1>3 DEF RetainedPermissions
  <2>3. QED BY <1>3, <2>1, <2>2 DEF Carrying, Update, Resume
<1>4. CASE e \in Carrying(OtherUpdates, {None}, {None}, Values)
  BY <1>4 DEF Carrying, Update, Resume, RetainedPermissions
<1>5. CASE e \in Carrying({"permission"}, {None}, PermissionIds, {None})
  BY <1>5 DEF Carrying
<1>6. CASE e \in Carrying({"completed"}, {None}, {None}, StopReasons)
  BY <1>6 DEF Carrying, OutcomeStatus
<1>7. QED BY <1>1, <1>2, <1>3, <1>4, <1>5, <1>6 DEF Event

\* An event keeps the status of a turn in agreement with its outcome and with
\* its pending permissions.
LEMMA EventKeepsStatus ==
  ASSUME NEW turn \in Turn, ~IsTerminal(turn), NEW e \in Event,
         StatusAgrees(turn)
  PROVE  StatusAgrees(ApplyEvent(turn, e))
<1> USE DEF IsTerminal, Turn, None, StatusAgrees, ApplyEvent, Carrying
<1>1. CASE e.kind \in {"permission", "error"}
  BY <1>1
<1>2. CASE e.kind = "completed"
  BY <1>2 DEF Event, StopReasons, OutcomeStatus, OtherUpdates
<1>3. CASE e.kind \notin {"permission", "error", "completed"}
  <2> DEFINE retained == RetainedPermissions(turn, e)
  <2>1. /\ ApplyEvent(turn, e).permissions = retained
        /\ ApplyEvent(turn, e).stop_reason = None
        /\ ApplyEvent(turn, e).error = FALSE
        /\ ApplyEvent(turn, e).status =
             IF retained = {} THEN "streaming" ELSE "awaiting_permission"
    <3>1. e.kind \in {"message", "tool_call", "tool_update"} \cup OtherUpdates
      BY <1>3 DEF Event
    <3> HIDE DEF retained
    <3>2. QED BY <1>3, <3>1 DEF Update, Resume, OtherUpdates, retained
  <2>2. QED BY <2>1
<1>4. QED BY <1>1, <1>2, <1>3

-----------------------------------------------------------------------------
(* The shape of a step *)

\* Request r takes the next event of its log.
Takes(r) ==
  LET e == log[r][Cursor(r) + 1] IN
  /\ Cursor(r) + 1 \in 1..Len(log[r])
  /\ e \in Event
  /\ ~IsTerminal(conv.turns[r])
  /\ conv' = [conv EXCEPT
                !.turns[r] = [ApplyEvent(@, e) EXCEPT
                                !.last_sequence = Cursor(r) + 1],
                !.configuration = ApplyConfiguration(@, e)]
  /\ log' = log

Still     == conv' = conv /\ log' = log
Grows     == conv' = conv /\ \E r \in Requests, e \in Events :
                                log' = [log EXCEPT ![r] = Append(@, e)]
Restarts  == conv' = NewConversation(Self) /\ log' = log

\* A logged event that is applied is the next one of its turn, which takes it;
\* every other turn stands.
LEMMA AppliedTakes ==
  ASSUME TypeOK, NEW r \in Requests, NEW i \in 1..Len(log[r]),
         Verdict(conv, Logged(r, i)) = "applied",
         conv' = Apply(conv, Logged(r, i)).conv, log' = log
  PROVE  Takes(r)
<1>1. log[r][i] \in Event
  BY EventsAreEvents DEF TypeOK
<1>2. Logged(r, i) \in Wires
  BY <1>1 DEF Logged, Wire, Wires, WireVersion
<1>3. /\ Logged(r, i).request_id = r
      /\ Logged(r, i).sequence = i
      /\ Logged(r, i).event = log[r][i]
  BY DEF Logged, Wire
<1>4. i = Cursor(r) + 1 /\ ~IsTerminal(conv.turns[r])
  BY <1>2, <1>3, AppliedInOrder DEF TypeOK, Cursor
<1>5. conv' = [conv EXCEPT
                 !.turns[r] = Candidate(conv, Logged(r, i)),
                 !.configuration = ApplyConfiguration(@, log[r][i])]
  BY <1>3 DEF Apply
<1>6. Candidate(conv, Logged(r, i)) =
        [ApplyEvent(conv.turns[r], log[r][i]) EXCEPT !.last_sequence = i]
  BY <1>3 DEF Candidate
<1>7. QED BY <1>1, <1>4, <1>5, <1>6 DEF Takes, TypeOK, Conversations

\* Every step stands still, logs an event, restarts, or lets one turn that is
\* not terminal take the next event of its log.
LEMMA StepShape ==
  ASSUME TypeOK, [Next]_vars
  PROVE  Still \/ Grows \/ Restarts \/ \E r \in Requests : Takes(r)
<1>1. ASSUME NEW r \in Requests, NEW e \in Events, Log(r, e)
      PROVE  Grows
  BY <1>1 DEF Log, Grows
<1>2. ASSUME NEW r \in Requests, NEW i \in 1..MaxLog, Deliver(r, i)
      PROVE  Still \/ Takes(r)
  BY <1>2, RejectedLeaves, AppliedTakes DEF Deliver, Return, Still
<1>3. ASSUME NEW r \in Requests, NEW i \in 1..MaxLog, DeliverJson(r, i)
      PROVE  Still \/ Takes(r)
  BY <1>3, RejectedLeaves, AppliedTakes DEF DeliverJson, Return, Still
<1>4. ASSUME NEW w \in Strays, DeliverStray(w)
      PROVE  Still
  <2>1. Verdict(conv, w) # "applied"
    <3>1. conv.id = Self
      BY DEF TypeOK, Conversations
    <3>2. QED BY <1>4, <3>1 DEF DeliverStray, Verdict
  <2>2. QED BY <1>4, <2>1, RejectedLeaves DEF DeliverStray, Return, Still
<1>5. ASSUME DeliverMalformed PROVE Still
  BY <1>5 DEF DeliverMalformed, Return, Still
<1>6. ASSUME Reload PROVE Restarts
  BY <1>6 DEF Reload, Restarts
<1>7. ASSUME UNCHANGED vars PROVE Still
  BY <1>7 DEF vars, Still
<1>8. QED BY <1>1, <1>2, <1>3, <1>4, <1>5, <1>6, <1>7 DEF Next

-----------------------------------------------------------------------------
(* Theorems *)

\* The candidate of a taken event is a turn, one event further.
LEMMA TakenTurn ==
  ASSUME TypeOK, NEW r \in Requests, Takes(r)
  PROVE  LET e == log[r][Cursor(r) + 1] IN
         /\ conv' \in Conversations({Self})
         /\ Cursor(r)' = Cursor(r) + 1
         /\ IsTerminal(conv.turns[r])' <=> e.kind \in Terminals
         /\ \A s \in Requests \ {r} : conv'.turns[s] = conv.turns[s]
<1> DEFINE e == log[r][Cursor(r) + 1]
           next == ApplyEvent(conv.turns[r], e)
<1>1. conv.turns[r] \in Turn /\ e \in Event /\ ~IsTerminal(conv.turns[r])
  BY DEF TypeOK, Conversations, Takes
<1>2. next \in Turn /\ (IsTerminal(next) <=> e.kind \in Terminals)
  BY <1>1, EventEffect
<1>3. Cursor(r) + 1 \in Nat
  BY DEF Takes
<1>4. conv' = [conv EXCEPT
                 !.turns[r] = [next EXCEPT !.last_sequence = Cursor(r) + 1],
                 !.configuration = ApplyConfiguration(@, e)]
  BY DEF Takes
<1>5. ApplyConfiguration(conv.configuration, e) \in Values \cup {None}
  BY <1>1 DEF ApplyConfiguration, TypeOK, Conversations, Event, Carrying,
              OtherUpdates
<1> HIDE DEF next, e
<1>6. [next EXCEPT !.last_sequence = Cursor(r) + 1] \in Turn
  BY <1>2, <1>3 DEF Turn
<1>7. /\ conv'.turns[r] = [next EXCEPT !.last_sequence = Cursor(r) + 1]
      /\ \A s \in Requests \ {r} : conv'.turns[s] = conv.turns[s]
      /\ conv' \in Conversations({Self})
  BY <1>4, <1>5, <1>6 DEF TypeOK, Conversations
<1>8. Cursor(r)' = Cursor(r) + 1
  BY <1>2, <1>7 DEF Cursor, Turn
<1>9. IsTerminal(conv.turns[r])' <=> IsTerminal(next)
  BY <1>2, <1>7 DEF IsTerminal, Turn
<1>10. QED BY <1>2, <1>7, <1>8, <1>9 DEF e

\* An empty snapshot is a snapshot.
LEMMA NewConversationType == NewConversation(Self) \in Conversations({Self})
  BY DEF NewConversation, Conversations, NewTurn, Turn, TurnStatuses

\* Every reachable state is well typed.
THEOREM TypeCorrect == Spec => []TypeOK
<1>1. Init => TypeOK
  BY NewConversationType, BoundsAreNaturals DEF Init, TypeOK, Results
<1>2. TypeOK /\ [Next]_vars => TypeOK'
  <2> SUFFICES ASSUME TypeOK, [Next]_vars PROVE TypeOK'
    OBVIOUS
  <2>1. conv' \in Conversations({Self}) /\ log' \in [Requests -> Seq(Events)]
    <3>1. CASE Still
      BY <3>1 DEF Still, TypeOK
    <3>2. CASE Grows
      BY <3>2 DEF Grows, TypeOK
    <3>3. CASE Restarts
      BY <3>3, NewConversationType DEF Restarts, TypeOK
    <3>4. CASE \E r \in Requests : Takes(r)
      BY <3>4, TakenTurn DEF Takes, TypeOK
    <3>5. QED BY <3>1, <3>2, <3>3, <3>4, StepShape
  <2>2. result' \in Results /\ reloads' \in 0..MaxReloads
    BY RejectedLeaves, BoundsAreNaturals
    DEF TypeOK, Results, Next, vars, Log, Deliver, DeliverJson, DeliverStray,
        DeliverMalformed, Reload, Return
  <2>3. QED BY <2>1, <2>2 DEF TypeOK
<1>3. QED BY <1>1, <1>2, PTL DEF Spec

\* The status of every turn agrees with its outcome and pending permissions.
THEOREM StatusIsRight == Spec => []StatusTellsTheTurn
<1>1. Init => StatusTellsTheTurn
  BY DEF Init, NewConversation, NewTurn, StatusTellsTheTurn, StatusAgrees
<1>2. TypeOK /\ StatusTellsTheTurn /\ [Next]_vars => StatusTellsTheTurn'
  <2> SUFFICES ASSUME TypeOK, StatusTellsTheTurn, [Next]_vars
               PROVE  StatusTellsTheTurn'
    OBVIOUS
  <2>1. CASE Still \/ Grows
    BY <2>1 DEF Still, Grows, StatusTellsTheTurn
  <2>2. CASE Restarts
    BY <2>2 DEF Restarts, NewConversation, NewTurn, StatusTellsTheTurn,
                StatusAgrees
  <2>3. ASSUME NEW r \in Requests, Takes(r) PROVE StatusTellsTheTurn'
    <3> DEFINE next == ApplyEvent(conv.turns[r], log[r][Cursor(r) + 1])
    <3>1. conv.turns[r] \in Turn /\ StatusAgrees(conv.turns[r])
      BY DEF TypeOK, Conversations, StatusTellsTheTurn
    <3>2. next \in Turn /\ StatusAgrees(next)
      BY <2>3, <3>1, EventEffect, EventKeepsStatus DEF Takes
    <3>3. conv'.turns[r] = [next EXCEPT !.last_sequence = Cursor(r) + 1]
      BY <2>3 DEF Takes, TypeOK, Conversations
    <3> HIDE DEF next
    <3>4. StatusAgrees(conv'.turns[r])
      BY <3>2, <3>3 DEF StatusAgrees, Turn
    <3>5. QED BY <2>3, <3>4, TakenTurn DEF StatusTellsTheTurn
  <2>4. QED BY <2>1, <2>2, <2>3, StepShape
<1>3. QED BY <1>1, <1>2, TypeCorrect, PTL DEF Spec

\* A turn is terminal exactly when the last event it took is terminal, and it
\* took no terminal event before: its first terminal event ends it for good.
THEOREM EndsAtFirstTerminal == Spec => []TurnsEndAtFirstTerminal
<1> DEFINE Ends(r) ==
      /\ Cursor(r) <= Len(log[r])
      /\ IsTerminal(conv.turns[r]) <=>
           (Cursor(r) > 0 /\ log[r][Cursor(r)].kind \in Terminals)
      /\ ~Ended(log[r], Cursor(r) - 1)
    IInv == \A r \in Requests : Ends(r)
<1>1. TurnsEndAtFirstTerminal <=> IInv
  BY DEF TurnsEndAtFirstTerminal
<1>2. Init => IInv
  BY DEF Init, NewConversation, NewTurn, IsTerminal, Cursor, Ended
<1>3. TypeOK /\ IInv /\ [Next]_vars => IInv'
  <2> SUFFICES ASSUME TypeOK, IInv, [Next]_vars, NEW s \in Requests
               PROVE  Ends(s)'
    OBVIOUS
  <2>0. Cursor(s) \in Nat /\ log[s] \in Seq(Events) /\ Ends(s)
    BY DEF TypeOK, Conversations, Turn, Cursor
  <2>1. CASE Still
    BY <2>0, <2>1 DEF Still, Cursor
  <2>2. CASE Grows
    <3>1. PICK r \in Requests, e \in Events :
            log' = [log EXCEPT ![r] = Append(@, e)]
      BY <2>2 DEF Grows
    <3>2. /\ Len(log'[s]) >= Len(log[s])
          /\ \A i \in 1..Len(log[s]) : log'[s][i] = log[s][i]
      BY <2>0, <3>1 DEF TypeOK
    <3>3. Cursor(s)' = Cursor(s) /\ conv' = conv
      BY <2>2 DEF Grows, Cursor
    <3>4. Len(log[s]) \in Nat /\ Len(log'[s]) \in Nat
      BY <2>0, <3>1 DEF TypeOK
    <3>5. ~Ended(log'[s], Cursor(s) - 1)
      BY <2>0, <3>2, <3>4 DEF Ended
    <3>6. Cursor(s) > 0 => log'[s][Cursor(s)] = log[s][Cursor(s)]
      BY <2>0, <3>2, <3>4
    <3>7. QED BY <2>0, <3>2, <3>3, <3>4, <3>5, <3>6
  <2>3. CASE Restarts
    BY <2>0, <2>3
    DEF Restarts, NewConversation, NewTurn, IsTerminal, Cursor, Ended
  <2>4. ASSUME NEW r \in Requests, Takes(r) PROVE Ends(s)'
    <3>0. /\ log' = log
          /\ Cursor(r)' = Cursor(r) + 1
          /\ Cursor(r) + 1 <= Len(log[r])
          /\ IsTerminal(conv.turns[r])' <=>
               log[r][Cursor(r) + 1].kind \in Terminals
      <4>1. /\ Cursor(r)' = Cursor(r) + 1
            /\ IsTerminal(conv.turns[r])' <=>
                 log[r][Cursor(r) + 1].kind \in Terminals
        BY <2>4, TakenTurn
      <4>2. log' = log /\ Cursor(r) + 1 \in 1..Len(log[r])
        BY <2>4 DEF Takes
      <4>3. QED BY <4>1, <4>2
    <3>1. CASE s # r
      BY <2>0, <2>4, <3>1, TakenTurn DEF Takes, Cursor
    <3>2. CASE s = r
      <4>1. /\ log' = log
            /\ Cursor(s)' = Cursor(s) + 1
            /\ Cursor(s) + 1 <= Len(log[s])
            /\ IsTerminal(conv.turns[s])' <=>
                 log[s][Cursor(s) + 1].kind \in Terminals
        BY <3>0, <3>2 DEF Cursor, IsTerminal
      <4>2. ~Ended(log[s], Cursor(s))
        <5>1. Cursor(s) = 0 \/ log[s][Cursor(s)].kind \notin Terminals
          BY <2>0, <2>4, <3>2 DEF Takes
        <5>2. \A i \in 1..Cursor(s) : i \in 1..Cursor(s) - 1 \/ i = Cursor(s)
          BY <2>0
        <5>3. \A i \in 1..Cursor(s) - 1 : log[s][i].kind \notin Terminals
          BY <2>0 DEF Ended
        <5>4. Cursor(s) = 0 => 1..Cursor(s) = {}
          BY <2>0
        <5>5. QED BY <2>0, <5>1, <5>2, <5>3, <5>4 DEF Ended
      <4>3. QED BY <2>0, <4>1, <4>2
    <3>3. QED BY <3>1, <3>2
  <2>5. QED BY <2>1, <2>2, <2>3, <2>4, StepShape
<1> HIDE DEF IInv
<1>4. QED BY <1>1, <1>2, <1>3, TypeCorrect, PTL DEF Spec

\* The snapshot implements EventReader: each log is read in order, each event
\* once, no further than its first terminal event.
THEOREM Refinement == Spec => ReadsInOrder
<1>1. Init => Reader!Init
  BY DEF Init, Reader!Init, NewConversation, NewTurn, Cursor
<1>2. TypeOK /\ TurnsEndAtFirstTerminal /\ [Next]_vars
        => [Reader!Next]_(Reader!readerVars)
  <2> SUFFICES ASSUME TypeOK, TurnsEndAtFirstTerminal, [Next]_vars
               PROVE  Reader!Next \/ UNCHANGED Reader!readerVars
    OBVIOUS
  <2> DEFINE cursor == [r \in Requests |-> Cursor(r)]
  <2>1. CASE Still
    BY <2>1 DEF Still, Cursor, Reader!readerVars
  <2>2. CASE Grows
    BY <2>2 DEF Grows, Cursor, Reader!Next, Reader!Grow
  <2>3. CASE Restarts
    BY <2>3 DEF Restarts, Cursor, NewConversation, NewTurn, Reader!Next,
                Reader!StartAgain
  <2>4. ASSUME NEW r \in Requests, Takes(r) PROVE Reader!Take(r)
    <3>1. cursor' = [cursor EXCEPT ![r] = @ + 1]
      BY <2>4, TakenTurn DEF Cursor
    <3>2. ~Reader!Over(r)
      <4>1. Cursor(r) \in Nat
        BY DEF TypeOK, Conversations, Turn, Cursor
      <4>2. ~Ended(log[r], Cursor(r))
        BY <2>4, <4>1 DEF TurnsEndAtFirstTerminal, Takes, Ended
      <4>3. cursor[r] = Cursor(r)
        OBVIOUS
      <4> HIDE DEF cursor
      <4>4. QED BY <4>2, <4>3 DEF Ended, Reader!Over, cursor
    <3>3. cursor[r] < Len(log[r])
      BY <2>4 DEF Takes, Cursor, TypeOK, Conversations, Turn
    <3>4. QED BY <2>4, <3>1, <3>2, <3>3 DEF Takes, Reader!Take
  <2>5. QED BY <2>1, <2>2, <2>3, <2>4, StepShape DEF Reader!Next
<1>3. QED BY <1>1, <1>2, TypeCorrect, EndsAtFirstTerminal, PTL
          DEF Spec, ReadsInOrder, Reader!Spec

-----------------------------------------------------------------------------
(* Tool calls and permissions *)

\* The status of a tool call after one more event.
LEMMA StatusStep ==
  ASSUME NEW l \in Seq(Event), NEW n \in Nat, n + 1 <= Len(l), NEW t \in Tools
  PROVE  StatusAt(l, t, n + 1) =
           IF Reports(l, t, n + 1) THEN l[n + 1].value
           ELSE IF /\ l[n + 1].kind = "tool_update" /\ l[n + 1].tool = t
                   /\ StatusAt(l, t, n) = None
           THEN "open" ELSE StatusAt(l, t, n)
<1>1. CASE Reports(l, t, n + 1)
  <2>1. LastReport(l, t, n + 1) = {n + 1}
    BY <1>1 DEF LastReport
  <2>2. TheOne({n + 1}) = n + 1
    BY DEF TheOne
  <2>3. QED BY <1>1, <2>1, <2>2 DEF StatusAt
<1>2. CASE ~Reports(l, t, n + 1)
  <2>1. LastReport(l, t, n + 1) = LastReport(l, t, n)
    <3>1. \A i \in 1..n + 1 : i \in 1..n \/ i = n + 1
      OBVIOUS
    <3>2. \A i \in 1..n : i \in 1..n + 1
      OBVIOUS
    <3>3. \A i \in 1..n : \A j \in i+1..n+1 : j \in i+1..n \/ j = n + 1
      OBVIOUS
    <3>4. \A i \in 1..n : \A j \in i+1..n : j \in i+1..n+1
      OBVIOUS
    <3>5. ASSUME NEW i \in LastReport(l, t, n + 1) PROVE i \in LastReport(l, t, n)
      <4>1. i \in 1..n + 1 /\ Reports(l, t, i)
            /\ \A j \in i+1..n+1 : ~Reports(l, t, j)
        BY DEF LastReport
      <4>2. i \in 1..n
        BY <1>2, <3>1, <4>1
      <4>3. QED BY <3>4, <4>1, <4>2 DEF LastReport
    <3>6. ASSUME NEW i \in LastReport(l, t, n) PROVE i \in LastReport(l, t, n + 1)
      BY <1>2, <3>2, <3>3 DEF LastReport
    <3>7. QED BY <3>5, <3>6
  <2>2. CASE LastReport(l, t, n) # {}
    <3>1. StatusAt(l, t, n) = StatusAt(l, t, n + 1)
      BY <2>1, <2>2 DEF StatusAt
    <3>2. StatusAt(l, t, n) # None
      <4>1. TheOne(LastReport(l, t, n)) \in LastReport(l, t, n)
        BY <2>2 DEF TheOne
      <4>2. \A i \in LastReport(l, t, n) : l[i].value # None
        BY DEF LastReport, Reports
      <4>3. QED BY <2>2, <4>1, <4>2 DEF StatusAt
    <3>3. QED BY <1>2, <3>1, <3>2
  <2>3. CASE LastReport(l, t, n) = {}
    <3> DEFINE touched(m) == \E i \in 1..m : l[i].kind = "tool_update" /\ l[i].tool = t
    <3>1. touched(n + 1) <=>
            (touched(n) \/ (l[n + 1].kind = "tool_update" /\ l[n + 1].tool = t))
      <4>1. \A i : i \in 1..n + 1 <=> (i \in 1..n \/ i = n + 1)
        OBVIOUS
      <4>2. QED BY <4>1
    <3>2. /\ StatusAt(l, t, n + 1) = IF touched(n + 1) THEN "open" ELSE None
          /\ StatusAt(l, t, n) = IF touched(n) THEN "open" ELSE None
      BY <2>1, <2>3 DEF StatusAt
    <3> HIDE DEF touched
    <3>3. QED BY <1>2, <3>1, <3>2 DEF None
  <2>4. QED BY <2>2, <2>3
<1>3. QED BY <1>1, <1>2

\* The pending permissions after one more event that does not end the request.
LEMMA PendingStep ==
  ASSUME NEW l \in Seq(Event), NEW n \in Nat, n + 1 <= Len(l),
         ~Ended(l, n), l[n + 1].kind \notin Terminals
  PROVE  PendingAt(l, n + 1) =
           {p \in PendingAt(l, n) : ~Withdraws(l, n + 1, p)}
             \cup {p \in PermissionIds :
                     l[n + 1].kind = "permission" /\ l[n + 1].permission = p}
<1> DEFINE Asks(i, p) == l[i].kind = "permission" /\ l[i].permission = p
           Stands(m, p) == \E i \in 1..m :
             Asks(i, p) /\ \A j \in i+1..m : ~Withdraws(l, j, p)
<1>1. \A i : i \in 1..n + 1 <=> (i \in 1..n \/ i = n + 1)
  OBVIOUS
<1>2. ~Ended(l, n + 1)
  BY <1>1 DEF Ended
<1>3. ASSUME NEW p \in PermissionIds
      PROVE  Stands(n + 1, p) <=>
               (Stands(n, p) /\ ~Withdraws(l, n + 1, p)) \/ Asks(n + 1, p)
  <2> HIDE DEF Asks
  <2>1. \A i \in 1..n : \A j : j \in i+1..n+1 <=> (j \in i+1..n \/ j = n + 1)
    OBVIOUS
  <2>2. (n+1)+1..n+1 = {}
    OBVIOUS
  <2>3. QED BY <1>1, <2>1, <2>2
<1>4. \A p : /\ p \in PendingAt(l, n) <=> p \in PermissionIds /\ Stands(n, p)
             /\ p \in PendingAt(l, n + 1) <=> p \in PermissionIds /\ Stands(n + 1, p)
  BY <1>2 DEF PendingAt
<1> HIDE DEF Stands
<1>5. QED BY <1>3, <1>4

\* What a log says of its first n events does not change as it grows.
LEMMA PrefixStands ==
  ASSUME NEW l, NEW m, NEW n \in Nat, \A i \in 1..n : l[i] = m[i]
  PROVE  /\ \A t \in Tools, k \in 0..n : StatusAt(l, t, k) = StatusAt(m, t, k)
         /\ PendingAt(l, n) = PendingAt(m, n)
<1>1. \A t \in Tools, i \in 1..n : Reports(l, t, i) <=> Reports(m, t, i)
  BY DEF Reports
<1>2. ASSUME NEW t \in Tools, NEW k \in 0..n
      PROVE  StatusAt(l, t, k) = StatusAt(m, t, k)
  <2>1. \A i \in 1..k : i \in 1..n /\ \A j \in i+1..k : j \in 1..n
    OBVIOUS
  <2>2. LastReport(l, t, k) = LastReport(m, t, k)
    BY <1>1, <2>1 DEF LastReport
  <2>3. CASE LastReport(l, t, k) # {}
    <3>1. TheOne(LastReport(l, t, k)) \in 1..n
      BY <2>1, <2>3 DEF TheOne, LastReport
    <3>2. QED BY <2>2, <2>3, <3>1 DEF StatusAt
  <2>4. CASE LastReport(l, t, k) = {}
    BY <2>1, <2>2, <2>4 DEF StatusAt
  <2>5. QED BY <2>3, <2>4
<1>3. \A i \in 1..n, p \in PermissionIds : Withdraws(l, i, p) <=> Withdraws(m, i, p)
  BY <1>2, ToolOfIsFunction DEF Withdraws
<1>4. Ended(l, n) <=> Ended(m, n)
  BY DEF Ended
<1>5. \A i \in 1..n : \A j \in i+1..n : j \in 1..n
  OBVIOUS
<1>6. PendingAt(l, n) = PendingAt(m, n)
  BY <1>3, <1>4, <1>5 DEF PendingAt
<1>7. QED BY <1>2, <1>6

\* The tools and permissions of a turn are those of the n events it took.
Renders(turn, l, n) ==
  /\ \A t \in Tools : turn.tools[t] = StatusAt(l, t, n)
  /\ turn.permissions = PendingAt(l, n)

\* A turn that renders n events of its log renders n + 1 after the next one.
LEMMA EventKeepsRendering ==
  ASSUME NEW turn \in Turn, ~IsTerminal(turn), NEW l \in Seq(Event),
         NEW n \in Nat, n + 1 <= Len(l), ~Ended(l, n), Renders(turn, l, n)
  PROVE  Renders(ApplyEvent(turn, l[n + 1]), l, n + 1)
<1> DEFINE e == l[n + 1]
           next == ApplyEvent(turn, e)
<1>0. e \in Event /\ turn \in Turn
  OBVIOUS
<1>1. \A t \in Tools : next.tools[t] = StatusAt(l, t, n + 1)
  <2> SUFFICES ASSUME NEW t \in Tools
               PROVE  next.tools[t] = StatusAt(l, t, n + 1)
    OBVIOUS
  <2>1. turn.tools[t] = StatusAt(l, t, n)
    BY DEF Renders
  <2>2. StatusAt(l, t, n + 1) =
          IF Reports(l, t, n + 1) THEN e.value
          ELSE IF e.kind = "tool_update" /\ e.tool = t /\ turn.tools[t] = None
          THEN "open" ELSE turn.tools[t]
    BY <2>1, StatusStep
  <2> HIDE DEF e
  <2>3. CASE e.kind = "tool_call"
    <3>1. /\ next.tools = [turn.tools EXCEPT ![e.tool] = e.value]
          /\ e.value # None /\ e.tool \in Tools
      BY <1>0, <2>3 DEF Turn, ApplyEvent, Update, Resume, Event, Carrying, OtherUpdates,
                        ToolStatuses, None, StopReasons
    <3>2. Reports(l, t, n + 1) <=> e.tool = t
      BY <2>3, <3>1 DEF Reports, e
    <3>3. QED BY <1>0, <2>2, <2>3, <3>1, <3>2 DEF Turn
  <2>4. CASE e.kind = "tool_update"
    <3>1. /\ next.tools = [turn.tools EXCEPT ![e.tool] = UpdatedStatus(turn, e)]
          /\ e.tool \in Tools
      BY <1>0, <2>4 DEF Turn, ApplyEvent, Update, Resume, Event, Carrying, OtherUpdates
    <3>2. Reports(l, t, n + 1) <=> e.tool = t /\ e.value # None
      BY <2>4 DEF Reports, e
    <3>3. QED BY <1>0, <2>2, <2>4, <3>1, <3>2 DEF Turn, UpdatedStatus
  <2>5. CASE e.kind \notin {"tool_call", "tool_update"}
    <3>1. next.tools = turn.tools
      BY <1>0, <2>5 DEF Turn, ApplyEvent, Update, Resume, Event, Carrying, OtherUpdates
    <3>2. ~Reports(l, t, n + 1)
      BY <2>5 DEF Reports, e
    <3>3. QED BY <2>2, <2>5, <3>1, <3>2
  <2>6. QED BY <2>3, <2>4, <2>5
<1>2. next.permissions = PendingAt(l, n + 1)
  <2>1. CASE e.kind \in Terminals
    <3>1. next.permissions = {}
      BY <1>0, <2>1 DEF Terminals, Turn, ApplyEvent
    <3>2. Ended(l, n + 1)
      <4>1. n + 1 \in 1..n + 1
        OBVIOUS
      <4>2. QED BY <2>1, <4>1 DEF Ended
    <3>3. QED BY <3>1, <3>2 DEF PendingAt
  <2>2. CASE e.kind \notin Terminals
    <3>1. PendingAt(l, n + 1) =
            {p \in turn.permissions : ~Withdraws(l, n + 1, p)}
              \cup {p \in PermissionIds : e.kind = "permission" /\ e.permission = p}
      BY <2>2, PendingStep DEF Renders
    <3>2. e.kind = "tool_update" => StatusAt(l, e.tool, n + 1) = UpdatedStatus(turn, e)
      <4>1. ASSUME e.kind = "tool_update"
            PROVE  next.tools[e.tool] = UpdatedStatus(turn, e) /\ e.tool \in Tools
        <5> HIDE DEF e
        <5>1. QED BY <1>0, <4>1 DEF next, Turn, ApplyEvent, Update, Resume, Event,
                                  Carrying, OtherUpdates
      <4>2. QED BY <1>1, <4>1
    <3>3. \A p \in PermissionIds :
            Withdraws(l, n + 1, p) <=>
              /\ e.kind = "tool_update" /\ e.tool = ToolOf[p]
              /\ UpdatedStatus(turn, e) \in Finished
      BY <3>2 DEF Withdraws
    <3> HIDE DEF e
    <3>4. CASE e.kind = "permission"
      <4>1. next.permissions = turn.permissions \cup {e.permission}
            /\ e.permission \in PermissionIds
        BY <1>0, <3>4 DEF next, Turn, ApplyEvent, Event, Carrying, OtherUpdates
      <4>2. QED BY <1>0, <3>1, <3>3, <3>4, <4>1 DEF Turn
    <3>5. CASE e.kind # "permission"
      <4>1. next.permissions = RetainedPermissions(turn, e)
        BY <1>0, <2>2, <3>5 DEF next, Turn, ApplyEvent, Update, Resume, Event, Carrying,
                               OtherUpdates, Terminals
      <4>2. QED BY <1>0, <3>1, <3>3, <3>5, <4>1 DEF Turn, RetainedPermissions
    <3>6. QED BY <3>4, <3>5
  <2>3. QED BY <2>1, <2>2
<1>3. QED BY <1>1, <1>2 DEF Renders

\* A turn that took nothing renders nothing of its log.
LEMMA NewTurnRenders ==
  ASSUME NEW l
  PROVE  NewTurn.last_sequence = 0 /\ Renders(NewTurn, l, 0)
<1>1. 1..0 = {}
  OBVIOUS
<1>2. \A t : LastReport(l, t, 0) = {}
  BY <1>1 DEF LastReport
<1>3. \A t : StatusAt(l, t, 0) = None
  BY <1>1, <1>2 DEF StatusAt
<1>4. PendingAt(l, 0) = {}
  BY <1>1 DEF PendingAt
<1>5. QED BY <1>3, <1>4 DEF Renders, NewTurn

\* Every turn renders what it took of its log.
Rendering == \A r \in Requests : Renders(conv.turns[r], log[r], Cursor(r))

\* Each step keeps the turns rendering what they took.
LEMMA RenderingKept ==
  ASSUME TypeOK, TurnsEndAtFirstTerminal, Rendering, [Next]_vars
  PROVE  Rendering'
<1> SUFFICES ASSUME NEW s \in Requests
             PROVE  Renders(conv.turns[s], log[s], Cursor(s))'
  BY DEF Rendering
<1>0. /\ Cursor(s) \in Nat
      /\ log[s] \in Seq(Event)
      /\ conv.turns[s] \in Turn
      /\ Renders(conv.turns[s], log[s], Cursor(s))
      /\ Cursor(s) <= Len(log[s])
  BY EventsAreEvents
  DEF Rendering, TypeOK, Conversations, Turn, Cursor, TurnsEndAtFirstTerminal
<1>1. CASE Still
  BY <1>0, <1>1 DEF Still, Cursor, Renders
<1>2. CASE Grows
  <2>1. PICK r \in Requests, e \in Events :
          log' = [log EXCEPT ![r] = Append(@, e)]
    BY <1>2 DEF Grows
  <2>2. \A i \in 1..Cursor(s) : log[s][i] = log'[s][i]
    BY <1>0, <2>1 DEF TypeOK
  <2>3. /\ \A t \in Tools, k \in 0..Cursor(s) :
              StatusAt(log[s], t, k) = StatusAt(log'[s], t, k)
        /\ PendingAt(log[s], Cursor(s)) = PendingAt(log'[s], Cursor(s))
    BY <1>0, <2>2, PrefixStands
  <2>4. Cursor(s) \in 0..Cursor(s)
    BY <1>0
  <2>5. Renders(conv.turns[s], log'[s], Cursor(s))
    BY <1>0, <2>3, <2>4 DEF Renders
  <2>6. conv' = conv /\ Cursor(s)' = Cursor(s)
    BY <1>2 DEF Grows, Cursor
  <2>7. QED BY <2>5, <2>6 DEF Renders
<1>3. CASE Restarts
  BY <1>3, NewTurnRenders DEF Restarts, NewConversation, Cursor, Renders
<1>4. ASSUME NEW r \in Requests, Takes(r)
      PROVE  Renders(conv.turns[s], log[s], Cursor(s))'
  <2>1. CASE s # r
    BY <1>0, <1>4, <2>1, TakenTurn DEF Takes, Cursor, Renders
  <2>2. CASE s = r
    <3> DEFINE e == log[s][Cursor(s) + 1]
               next == ApplyEvent(conv.turns[s], e)
    <3>1. ~Ended(log[s], Cursor(s))
      BY <1>0, <1>4, <2>2 DEF TurnsEndAtFirstTerminal, Takes, Ended
    <3>2. Renders(next, log[s], Cursor(s) + 1)
      BY <1>0, <1>4, <2>2, <3>1, EventKeepsRendering DEF Takes
    <3>3. next \in Turn
      BY <1>0, <1>4, <2>2, EventEffect DEF Takes
    <3>4. /\ conv'.turns[s] = [next EXCEPT !.last_sequence = Cursor(s) + 1]
          /\ log' = log
      BY <1>4, <2>2 DEF Takes, TypeOK, Conversations
    <3> HIDE DEF next
    <3>5. QED BY <3>2, <3>3, <3>4 DEF Renders, Turn, Cursor
  <2>3. QED BY <2>1, <2>2
<1>5. QED BY <1>1, <1>2, <1>3, <1>4, StepShape

\* So every reachable snapshot renders its log.
LEMMA RenderingHolds == Spec => []Rendering
<1>1. Init => Rendering
  BY NewTurnRenders DEF Rendering, Init, NewConversation, Cursor
<1>2. QED BY <1>1, RenderingKept, TypeCorrect, EndsAtFirstTerminal, PTL DEF Spec

\* The permissions shown are exactly those the log left unanswered.
THEOREM PermissionsAreRight == Spec => []PermissionsAwaitAnAnswer
<1>1. Rendering => PermissionsAwaitAnAnswer
  BY DEF Rendering, Renders, PermissionsAwaitAnAnswer
<1>2. QED BY <1>1, RenderingHolds, PTL

-----------------------------------------------------------------------------
(* Text *)

\* A chunk of size k has k units.
LEMMA ChunkCounted ==
  ASSUME NEW i, NEW k \in Nat
  PROVE  IsFiniteSet({i} \X (1..k)) /\ Cardinality({i} \X (1..k)) = k
<1>1. IsFiniteSet({i}) /\ Cardinality({i}) = 1
  BY FS_Singleton
<1>2. IsFiniteSet(1..k)
  BY FS_Interval
<1>3. Cardinality(1..k) = k
  BY FS_Interval
<1>4. /\ IsFiniteSet({i} \X (1..k))
      /\ Cardinality({i} \X (1..k)) = Cardinality({i}) * Cardinality(1..k)
  BY <1>1, <1>2, FS_Product
<1>5. QED BY <1>1, <1>3, <1>4

\* One more event adds its units if it is a chunk, and nothing otherwise.
LEMMA UnitsStep ==
  ASSUME NEW l \in Seq(Event), NEW n \in Nat, n + 1 <= Len(l),
         IsFiniteSet(Units(l, n))
  PROVE  /\ IsFiniteSet(Units(l, n + 1))
         /\ Cardinality(Units(l, n + 1)) =
              Cardinality(Units(l, n))
                + (IF l[n + 1].kind = "message" THEN l[n + 1].size ELSE 0)
<1>1. \A i : i \in 1..n + 1 <=> (i \in 1..n \/ i = n + 1)
  OBVIOUS
<1>2. CASE l[n + 1].kind # "message"
  <2>1. Units(l, n + 1) = Units(l, n)
    BY <1>1, <1>2 DEF Units
  <2>2. Cardinality(Units(l, n)) \in Nat
    BY FS_CardinalityType
  <2>3. QED BY <1>2, <2>1, <2>2
<1>3. CASE l[n + 1].kind = "message"
  <2> DEFINE chunk == {n + 1} \X (1..l[n + 1].size)
  <2>1. l[n + 1].size \in Nat
    BY DEF Event, Carrying
  <2>2. Units(l, n + 1) = Units(l, n) \cup chunk
    BY <1>1, <1>3 DEF Units
  <2>3. Units(l, n) \cap chunk = {}
    <3>1. \A u \in Units(l, n) : u[1] \in 1..n
      BY DEF Units
    <3>2. \A u \in chunk : u[1] = n + 1
      OBVIOUS
    <3>3. QED BY <3>1, <3>2
  <2>4. IsFiniteSet(chunk) /\ Cardinality(chunk) = l[n + 1].size
    BY <2>1, ChunkCounted
  <2> HIDE DEF chunk
  <2>5. Cardinality({}) = 0
    BY FS_EmptySet
  <2>6. /\ IsFiniteSet(Units(l, n) \cup chunk)
        /\ Cardinality(Units(l, n) \cup chunk) =
             Cardinality(Units(l, n)) + Cardinality(chunk)
               - Cardinality(Units(l, n) \cap chunk)
    BY <2>4, FS_Union
  <2>7. Cardinality(Units(l, n)) \in Nat
    BY FS_CardinalityType
  <2>8. Cardinality(Units(l, n + 1)) = Cardinality(Units(l, n)) + l[n + 1].size
    <3>1. Cardinality(Units(l, n) \cap chunk) = 0
      BY <2>3, <2>5
    <3>2. Cardinality(Units(l, n + 1)) = Cardinality(Units(l, n)) + Cardinality(chunk) - 0
      BY <2>2, <2>6, <3>1
    <3>3. QED BY <2>1, <2>4, <2>7, <3>2
  <2>9. IsFiniteSet(Units(l, n + 1))
    BY <2>2, <2>6
  <2>10. QED BY <1>3, <2>8, <2>9
<1>4. QED BY <1>2, <1>3

\* An event adds its size to the text if it is a chunk, and nothing otherwise.
LEMMA EventText ==
  ASSUME NEW turn \in Turn, NEW e \in Event
  PROVE  ApplyEvent(turn, e).text =
           turn.text + (IF e.kind = "message" THEN e.size ELSE 0)
<1> USE DEF Turn, ApplyEvent, Update, Resume, OtherUpdates
<1>1. turn.text \in Nat
  OBVIOUS
<1>2. CASE e.kind \in {"permission", "completed", "error"}
  BY <1>1, <1>2
<1>3. CASE e.kind = "message"
  BY <1>1, <1>3
<1>4. CASE e.kind \in {"tool_call", "tool_update", "config", "mode"}
  BY <1>1, <1>4
<1>5. QED BY <1>2, <1>3, <1>4 DEF Event, Carrying

\* The text of a turn has each unit of each chunk the turn took, once.
Texts ==
  \A r \in Requests :
    /\ IsFiniteSet(Units(log[r], Cursor(r)))
    /\ conv.turns[r].text = Cardinality(Units(log[r], Cursor(r)))

\* A turn that took nothing has no text.
LEMMA NewTurnIsEmpty ==
  ASSUME NEW l
  PROVE  IsFiniteSet(Units(l, 0)) /\ NewTurn.text = Cardinality(Units(l, 0))
<1>1. Units(l, 0) = {}
  BY DEF Units
<1>2. QED BY <1>1, FS_EmptySet DEF NewTurn

\* Each step keeps the text of every turn.
LEMMA TextsKept ==
  ASSUME TypeOK, TurnsEndAtFirstTerminal, Texts, [Next]_vars
  PROVE  Texts'
<1> SUFFICES ASSUME NEW s \in Requests
             PROVE  /\ IsFiniteSet(Units(log[s], Cursor(s)))'
                    /\ (conv.turns[s].text = Cardinality(Units(log[s], Cursor(s))))'
  BY DEF Texts
<1>0. /\ Cursor(s) \in Nat
      /\ log[s] \in Seq(Event)
      /\ conv.turns[s] \in Turn
      /\ IsFiniteSet(Units(log[s], Cursor(s)))
      /\ conv.turns[s].text = Cardinality(Units(log[s], Cursor(s)))
      /\ Cursor(s) <= Len(log[s])
  BY EventsAreEvents
  DEF Texts, TypeOK, Conversations, Turn, Cursor, TurnsEndAtFirstTerminal
<1>1. CASE Still
  BY <1>0, <1>1 DEF Still, Cursor
<1>2. CASE Grows
  <2>1. PICK r \in Requests, e \in Events :
          log' = [log EXCEPT ![r] = Append(@, e)]
    BY <1>2 DEF Grows
  <2>2. \A i \in 1..Cursor(s) : log[s][i] = log'[s][i]
    BY <1>0, <2>1 DEF TypeOK
  <2>3. Units(log'[s], Cursor(s)) = Units(log[s], Cursor(s))
    BY <2>2 DEF Units
  <2>4. conv' = conv /\ Cursor(s)' = Cursor(s)
    BY <1>2 DEF Grows, Cursor
  <2>5. QED BY <1>0, <2>3, <2>4
<1>3. CASE Restarts
  BY <1>3, NewTurnIsEmpty, NewTurnRenders DEF Restarts, NewConversation, Cursor
<1>4. ASSUME NEW r \in Requests, Takes(r)
      PROVE  /\ IsFiniteSet(Units(log[s], Cursor(s)))'
             /\ (conv.turns[s].text = Cardinality(Units(log[s], Cursor(s))))'
  <2>1. CASE s # r
    <3>1. conv'.turns[s] = conv.turns[s] /\ log' = log
      BY <1>4, <2>1, TakenTurn DEF Takes
    <3>2. QED BY <1>0, <3>1 DEF Cursor
  <2>2. CASE s = r
    <3> DEFINE e == log[s][Cursor(s) + 1]
               next == ApplyEvent(conv.turns[s], e)
    <3>1. e \in Event /\ Cursor(s) + 1 <= Len(log[s])
      BY <1>4, <2>2 DEF Takes
    <3>2. next.text = conv.turns[s].text + (IF e.kind = "message" THEN e.size ELSE 0)
      BY <1>0, <3>1, EventText
    <3>3. /\ IsFiniteSet(Units(log[s], Cursor(s) + 1))
          /\ Cardinality(Units(log[s], Cursor(s) + 1)) =
               Cardinality(Units(log[s], Cursor(s)))
                 + (IF e.kind = "message" THEN e.size ELSE 0)
      BY <1>0, <3>1, UnitsStep
    <3>4. next \in Turn
      BY <1>0, <1>4, <2>2, EventEffect DEF Takes
    <3>5. /\ conv'.turns[s] = [next EXCEPT !.last_sequence = Cursor(s) + 1]
          /\ log' = log
      BY <1>4, <2>2 DEF Takes, TypeOK, Conversations
    <3> HIDE DEF next, e
    <3>6. conv'.turns[s].text = next.text /\ Cursor(s)' = Cursor(s) + 1
      BY <3>4, <3>5 DEF Turn, Cursor
    <3>7. QED BY <1>0, <3>2, <3>3, <3>5, <3>6
  <2>3. QED BY <2>1, <2>2
<1>5. QED BY <1>1, <1>2, <1>3, <1>4, StepShape

\* Text is every chunk taken, once, and each tool has the status last reported for
\* it, whatever was lost, repeated or reordered on the way.
THEOREM TurnsRender == Spec => []TurnRendersItsLog
<1>1. Init => Texts
  BY NewTurnIsEmpty, NewTurnRenders DEF Texts, Init, NewConversation, Cursor
<1>2. Rendering /\ Texts => TurnRendersItsLog
  BY DEF Rendering, Renders, Texts, TurnRendersItsLog
<1>3. QED
  BY <1>1, <1>2, TextsKept, RenderingHolds, TypeCorrect, EndsAtFirstTerminal, PTL
  DEF Spec

-----------------------------------------------------------------------------
(* Controls *)

\* An event sets the option list of its turn and of the snapshot alike, or neither.
LEMMA EventConfiguration ==
  ASSUME NEW turn \in Turn, NEW e \in Event, NEW configuration
  PROVE  LET next == ApplyEvent(turn, e) IN
         IF e.kind = "config"
         THEN /\ next.updates["config"] = e.value
              /\ ApplyConfiguration(configuration, e) = e.value
         ELSE /\ next.updates["config"] = turn.updates["config"]
              /\ ApplyConfiguration(configuration, e) = configuration
<1> USE DEF Turn, ApplyEvent, Update, Resume, OtherUpdates, ApplyConfiguration
<1>1. CASE e.kind \in {"permission", "completed", "error"}
  BY <1>1
<1>2. CASE e.kind \in {"message", "tool_call", "tool_update"}
  BY <1>2
<1>3. CASE e.kind \in {"config", "mode"}
  BY <1>3
<1>4. QED BY <1>1, <1>2, <1>3 DEF Event, Carrying

\* The controls shown are those some turn still shows as its latest.
THEOREM ControlsHaveATurn == Spec => []ConfigurationComesFromATurn
<1>1. Init => ConfigurationComesFromATurn
  BY DEF Init, NewConversation, ConfigurationComesFromATurn
<1>2. TypeOK /\ ConfigurationComesFromATurn /\ [Next]_vars
        => ConfigurationComesFromATurn'
  <2> SUFFICES ASSUME TypeOK, ConfigurationComesFromATurn, [Next]_vars
               PROVE  ConfigurationComesFromATurn'
    OBVIOUS
  <2>1. CASE Still \/ Grows
    BY <2>1 DEF Still, Grows, ConfigurationComesFromATurn
  <2>2. CASE Restarts
    BY <2>2 DEF Restarts, NewConversation, ConfigurationComesFromATurn
  <2>3. ASSUME NEW r \in Requests, Takes(r)
        PROVE  ConfigurationComesFromATurn'
    <3> DEFINE e == log[r][Cursor(r) + 1]
               next == ApplyEvent(conv.turns[r], e)
    <3>1. e \in Event /\ conv.turns[r] \in Turn
      BY <2>3 DEF Takes, TypeOK, Conversations
    <3>2. next \in Turn
      BY <2>3, <3>1, EventEffect DEF Takes
    <3>3. /\ conv'.turns[r] = [next EXCEPT !.last_sequence = Cursor(r) + 1]
          /\ conv'.configuration = ApplyConfiguration(conv.configuration, e)
          /\ \A s \in Requests \ {r} : conv'.turns[s] = conv.turns[s]
      BY <2>3 DEF Takes, TypeOK, Conversations
    <3>4. IF e.kind = "config"
          THEN next.updates["config"] = e.value /\ conv'.configuration = e.value
          ELSE /\ next.updates["config"] = conv.turns[r].updates["config"]
               /\ conv'.configuration = conv.configuration
      BY <3>1, <3>3, EventConfiguration
    <3> HIDE DEF next, e
    <3>5. conv'.turns[r].updates = next.updates
      BY <3>2, <3>3 DEF Turn
    <3>6. QED BY <3>3, <3>4, <3>5 DEF ConfigurationComesFromATurn
  <2>4. QED BY <2>1, <2>2, <2>3, StepShape
<1>3. QED BY <1>1, <1>2, TypeCorrect, PTL DEF Spec
=============================================================================
