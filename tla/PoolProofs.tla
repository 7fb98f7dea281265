------------------------------ MODULE PoolProofs ------------------------------
(***************************************************************************)
(* Types of the pool, the end of a key's stream, and the snapshot that     *)
(* follows it: proved for every instance.                                  *)
(***************************************************************************)
EXTENDS Pool, FiniteSetTheorems, TLAPS

--------------------------------------------------------------------------------
(* Sequences, counted *)

\* What there is to know of a queue that an element joins or leaves.
LEMMA QueueTyped ==
  ASSUME NEW T, NEW q \in Seq(T)
  PROVE  /\ DOMAIN q = 1..Len(q) /\ Len(q) \in Nat /\ \A i \in 1..Len(q) : q[i] \in T
         /\ \A x \in T : /\ Append(q, x) \in Seq(T) /\ Len(Append(q, x)) = Len(q) + 1
                         /\ \A i \in 1..Len(q) : Append(q, x)[i] = q[i]
                         /\ Append(q, x)[Len(q) + 1] = x
         /\ q # <<>> => /\ Head(q) \in T /\ Head(q) = q[1] /\ Tail(q) \in Seq(T)
                        /\ Len(q) >= 1 /\ Len(Tail(q)) = Len(q) - 1
                        /\ \A i \in 1..Len(Tail(q)) : Tail(q)[i] = q[i + 1]
OBVIOUS

--------------------------------------------------------------------------------
(* The reducer on what a session streams *)

\* An event of a session changes text and outcome of its turn, and nothing else.
LEMMA EventOfSession ==
  ASSUME NEW t \in Turn, NEW e \in Items
  PROVE  /\ ApplyEvent(t, e) \in Turn
         /\ ApplyEvent(t, e).text = t.text + (IF e = UpdateEvent THEN 1 ELSE 0)
         /\ ApplyEvent(t, e).tools = t.tools
         /\ ApplyEvent(t, e).permissions \subseteq t.permissions
         /\ IsTerminal(ApplyEvent(t, e)) <=> IsTerminal(t) \/ IsTerminalEvent(e)
<1> USE DEF IsTerminal, IsTerminalEvent, Terminals, Plain, UpdateEvent,
            CompletedEvent, ErrorEvent, None
<1>1. CASE e = UpdateEvent
  <2>1. e.kind = "message" /\ e.size = 1
    BY <1>1
  <2>2. RetainedPermissions(t, e) = t.permissions
    BY <2>1 DEF RetainedPermissions
  <2>3. ApplyEvent(t, e) = [Resume(t, t.permissions) EXCEPT !.text = @ + 1]
    BY <2>1, <2>2 DEF ApplyEvent, Update, OtherUpdates
  <2>4. PICK st \in TurnStatuses : Resume(t, t.permissions) = [t EXCEPT !.status = st]
    BY DEF Resume, TurnStatuses, Turn
  <2>5. ApplyEvent(t, e) = [t EXCEPT !.status = st, !.text = @ + 1]
    BY <2>3, <2>4 DEF Turn
  <2>6. ~IsTerminalEvent(e)
    BY <2>1
  <2>7. ApplyEvent(t, e) \in Turn
    <3>1. t.text + 1 \in Nat
      BY DEF Turn
    <3>2. [t EXCEPT !.status = st] \in Turn
      BY DEF Turn
    <3>3. ApplyEvent(t, e) = [[t EXCEPT !.status = st] EXCEPT !.text = t.text + 1]
      BY <2>5 DEF Turn
    <3>4. QED
      BY <3>1, <3>2, <3>3 DEF Turn
  <2>8. /\ ApplyEvent(t, e).text = t.text + 1 /\ ApplyEvent(t, e).tools = t.tools
        /\ ApplyEvent(t, e).permissions = t.permissions
        /\ ApplyEvent(t, e).stop_reason = t.stop_reason
        /\ ApplyEvent(t, e).error = t.error
    BY <2>5 DEF Turn
  <2>9. QED
    BY <1>1, <2>6, <2>7, <2>8
<1>2. CASE e = CompletedEvent
  <2>1. e.kind = "completed" /\ e.value = "end_turn"
    BY <1>2
  <2>2. ApplyEvent(t, e) = [t EXCEPT !.status = "completed", !.stop_reason = "end_turn",
                                     !.permissions = {}]
    BY <2>1 DEF ApplyEvent, OutcomeStatus
  <2>3. e # UpdateEvent /\ IsTerminalEvent(e)
    BY <2>1
  <2>4. ApplyEvent(t, e) \in Turn
    BY <2>2 DEF Turn, TurnStatuses, StopReasons
  <2>5. /\ ApplyEvent(t, e).text = t.text /\ ApplyEvent(t, e).tools = t.tools
        /\ ApplyEvent(t, e).permissions = {} /\ ApplyEvent(t, e).stop_reason = "end_turn"
    BY <2>2 DEF Turn
  <2>6. t.text + 0 = t.text
    BY DEF Turn
  <2>7. QED
    BY <2>3, <2>4, <2>5, <2>6
<1>3. CASE e = ErrorEvent
  <2>1. e.kind = "error"
    BY <1>3
  <2>2. ApplyEvent(t, e) = [t EXCEPT !.status = "failed", !.error = TRUE,
                                     !.permissions = {}]
    BY <2>1 DEF ApplyEvent
  <2>3. e # UpdateEvent /\ IsTerminalEvent(e)
    BY <2>1
  <2>4. ApplyEvent(t, e) \in Turn
    BY <2>2 DEF Turn, TurnStatuses
  <2>5. /\ ApplyEvent(t, e).text = t.text /\ ApplyEvent(t, e).tools = t.tools
        /\ ApplyEvent(t, e).permissions = {} /\ ApplyEvent(t, e).error
    BY <2>2 DEF Turn
  <2>6. t.text + 0 = t.text
    BY DEF Turn
  <2>7. QED
    BY <2>3, <2>4, <2>5, <2>6
<1>4. QED
  BY <1>1, <1>2, <1>3 DEF Items

\* The snapshot stays one of the same conversation.
LEMMA ApplyTyped ==
  ASSUME NEW snapshot \in Conversations(Keys), NEW k \in Keys, NEW r \in Requests,
         NEW n \in Nat, NEW e \in Items
  PROVE  /\ Apply(snapshot, Wire(k, r, n, e)).conv \in Conversations(Keys)
         /\ Apply(snapshot, Wire(k, r, n, e)).conv.id = snapshot.id
<1> DEFINE w == Wire(k, r, n, e)
           t == Candidate(snapshot, w)
<1>1. w.request_id = r /\ w.sequence = n /\ w.event = e
  BY DEF Wire
<1>2. snapshot.turns[r] \in Turn
  BY DEF Conversations
<1>3. ApplyEvent(snapshot.turns[r], e) \in Turn
  BY <1>2, EventOfSession
<1>4. t \in Turn
  BY <1>1, <1>3 DEF Candidate, Turn
<1>5. ApplyConfiguration(snapshot.configuration, e) = snapshot.configuration
  BY DEF ApplyConfiguration, Items, UpdateEvent, CompletedEvent, ErrorEvent, Plain
<1>6. Apply(snapshot, w).conv
        \in {snapshot, [snapshot EXCEPT !.turns[r] = t,
                                        !.configuration = snapshot.configuration]}
  BY <1>1, <1>5 DEF Apply
<1> HIDE DEF t, w
<1>7. QED
  BY ZenonT(60), <1>4, <1>6 DEF Conversations, w

\* A conversation begins empty.
LEMMA NewConversationTyped ==
  ASSUME NEW k \in Keys
  PROVE  NewConversation(k) \in Conversations(Keys)
BY DEF NewConversation, Conversations, NewTurn, Turn, TurnStatuses

--------------------------------------------------------------------------------
(* Types *)

\* Calls that have taken a turn, or were refused one.
Begun == {c \in Calls : pc[c] # "start"}

\* Where a call is after its start.
Later == {"submit", "running", "release", "done"}

Envelopes == [request : Names, event : Items]

EntryTyped ==
  /\ client \in BOOLEAN
  /\ session \in [Keys -> Sessions \cup {0}]
  /\ busy \in [Keys -> BOOLEAN]

\* A key counts a turn for each of its calls at the most.
TurnsTyped ==
  /\ turns \in [Keys -> Nat]
  /\ \A k \in Keys : turns[k] <= Cardinality(Begun)

SnapshotTyped ==
  /\ seqs \in [Keys -> [Requests -> Nat]]
  /\ conv \in [Keys -> Conversations(Keys)]

SessionTyped ==
  /\ owner \in [Sessions -> Keys \cup {None}]
  /\ phase \in [Sessions -> Phases]
  /\ turn \in [Sessions -> [call : Calls \cup {None}, request : Names]]
  /\ outcome \in [Sessions -> Outcomes \cup {None}]
  /\ updates \in [Sessions -> 0..MaxUpdates]
  /\ doomed \in [Sessions -> BOOLEAN]

StreamTyped == events \in [Sessions -> Seq(Envelopes)]

\* The end of a stream belongs to no turn.
RouteTyped ==
  /\ drained \in [Sessions -> BOOLEAN]
  /\ fwd \in Seq(Messages) /\ app \in Seq(Messages)
  /\ \A i \in 1..Len(fwd) : fwd[i].event = EndOfStream => fwd[i].request = None

CallTyped ==
  /\ pc \in [Calls -> {"start"} \cup Later]
  /\ handle \in [Calls -> Sessions \cup {0}]
  /\ request \in [Calls -> Names]
  /\ result \in [Calls -> Outcomes \cup {None, "busy", "dropped"}]

Typed ==
  /\ EntryTyped /\ TurnsTyped /\ SnapshotTyped /\ SessionTyped /\ StreamTyped
  /\ RouteTyped /\ CallTyped

\* Of finitely many calls, those begun are counted.
LEMMA BegunCounted ==
  /\ IsFiniteSet(Begun) /\ Cardinality(Begun) \in Nat
  /\ Cardinality(Begun) <= Cardinality(Calls) /\ Cardinality(Calls) \in Nat
BY PoolConstants, FS_Subset, FS_CardinalityType DEF PoolConstants, Begun

\* The type invariant is a part of the groups.
LEMMA TypesOfGroups == Typed => TypeOK
<1> SUFFICES ASSUME Typed PROVE TypeOK
  OBVIOUS
<1>1. turns \in [Keys -> 0..Cardinality(Calls)]
  BY BegunCounted DEF Typed, TurnsTyped
<1>2. QED
  BY <1>1 DEF TypeOK, Typed, EntryTyped, SnapshotTyped, SessionTyped, StreamTyped,
              RouteTyped, CallTyped, Envelopes, Later

\* A group stands where none of its variables changes.
LEMMA GroupsStand ==
  ASSUME Typed
  PROVE  /\ UNCHANGED <<client, session, busy>> => EntryTyped'
         /\ UNCHANGED <<turns, pc>> => TurnsTyped'
         /\ UNCHANGED <<seqs, conv>> => SnapshotTyped'
         /\ UNCHANGED <<owner, phase, turn, outcome, updates, doomed>> => SessionTyped'
         /\ UNCHANGED events => StreamTyped'
         /\ UNCHANGED <<drained, fwd, app>> => RouteTyped'
         /\ UNCHANGED <<pc, handle, request, result>> => CallTyped'
BY DEF Typed, EntryTyped, TurnsTyped, SnapshotTyped, SessionTyped, StreamTyped,
       RouteTyped, CallTyped, Begun

\* The count of calls begun never falls, and rises with a call that begins.
LEMMA BegunGrows ==
  ASSUME Typed, NEW c \in Calls, NEW l \in Later,
         pc' = [pc EXCEPT ![c] = l]
  PROVE  /\ Cardinality(Begun') \in Nat
         /\ Cardinality(Begun') >= Cardinality(Begun)
         /\ pc[c] = "start" => /\ Cardinality(Begun') = Cardinality(Begun) + 1
                               /\ Cardinality(Begun') <= Cardinality(Calls)
<1>1. Begun' = Begun \cup {c}
  BY DEF Begun, Typed, CallTyped, Later
<1>2. pc[c] = "start" <=> c \notin Begun
  BY DEF Begun
<1>3. Begun \cup {c} \subseteq Calls
  BY DEF Begun
<1>4. QED
  BY <1>1, <1>2, <1>3, BegunCounted, FS_AddElement, FS_Subset, FS_CardinalityType,
     PoolConstants DEF PoolConstants

\* A call that only moves on leaves the counters typed.
LEMMA MovesOn ==
  ASSUME Typed, NEW c \in Calls, NEW l \in Later,
         pc' = [pc EXCEPT ![c] = l], UNCHANGED turns
  PROVE  TurnsTyped'
<1>1. Cardinality(Begun') >= Cardinality(Begun) /\ Cardinality(Begun') \in Nat
  BY BegunGrows
<1>2. QED
  BY <1>1, BegunCounted DEF Typed, TurnsTyped

\* A call that is given a turn, or refused one, leaves entry, counters and calls typed.
LEMMA ReserveTyped ==
  ASSUME Typed, NEW c \in Calls, pc[c] = "start", NEW s \in Sessions \cup {0},
         NEW b \in BOOLEAN, NEW n \in Nat, n <= Cardinality(Begun), Reserve(c, s, b, n)
  PROVE  TurnsTyped' /\ CallTyped' /\ busy' \in [Keys -> BOOLEAN]
<1> USE DEF Reserve, Return
<1>1. KeyOf[c] \in Keys
  BY PoolConstants DEF PoolConstants
<1>2. busy' \in [Keys -> BOOLEAN]
  BY <1>1 DEF Typed, EntryTyped
<1>3. CASE b
  <2>1. pc' = [pc EXCEPT ![c] = "done"] /\ UNCHANGED turns
    BY <1>3
  <2>2. TurnsTyped'
    BY <2>1, MovesOn DEF Later
  <2>3. CallTyped'
    BY <1>3, <2>1 DEF Typed, CallTyped, Later
  <2>4. QED
    BY <1>2, <2>2, <2>3
<1>4. CASE ~b
  <2>1. pc' = [pc EXCEPT ![c] = "submit"] /\ turns' = [turns EXCEPT ![KeyOf[c]] = n + 1]
    BY <1>4
  <2>2. /\ Cardinality(Begun') = Cardinality(Begun) + 1
        /\ Cardinality(Begun') <= Cardinality(Calls)
    BY <2>1, BegunGrows DEF Later
  <2>3. TurnsTyped'
    BY <1>1, <2>1, <2>2, BegunCounted DEF Typed, TurnsTyped
  <2>4. n + 1 \in 1..Len(RequestId)
    BY <2>2, BegunCounted, PoolConstants DEF PoolConstants
  <2>5. RequestId[n + 1] \in Names
    BY <2>4, PoolConstants DEF PoolConstants, Names
  <2>6. CallTyped'
    BY <1>4, <2>5 DEF Typed, CallTyped, Later
  <2>7. QED
    BY <1>2, <2>3, <2>6
<1>5. QED
  BY <1>3, <1>4

\* The types hold when the application connects.
LEMMA TypeStart ==
  ASSUME Init
  PROVE  Typed
<1>1. EntryTyped
  BY DEF Init, EntryTyped
<1>2. TurnsTyped
  BY BegunCounted DEF Init, TurnsTyped
<1>3. SnapshotTyped
  BY NewConversationTyped DEF Init, SnapshotTyped, Unused
<1>4. SessionTyped
  BY PoolConstants DEF PoolConstants, Init, SessionTyped, Idle, Phases, Names
<1>5. StreamTyped /\ RouteTyped
  BY DEF Init, StreamTyped, RouteTyped
<1>6. CallTyped
  BY DEF Init, CallTyped, Names, Later
<1>7. QED
  BY <1>1, <1>2, <1>3, <1>4, <1>5, <1>6 DEF Typed

\* A session emits an event.
LEMMA EmitTyped ==
  ASSUME Typed, NEW s \in Sessions, NEW r \in Names, NEW e \in Items, EmitOf(s, r, e)
  PROVE  StreamTyped'
<1>1. TaggedEvent(r, e) \in Envelopes
  BY DEF TaggedEvent, Envelopes
<1>2. Append(events[s], TaggedEvent(r, e)) \in Seq(Envelopes)
  BY <1>1, QueueTyped DEF Typed, StreamTyped
<1>3. QED
  BY <1>2 DEF EmitOf, Typed, StreamTyped

\* A forwarder passes on what its session streamed, or the end of it.
LEMMA ForwardedTyped ==
  ASSUME Typed, NEW s \in Sessions, Forward(s)
  PROVE  \E m \in Messages :
           /\ fwd' = Append(fwd, m) /\ m.from = s /\ m.key = owner[s]
           /\ \/ /\ events[s] # <<>>
                 /\ m.request = Head(events[s]).request /\ m.event = Head(events[s]).event
                 /\ m.event # EndOfStream
                 /\ events' = [events EXCEPT ![s] = Tail(@)] /\ UNCHANGED drained
              \/ /\ events[s] = <<>> /\ phase[s] = "closed"
                 /\ m.request = None /\ m.event = EndOfStream
                 /\ drained' = [drained EXCEPT ![s] = TRUE] /\ UNCHANGED events
<1>1. owner[s] \in Keys
  BY DEF Forward, Typed, SessionTyped
<1>2. CASE events[s] # <<>>
  <2> DEFINE m == Forwarded(s, Head(events[s]).request, Head(events[s]).event)
  <2>1. Head(events[s]) \in Envelopes
    BY <1>2, QueueTyped DEF Typed, StreamTyped
  <2>2. /\ m \in Messages /\ m.from = s /\ m.key = owner[s]
        /\ m.request = Head(events[s]).request /\ m.event = Head(events[s]).event
    BY <1>1, <2>1 DEF Envelopes, Forwarded, Messages
  <2>3. Head(events[s]).event # EndOfStream
    BY <2>1 DEF Envelopes, Items, UpdateEvent, CompletedEvent, ErrorEvent, EndOfStream, Plain
  <2>4. /\ fwd' = Append(fwd, m) /\ UNCHANGED drained
        /\ events' = [events EXCEPT ![s] = Tail(@)]
    BY <1>2 DEF Forward
  <2>5. QED
    BY <1>2, <2>2, <2>3, <2>4
<1>3. CASE events[s] = <<>>
  <2> DEFINE m == Forwarded(s, None, EndOfStream)
  <2>1. /\ m \in Messages /\ m.from = s /\ m.key = owner[s]
        /\ m.request = None /\ m.event = EndOfStream
    BY <1>1 DEF Forwarded, Messages, Names
  <2>2. /\ fwd' = Append(fwd, m) /\ UNCHANGED events /\ phase[s] = "closed"
        /\ drained' = [drained EXCEPT ![s] = TRUE]
    BY <1>3 DEF Forward
  <2>3. QED
    BY <1>3, <2>1, <2>2
<1>4. QED
  BY <1>2, <1>3

\* The router takes a message, and the application may be sent it.
LEMMA TakenTyped ==
  ASSUME Typed, fwd # <<>>, fwd' = Tail(fwd), app' \in {app, Append(app, Head(fwd))},
         UNCHANGED drained
  PROVE  RouteTyped'
<1>1. Head(fwd) \in Messages /\ fwd' \in Seq(Messages)
  BY QueueTyped DEF Typed, RouteTyped
<1>2. app' \in Seq(Messages)
  <2>1. app \in Seq(Messages)
    BY DEF Typed, RouteTyped
  <2>2. Append(app, Head(fwd)) \in Seq(Messages)
    BY <1>1, <2>1, QueueTyped
  <2>3. QED
    BY <2>1, <2>2
<1>3. \A i \in 1..Len(fwd') : i + 1 \in 1..Len(fwd) /\ fwd'[i] = fwd[i + 1]
  BY QueueTyped DEF Typed, RouteTyped
<1>4. QED
  BY <1>1, <1>2, <1>3 DEF Typed, RouteTyped

\* Each step keeps the types.
LEMMA TypeKept ==
  ASSUME Typed, Next
  PROVE  Typed'
<1> USE DEF entryVars, sessionVars, routeVars, callVars, sessionFrame
<1>1. ASSUME NEW c \in Calls, PromptKnown(c)
      PROVE  Typed'
  <2>1. /\ KeyOf[c] \in Keys /\ turns[KeyOf[c]] \in Nat
        /\ turns[KeyOf[c]] <= Cardinality(Begun)
        /\ session[KeyOf[c]] \in Sessions \cup {0} /\ busy[KeyOf[c]] \in BOOLEAN
    BY PoolConstants DEF PoolConstants, Typed, TurnsTyped, EntryTyped
  <2>2. TurnsTyped' /\ CallTyped' /\ busy' \in [Keys -> BOOLEAN]
    BY <1>1, <2>1, ReserveTyped DEF PromptKnown
  <2>3. EntryTyped'
    BY <1>1, <2>2 DEF PromptKnown, Typed, EntryTyped
  <2>4. SnapshotTyped' /\ SessionTyped' /\ StreamTyped' /\ RouteTyped'
    BY <1>1, GroupsStand DEF PromptKnown
  <2>5. QED
    BY <2>2, <2>3, <2>4 DEF Typed
<1>2. ASSUME NEW c \in Calls, PromptNew(c)
      PROVE  Typed'
  <2>1. KeyOf[c] \in Keys
    BY PoolConstants DEF PoolConstants
  <2>2. PICK s \in Sessions :
          /\ pc[c] = "start" /\ Reserve(c, s, FALSE, 0)
          /\ session' = [session EXCEPT ![KeyOf[c]] = s]
          /\ owner' = [owner EXCEPT ![s] = KeyOf[c]]
          /\ seqs' = [seqs EXCEPT ![KeyOf[c]] = Unused]
          /\ conv' = [conv EXCEPT ![KeyOf[c]] = NewConversation(KeyOf[c])]
    BY <1>2 DEF PromptNew
  <2>3. TurnsTyped' /\ CallTyped' /\ busy' \in [Keys -> BOOLEAN]
    <3>1. 0 \in Nat /\ 0 <= Cardinality(Begun) /\ s \in Sessions \cup {0}
      BY BegunCounted
    <3>2. QED
      BY <2>2, <3>1, ReserveTyped
  <2>4. EntryTyped'
    BY <1>2, <2>1, <2>2, <2>3 DEF PromptNew, Typed, EntryTyped
  <2>5. SnapshotTyped'
    BY <2>1, <2>2, NewConversationTyped DEF Typed, SnapshotTyped, Unused
  <2>6. SessionTyped'
    BY <1>2, <2>1, <2>2 DEF PromptNew, Typed, SessionTyped
  <2>7. StreamTyped' /\ RouteTyped'
    BY <1>2, GroupsStand DEF PromptNew
  <2>8. QED
    BY <2>3, <2>4, <2>5, <2>6, <2>7 DEF Typed
<1>3. ASSUME NEW c \in Calls, PromptFails(c)
      PROVE  Typed'
  <2>1. TurnsTyped'
    BY <1>3, MovesOn DEF PromptFails, Return, Later
  <2>2. CallTyped'
    BY <1>3 DEF PromptFails, Return, Outcomes, Typed, CallTyped, Later
  <2>3. EntryTyped' /\ SnapshotTyped' /\ SessionTyped' /\ StreamTyped' /\ RouteTyped'
    BY <1>3, GroupsStand DEF PromptFails
  <2>4. QED
    BY <2>1, <2>2, <2>3 DEF Typed
<1>4. ASSUME NEW c \in Calls, PromptSubmit(c)
      PROVE  Typed'
  <2>1. PICK l \in {"running", "release"} : pc' = [pc EXCEPT ![c] = l]
    BY <1>4 DEF PromptSubmit
  <2>2. TurnsTyped'
    BY <1>4, <2>1, MovesOn DEF PromptSubmit, Later
  <2>3. CallTyped'
    BY <1>4, <2>1 DEF PromptSubmit, Typed, CallTyped, Later, Outcomes
  <2>4. [call |-> c, request |-> request[c]]
          \in [call : Calls \cup {None}, request : Names]
    BY DEF Typed, CallTyped
  <2>5. SessionTyped'
    <3>1. /\ phase' \in {phase, [phase EXCEPT ![handle[c]] = "running"]}
          /\ turn' \in {turn, [turn EXCEPT ![handle[c]] =
                                [call |-> c, request |-> request[c]]]}
          /\ UNCHANGED <<owner, outcome, updates, doomed>>
      BY <1>4 DEF PromptSubmit
    <3>2. phase' \in [Sessions -> Phases]
      BY <3>1 DEF Typed, SessionTyped, Phases
    <3>3. turn' \in [Sessions -> [call : Calls \cup {None}, request : Names]]
      BY <2>4, <3>1 DEF Typed, SessionTyped
    <3>4. QED
      BY <3>1, <3>2, <3>3 DEF Typed, SessionTyped
  <2>6. EntryTyped' /\ SnapshotTyped' /\ StreamTyped' /\ RouteTyped'
    BY <1>4, GroupsStand DEF PromptSubmit
  <2>7. QED
    BY <2>2, <2>3, <2>5, <2>6 DEF Typed
<1>5. ASSUME NEW c \in Calls, PromptReturns(c)
      PROVE  Typed'
  <2>1. PICK l \in {"done", "release"} : pc' = [pc EXCEPT ![c] = l]
    BY <1>5 DEF PromptReturns
  <2>2. TurnsTyped'
    BY <1>5, <2>1, MovesOn DEF PromptReturns, Later
  <2>3. CallTyped'
    BY <1>5, <2>1 DEF PromptReturns, Typed, CallTyped, Later
  <2>4. EntryTyped' /\ SnapshotTyped' /\ SessionTyped' /\ StreamTyped' /\ RouteTyped'
    BY <1>5, GroupsStand DEF PromptReturns
  <2>5. QED
    BY <2>2, <2>3, <2>4 DEF Typed
<1>6. ASSUME NEW c \in Calls, PromptRelease(c)
      PROVE  Typed'
  <2>1. TurnsTyped'
    BY <1>6, MovesOn DEF PromptRelease, Later
  <2>2. CallTyped'
    BY <1>6 DEF PromptRelease, Typed, CallTyped, Later
  <2>3. EntryTyped'
    BY <1>6, PoolConstants DEF PromptRelease, PoolConstants, Typed, EntryTyped
  <2>4. SnapshotTyped' /\ SessionTyped' /\ StreamTyped' /\ RouteTyped'
    BY <1>6, GroupsStand DEF PromptRelease
  <2>5. QED
    BY <2>1, <2>2, <2>3, <2>4 DEF Typed
<1>7. ASSUME NEW c \in Calls, PromptDrop(c)
      PROVE  Typed'
  <2>1. TurnsTyped'
    BY <1>7, MovesOn DEF PromptDrop, Later
  <2>2. CallTyped'
    BY <1>7 DEF PromptDrop, Typed, CallTyped, Later
  <2>3. SessionTyped'
    BY <1>7 DEF PromptDrop, Typed, SessionTyped
  <2>4. EntryTyped' /\ SnapshotTyped' /\ StreamTyped' /\ RouteTyped'
    BY <1>7, GroupsStand DEF PromptDrop
  <2>5. QED
    BY <2>1, <2>2, <2>3, <2>4 DEF Typed
<1>8. ASSUME NEW k \in Keys, CloseKey(k)
      PROVE  Typed'
  <2>1. EntryTyped'
    BY <1>8 DEF CloseKey, RemoveEntries, Typed, EntryTyped
  <2>2. SessionTyped'
    BY <1>8 DEF CloseKey, RemoveEntries, Typed, SessionTyped
  <2>3. TurnsTyped' /\ SnapshotTyped' /\ StreamTyped' /\ RouteTyped' /\ CallTyped'
    BY <1>8, GroupsStand DEF CloseKey, RemoveEntries
  <2>4. QED
    BY <2>1, <2>2, <2>3 DEF Typed
<1>9. ASSUME Shutdown
      PROVE  Typed'
  <2>1. EntryTyped'
    BY <1>9 DEF Shutdown, RemoveEntries, Typed, EntryTyped
  <2>2. SessionTyped'
    BY <1>9 DEF Shutdown, RemoveEntries, Typed, SessionTyped
  <2>3. TurnsTyped' /\ SnapshotTyped' /\ StreamTyped' /\ RouteTyped' /\ CallTyped'
    BY <1>9, GroupsStand DEF Shutdown, RemoveEntries
  <2>4. QED
    BY <2>1, <2>2, <2>3 DEF Typed
<1>10. ASSUME NEW s \in Sessions, SessionStreams(s)
       PROVE  Typed'
  <2>1. PICK r \in {None, turn[s].request} \cup Ended(s) : EmitOf(s, r, UpdateEvent)
    BY <1>10 DEF SessionStreams
  <2>2. r \in Names
    BY DEF Ended, Typed, SessionTyped, CallTyped, Names
  <2>3. StreamTyped'
    BY <2>1, <2>2, EmitTyped DEF Items
  <2>4. updates[s] + 1 \in 0..MaxUpdates
    BY <1>10, PoolConstants DEF PoolConstants, SessionStreams, Typed, SessionTyped
  <2>5. SessionTyped'
    BY <1>10, <2>4 DEF SessionStreams, Typed, SessionTyped
  <2>6. EntryTyped' /\ TurnsTyped' /\ SnapshotTyped' /\ RouteTyped' /\ CallTyped'
    BY <1>10, GroupsStand DEF SessionStreams
  <2>7. QED
    BY <2>3, <2>5, <2>6 DEF Typed
<1>11. ASSUME NEW s \in Sessions, NEW e \in {CompletedEvent, ErrorEvent}, SessionFinishes(s, e)
       PROVE  Typed'
  <2>1. turn[s].request \in Names /\ e \in Items
    BY DEF Typed, SessionTyped, Items
  <2>2. StreamTyped'
    BY <1>11, <2>1, EmitTyped DEF SessionFinishes, Emit
  <2>3. SessionTyped'
    BY <1>11 DEF SessionFinishes, Typed, SessionTyped, Phases, Outcomes
  <2>4. EntryTyped' /\ TurnsTyped' /\ SnapshotTyped' /\ RouteTyped' /\ CallTyped'
    BY <1>11, GroupsStand DEF SessionFinishes
  <2>5. QED
    BY <2>2, <2>3, <2>4 DEF Typed
<1>12. ASSUME NEW s \in Sessions, SessionFrees(s)
       PROVE  Typed'
  <2>1. SessionTyped'
    BY <1>12 DEF SessionFrees, Typed, SessionTyped, Phases, Idle, Names
  <2>2. CallTyped'
    BY <1>12 DEF SessionFrees, Typed, SessionTyped, CallTyped
  <2>3. EntryTyped' /\ TurnsTyped' /\ SnapshotTyped' /\ StreamTyped' /\ RouteTyped'
    BY <1>12, GroupsStand DEF SessionFrees
  <2>4. QED
    BY <2>1, <2>2, <2>3 DEF Typed
<1>13. ASSUME NEW s \in Sessions, SessionCloses(s)
       PROVE  Typed'
  <2>1. {None, turn[s].request} \cup Ended(s) \subseteq Names /\ ErrorEvent \in Items
    BY DEF Ended, Typed, CallTyped, SessionTyped, Items, Names
  <2>2. StreamTyped'
    BY <1>13, <2>1, EmitTyped, GroupsStand DEF SessionCloses
  <2>3. SessionTyped'
    BY <1>13 DEF SessionCloses, Typed, SessionTyped, Phases, Idle, Names
  <2>4. PICK o \in Outcomes :
          result' = [d \in Calls |-> IF d = turn[s].call THEN o ELSE result[d]]
    BY <1>13 DEF SessionCloses, Typed, SessionTyped, Outcomes
  <2>5. CallTyped'
    BY <1>13, <2>4 DEF SessionCloses, Typed, CallTyped
  <2>6. EntryTyped' /\ TurnsTyped' /\ SnapshotTyped' /\ RouteTyped'
    BY <1>13, GroupsStand DEF SessionCloses
  <2>7. QED
    BY <2>2, <2>3, <2>5, <2>6 DEF Typed
<1>14. ASSUME NEW s \in Sessions, Forward(s)
       PROVE  Typed'
  <2>1. PICK m \in Messages :
          /\ fwd' = Append(fwd, m) /\ m.from = s
          /\ m.event = EndOfStream => m.request = None
    BY <1>14, ForwardedTyped
  <2>2. \A i \in 1..Len(fwd') : fwd'[i].event = EndOfStream => fwd'[i].request = None
    BY <2>1, QueueTyped DEF Typed, RouteTyped
  <2>3. events[s] # <<>> => Tail(events[s]) \in Seq(Envelopes)
    BY QueueTyped DEF Typed, StreamTyped
  <2>4. StreamTyped'
    BY <1>14, <2>3 DEF Forward, Typed, StreamTyped
  <2>5. drained' \in [Sessions -> BOOLEAN] /\ app' \in Seq(Messages)
    BY <1>14 DEF Forward, Typed, RouteTyped
  <2>6. RouteTyped'
    BY <1>14, <2>1, <2>2, <2>5, QueueTyped DEF Forward, Typed, RouteTyped
  <2>7. EntryTyped' /\ TurnsTyped' /\ SnapshotTyped' /\ SessionTyped' /\ CallTyped'
    BY <1>14, GroupsStand DEF Forward
  <2>8. QED
    BY <2>4, <2>5, <2>6, <2>7 DEF Typed
<1>15. ASSUME RouteNowhere
       PROVE  Typed'
  <2>1. RouteTyped'
    BY <1>15, TakenTyped DEF RouteNowhere
  <2>2. EntryTyped' /\ TurnsTyped' /\ SnapshotTyped' /\ SessionTyped'
          /\ StreamTyped' /\ CallTyped'
    BY <1>15, GroupsStand DEF RouteNowhere
  <2>3. QED
    BY <2>1, <2>2 DEF Typed
<1>16. ASSUME NEW k \in Keys, RouteEnd(k)
       PROVE  Typed'
  <2>1. RouteTyped'
    BY <1>16, TakenTyped DEF RouteEnd, Routed
  <2>2. EntryTyped'
    BY <1>16 DEF RouteEnd, Routed, Typed, EntryTyped
  <2>3. TurnsTyped' /\ SnapshotTyped' /\ SessionTyped' /\ StreamTyped' /\ CallTyped'
    BY <1>16, GroupsStand DEF RouteEnd, Routed
  <2>4. QED
    BY <2>1, <2>2, <2>3 DEF Typed
<1>17. ASSUME NEW k \in Keys, RouteOutside(k)
       PROVE  Typed'
  <2>1. RouteTyped'
    BY <1>17, TakenTyped DEF RouteOutside, Routed
  <2>2. EntryTyped' /\ TurnsTyped' /\ SnapshotTyped' /\ SessionTyped'
          /\ StreamTyped' /\ CallTyped'
    BY <1>17, GroupsStand DEF RouteOutside, Routed
  <2>3. QED
    BY <2>1, <2>2 DEF Typed
<1>18. ASSUME NEW k \in Keys, RouteTurn(k)
       PROVE  Typed'
  <2> DEFINE r == Head(fwd).request
             e == Head(fwd).event
             n == seqs[k][r] + 1
  <2>1. r \in Requests /\ e \in Items
    <3>1. r # None /\ fwd # <<>>
      BY <1>18 DEF RouteTurn, Routed
    <3>2. Head(fwd) \in Messages /\ Head(fwd) = fwd[1] /\ 1 \in 1..Len(fwd)
      BY <3>1, QueueTyped DEF Typed, RouteTyped
    <3>3. e # EndOfStream
      BY <3>1, <3>2 DEF Typed, RouteTyped
    <3>4. QED
      BY <3>1, <3>2, <3>3 DEF Messages, Names
  <2>2. n \in Nat /\ 0 \in Nat
    BY <2>1 DEF Typed, SnapshotTyped
  <2>3. Apply(conv[k], Wire(k, r, n, e)).conv \in Conversations(Keys)
    BY <2>1, <2>2, ApplyTyped DEF Typed, SnapshotTyped
  <2>4. /\ conv' = [conv EXCEPT ![k] = Apply(conv[k], Wire(k, r, n, e)).conv]
        /\ seqs' = [seqs EXCEPT ![k] =
                      [seqs[k] EXCEPT ![r] = IF IsTerminalEvent(e) THEN 0 ELSE n]]
    BY <1>18 DEF RouteTurn
  <2> HIDE DEF n
  <2>5. SnapshotTyped'
    BY <2>1, <2>2, <2>3, <2>4 DEF Typed, SnapshotTyped
  <2>6. EntryTyped'
    BY <1>18 DEF RouteTurn, Routed, Typed, EntryTyped
  <2>7. RouteTyped'
    BY <1>18, TakenTyped DEF RouteTurn, Routed
  <2>8. TurnsTyped' /\ SessionTyped' /\ StreamTyped' /\ CallTyped'
    BY <1>18, GroupsStand DEF RouteTurn, Routed
  <2>9. QED
    BY <2>5, <2>6, <2>7, <2>8 DEF Typed
<1>19. QED
  BY <1>1, <1>2, <1>3, <1>4, <1>5, <1>6, <1>7, <1>8, <1>9, <1>10, <1>11,
     <1>12, <1>13, <1>14, <1>15, <1>16, <1>17, <1>18
  DEF Next, PromptStep, SessionNext, Route

\* A stuttering step keeps the types.
LEMMA TypeStands ==
  ASSUME Typed, UNCHANGED vars
  PROVE  Typed'
BY GroupsStand DEF vars, entryVars, sessionVars, routeVars, callVars, Typed

\* Typed is an invariant of the pool.
LEMMA PoolTyped == Spec => []Typed
BY TypeStart, TypeKept, TypeStands, PTL DEF Spec

\* Everything has its type, whatever calls, sessions and router make of one another:
\* a key never counts more turns than calls were made, so that each turn has a name
\* of its own (pool.rs:125).
THEOREM PoolTypeCorrect == Spec => []TypeOK
BY PoolTyped, TypesOfGroups, PTL

--------------------------------------------------------------------------------
(* The end of a stream *)

\* A forwarder adds at the end of the channel.
LEMMA ForwarderAdds ==
  ASSUME Typed, NEW m \in Messages, fwd' = Append(fwd, m)
  PROVE  /\ \A i \in 1..Len(fwd) : i \in 1..Len(fwd') /\ fwd'[i] = fwd[i]
         /\ \A i \in 1..Len(fwd') :
              i \in 1..Len(fwd) \/ (i = Len(fwd) + 1 /\ fwd'[i] = m)
BY QueueTyped DEF Typed, RouteTyped

\* The router takes from its front, and adds at the end of what it sent.
LEMMA RouterTakes ==
  ASSUME Typed, fwd # <<>>, fwd' = Tail(fwd), app' \in {app, Append(app, Head(fwd))}
  PROVE  /\ Head(fwd) \in Messages /\ Head(fwd) = fwd[1] /\ 1 \in 1..Len(fwd)
         /\ \A i \in 1..Len(fwd') : i + 1 \in 1..Len(fwd) /\ fwd'[i] = fwd[i + 1]
         /\ \A i \in 1..Len(app) : i \in 1..Len(app') /\ app'[i] = app[i]
         /\ \A i \in 1..Len(app') :
              i \in 1..Len(app) \/ (i = Len(app) + 1 /\ app'[i] = Head(fwd))
<1>1. /\ Head(fwd) \in Messages /\ Head(fwd) = fwd[1] /\ 1 \in 1..Len(fwd)
      /\ \A i \in 1..Len(fwd') : i + 1 \in 1..Len(fwd) /\ fwd'[i] = fwd[i + 1]
  BY QueueTyped DEF Typed, RouteTyped
<1>2. /\ Len(Append(app, Head(fwd))) = Len(app) + 1 /\ Len(app) \in Nat
      /\ \A i \in 1..Len(app) : Append(app, Head(fwd))[i] = app[i]
      /\ Append(app, Head(fwd))[Len(app) + 1] = Head(fwd)
  BY <1>1, QueueTyped DEF Typed, RouteTyped
<1>3. /\ \A i \in 1..Len(app) : i \in 1..Len(app') /\ app'[i] = app[i]
      /\ \A i \in 1..Len(app') :
           i \in 1..Len(app) \/ (i = Len(app) + 1 /\ app'[i] = Head(fwd))
  <2>1. CASE app' = app
    BY <1>2, <2>1
  <2>2. CASE app' = Append(app, Head(fwd))
    BY <1>2, <2>2
  <2>3. QED BY <2>1, <2>2
<1>4. QED
  BY <1>1, <1>3

\* An entry has a session of its key; a session that is not there yet has done
\* nothing, and no call holds it.
EntriesOwned ==
  /\ \A k \in Keys : session[k] # 0 => owner[session[k]] = k
  /\ \A s \in Sessions : owner[s] = None => phase[s] = "idle" /\ events[s] = <<>>
  /\ \A c \in Calls : handle[c] # 0 => owner[handle[c]] # None

\* Whatever is on its way or was sent names the key of its session.
MessagesOwned ==
  /\ \A i \in 1..Len(fwd) : fwd[i].key = owner[fwd[i].from]
  /\ \A i \in 1..Len(app) : app[i].key = owner[app[i].from]

Owned == EntriesOwned /\ MessagesOwned

\* Nothing belongs to anybody when the application connects.
LEMMA OwnedStart ==
  ASSUME Init
  PROVE  Owned
BY DEF Init, Owned, EntriesOwned, MessagesOwned

\* Messages stay owned by the same keys.
LEMMA MessagesStay ==
  ASSUME Typed, MessagesOwned, UNCHANGED owner,
         \/ UNCHANGED <<fwd, app>>
         \/ fwd # <<>> /\ fwd' = Tail(fwd) /\ app' \in {app, Append(app, Head(fwd))}
  PROVE  MessagesOwned'
<1>1. CASE UNCHANGED <<fwd, app>>
  BY <1>1 DEF MessagesOwned
<1>2. CASE fwd # <<>> /\ fwd' = Tail(fwd) /\ app' \in {app, Append(app, Head(fwd))}
  BY <1>2, RouterTakes DEF MessagesOwned
<1>3. QED
  BY <1>1, <1>2

\* A step that removes entries at most, and nothing of a session that is not there.
LEMMA EntriesStay ==
  ASSUME Typed, EntriesOwned, UNCHANGED <<owner, handle>>,
         \A k \in Keys : session'[k] \in {0, session[k]},
         \A s \in Sessions :
           owner[s] = None => phase'[s] = phase[s] /\ events'[s] = events[s]
  PROVE  EntriesOwned'
BY DEF EntriesOwned

\* Each step keeps it so.
LEMMA OwnedKept ==
  ASSUME Typed, Owned, Next
  PROVE  Owned'
<1> USE DEF entryVars, sessionVars, routeVars, callVars, sessionFrame
<1>1. ASSUME NEW c \in Calls, PromptKnown(c)
      PROVE  Owned'
  <2>1. KeyOf[c] \in Keys
    BY PoolConstants DEF PoolConstants
  <2>2. session[KeyOf[c]] \in Sessions /\ owner[session[KeyOf[c]]] # None
    BY <1>1, <2>1, PoolConstants
    DEF PromptKnown, Typed, EntryTyped, PoolConstants, Owned, EntriesOwned
  <2>3. handle' \in {handle, [handle EXCEPT ![c] = session[KeyOf[c]]]}
    BY <1>1 DEF PromptKnown, Reserve, Return
  <2>4. EntriesOwned'
    BY <1>1, <2>2, <2>3 DEF PromptKnown, Owned, EntriesOwned, Typed, CallTyped
  <2>5. MessagesOwned'
    BY <1>1, MessagesStay DEF PromptKnown, Owned
  <2>6. QED
    BY <2>4, <2>5 DEF Owned
<1>2. ASSUME NEW c \in Calls, PromptNew(c)
      PROVE  Owned'
  <2>1. KeyOf[c] \in Keys /\ KeyOf[c] # None
    BY PoolConstants DEF PoolConstants
  <2>2. PICK s \in Sessions :
          /\ owner[s] = None /\ Reserve(c, s, FALSE, 0)
          /\ session' = [session EXCEPT ![KeyOf[c]] = s]
          /\ owner' = [owner EXCEPT ![s] = KeyOf[c]]
    BY <1>2 DEF PromptNew
  <2>3. UNCHANGED <<phase, events, fwd, app>> /\ handle' = [handle EXCEPT ![c] = s]
    BY <1>2, <2>2 DEF PromptNew, Reserve
  <2>4. owner'[s] = KeyOf[c] /\ \A u \in Sessions : u # s => owner'[u] = owner[u]
    BY <2>2 DEF Typed, SessionTyped
  <2>5. /\ session'[KeyOf[c]] = s
        /\ \A k \in Keys : k # KeyOf[c] => session'[k] = session[k]
    BY <2>1, <2>2 DEF Typed, EntryTyped
  <2>6. \A k \in Keys : session[k] # 0 => session[k] \in Sessions /\ session[k] # s
    BY <2>2, PoolConstants
    DEF PoolConstants, Owned, EntriesOwned, Typed, EntryTyped
  <2>7. \A k \in Keys : session'[k] # 0 => owner'[session'[k]] = k
    BY <2>4, <2>5, <2>6 DEF Owned, EntriesOwned
  <2>8. \A u \in Sessions : owner'[u] = None => phase'[u] = "idle" /\ events'[u] = <<>>
    BY <2>1, <2>3, <2>4 DEF Owned, EntriesOwned
  <2>9. \A d \in Calls : handle'[d] # 0 => owner'[handle'[d]] # None
    BY <2>1, <2>3, <2>4 DEF Owned, EntriesOwned, Typed, CallTyped
  <2>10. EntriesOwned'
    BY <2>7, <2>8, <2>9 DEF EntriesOwned
  <2>11. \A m \in Messages : m.key = owner[m.from] => m.from # s
    BY <2>2, PoolConstants DEF PoolConstants, Messages
  <2>12. /\ \A i \in 1..Len(fwd) : fwd[i] \in Messages
         /\ \A i \in 1..Len(app) : app[i] \in Messages
    BY QueueTyped DEF Typed, RouteTyped
  <2>13. \A m \in Messages : m.from \in Sessions
    BY DEF Messages
  <2>14. MessagesOwned'
    BY <2>3, <2>4, <2>11, <2>12, <2>13 DEF Owned, MessagesOwned
  <2>15. QED
    BY <2>10, <2>14 DEF Owned
<1>3. ASSUME NEW c \in Calls, PromptFails(c)
      PROVE  Owned'
  BY <1>3, EntriesStay, MessagesStay DEF PromptFails, Owned, Return
<1>4. ASSUME NEW c \in Calls, PromptSubmit(c)
      PROVE  Owned'
  <2>1. phase' \in {phase, [phase EXCEPT ![handle[c]] = "running"]}
    BY <1>4 DEF PromptSubmit
  <2>2. \A s \in Sessions : owner[s] = None => s # handle[c]
    BY PoolConstants DEF PoolConstants, Sessions, Owned, EntriesOwned
  <2>3. \A s \in Sessions : owner[s] = None => phase'[s] = phase[s]
    BY <2>1, <2>2 DEF Typed, SessionTyped
  <2>4. EntriesOwned'
    BY <1>4, <2>3, EntriesStay DEF PromptSubmit, Owned
  <2>5. MessagesOwned'
    BY <1>4, MessagesStay DEF PromptSubmit, Owned
  <2>6. QED
    BY <2>4, <2>5 DEF Owned
<1>5. ASSUME NEW c \in Calls, PromptReturns(c)
      PROVE  Owned'
  BY <1>5, EntriesStay, MessagesStay DEF PromptReturns, Owned
<1>6. ASSUME NEW c \in Calls, PromptRelease(c)
      PROVE  Owned'
  BY <1>6, EntriesStay, MessagesStay DEF PromptRelease, Owned
<1>7. ASSUME NEW c \in Calls, PromptDrop(c)
      PROVE  Owned'
  BY <1>7, EntriesStay, MessagesStay DEF PromptDrop, Owned
<1>8. ASSUME NEW k \in Keys, CloseKey(k)
      PROVE  Owned'
  BY <1>8, EntriesStay, MessagesStay DEF CloseKey, Owned, RemoveEntries
<1>9. ASSUME Shutdown
      PROVE  Owned'
  BY <1>9, EntriesStay, MessagesStay DEF Shutdown, Owned, RemoveEntries
<1>10. ASSUME NEW s \in Sessions, SessionStreams(s)
       PROVE  Owned'
  <2>1. owner[s] # None
    BY <1>10 DEF SessionStreams, Owned, EntriesOwned
  <2>2. \A u \in Sessions : u # s => phase'[u] = phase[u] /\ events'[u] = events[u]
    BY <1>10 DEF SessionStreams, Emit, EmitOf, Typed, SessionTyped, StreamTyped
  <2>3. EntriesOwned'
    BY <1>10, <2>1, <2>2, EntriesStay DEF SessionStreams, Owned
  <2>4. MessagesOwned'
    BY <1>10, MessagesStay DEF SessionStreams, Owned
  <2>5. QED
    BY <2>3, <2>4 DEF Owned
<1>11. ASSUME NEW s \in Sessions, NEW e \in {CompletedEvent, ErrorEvent}, SessionFinishes(s, e)
       PROVE  Owned'
  <2>1. owner[s] # None
    BY <1>11 DEF SessionFinishes, Owned, EntriesOwned
  <2>2. \A u \in Sessions : u # s => phase'[u] = phase[u] /\ events'[u] = events[u]
    BY <1>11 DEF SessionFinishes, Emit, EmitOf, Typed, SessionTyped, StreamTyped
  <2>3. EntriesOwned'
    BY <1>11, <2>1, <2>2, EntriesStay DEF SessionFinishes, Owned
  <2>4. MessagesOwned'
    BY <1>11, MessagesStay DEF SessionFinishes, Owned
  <2>5. QED
    BY <2>3, <2>4 DEF Owned
<1>12. ASSUME NEW s \in Sessions, SessionFrees(s)
       PROVE  Owned'
  <2>1. owner[s] # None
    BY <1>12 DEF SessionFrees, Owned, EntriesOwned
  <2>2. \A u \in Sessions : u # s => phase'[u] = phase[u] /\ events'[u] = events[u]
    BY <1>12 DEF SessionFrees, Emit, EmitOf, Typed, SessionTyped, StreamTyped
  <2>3. EntriesOwned'
    BY <1>12, <2>1, <2>2, EntriesStay DEF SessionFrees, Owned
  <2>4. MessagesOwned'
    BY <1>12, MessagesStay DEF SessionFrees, Owned
  <2>5. QED
    BY <2>3, <2>4 DEF Owned
<1>13. ASSUME NEW s \in Sessions, SessionCloses(s)
       PROVE  Owned'
  <2>1. owner[s] # None
    BY <1>13 DEF SessionCloses, Owned, EntriesOwned
  <2>2. \A u \in Sessions : u # s => phase'[u] = phase[u] /\ events'[u] = events[u]
    BY <1>13 DEF SessionCloses, Emit, EmitOf, Typed, SessionTyped, StreamTyped
  <2>3. EntriesOwned'
    BY <1>13, <2>1, <2>2, EntriesStay DEF SessionCloses, Owned
  <2>4. MessagesOwned'
    BY <1>13, MessagesStay DEF SessionCloses, Owned
  <2>5. QED
    BY <2>3, <2>4 DEF Owned
<1>14. ASSUME NEW s \in Sessions, Forward(s)
       PROVE  Owned'
  <2>1. PICK m \in Messages : fwd' = Append(fwd, m) /\ m.from = s /\ m.key = owner[s]
    BY <1>14, ForwardedTyped
  <2>2. MessagesOwned'
    BY <1>14, <2>1, ForwarderAdds DEF Forward, Owned, MessagesOwned
  <2>3. owner[s] # None /\ \A u \in Sessions : u # s => events'[u] = events[u]
    BY <1>14 DEF Forward, Typed, StreamTyped
  <2>4. EntriesOwned'
    BY <1>14, <2>3, EntriesStay DEF Forward, Owned
  <2>5. QED
    BY <2>2, <2>4 DEF Owned
<1>15. ASSUME RouteNowhere
       PROVE  Owned'
  BY <1>15, EntriesStay, MessagesStay DEF RouteNowhere, Owned
<1>16. ASSUME NEW k \in Keys, RouteEnd(k)
       PROVE  Owned'
  BY <1>16, EntriesStay, MessagesStay DEF RouteEnd, Owned, Routed
<1>17. ASSUME NEW k \in Keys, RouteOutside(k)
       PROVE  Owned'
  BY <1>17, EntriesStay, MessagesStay DEF RouteOutside, Owned, Routed
<1>18. ASSUME NEW k \in Keys, RouteTurn(k)
       PROVE  Owned'
  BY <1>18, EntriesStay, MessagesStay DEF RouteTurn, Owned, Routed
<1>19. QED
  BY <1>1, <1>2, <1>3, <1>4, <1>5, <1>6, <1>7, <1>8, <1>9, <1>10, <1>11,
     <1>12, <1>13, <1>14, <1>15, <1>16, <1>17, <1>18
  DEF Next, PromptStep, SessionNext, Route

\* A stuttering step keeps every owner.
LEMMA OwnedStands ==
  ASSUME Owned, UNCHANGED vars
  PROVE  Owned'
BY DEF Owned, EntriesOwned, MessagesOwned, vars, entryVars, sessionVars, routeVars, callVars

\* The end of a stream was reported once the session was closed and all of the stream
\* forwarded; nothing of the session comes after it, neither on its way nor sent.
Over ==
  /\ \A s \in Sessions : drained[s] => phase[s] = "closed" /\ events[s] = <<>>
  /\ \A i \in 1..Len(fwd) : fwd[i].event = EndOfStream =>
       /\ drained[fwd[i].from]
       /\ \A j \in 1..Len(fwd) : i < j => fwd[j].from # fwd[i].from
  /\ \A i \in 1..Len(app) : app[i].event = EndOfStream =>
       /\ drained[app[i].from]
       /\ \A j \in 1..Len(app) : i < j => app[j].from # app[i].from
       /\ \A j \in 1..Len(fwd) : fwd[j].from # app[i].from

\* No stream has ended when the application connects.
LEMMA OverStart ==
  ASSUME Init
  PROVE  Over
BY DEF Init, Over

\* A step that forwards and routes nothing, and leaves closed sessions alone.
LEMMA OverStays ==
  ASSUME Typed, Over, UNCHANGED <<drained, fwd, app>>,
         \A s \in Sessions :
           phase[s] = "closed" => phase'[s] = "closed" /\ events'[s] = events[s]
  PROVE  Over'
BY DEF Over

\* The router takes the messages in their order.
LEMMA OverRouted ==
  ASSUME Typed, Over, fwd # <<>>, fwd' = Tail(fwd),
         app' \in {app, Append(app, Head(fwd))}, UNCHANGED <<drained, phase, events>>
  PROVE  Over'
<1>1. Len(fwd) \in Nat /\ Len(app) \in Nat /\ Len(fwd') \in Nat /\ Len(app') \in Nat
  BY TakenTyped, QueueTyped DEF Typed, RouteTyped
<1>2. \A i \in 1..Len(fwd') : fwd'[i].event = EndOfStream =>
        /\ drained'[fwd'[i].from]
        /\ \A j \in 1..Len(fwd') : i < j => fwd'[j].from # fwd'[i].from
  BY <1>1, RouterTakes DEF Over
<1>3. ASSUME NEW i \in 1..Len(app'), app'[i].event = EndOfStream
      PROVE  /\ drained'[app'[i].from]
             /\ \A j \in 1..Len(app') : i < j => app'[j].from # app'[i].from
             /\ \A j \in 1..Len(fwd') : fwd'[j].from # app'[i].from
  <2>1. CASE i \in 1..Len(app)
    <3>1. app'[i] = app[i] /\ app[i].event = EndOfStream
      BY <1>3, <2>1, RouterTakes
    <3>2. /\ drained[app[i].from]
          /\ \A j \in 1..Len(app) : i < j => app[j].from # app[i].from
          /\ \A j \in 1..Len(fwd) : fwd[j].from # app[i].from
      BY <2>1, <3>1 DEF Over
    <3>3. QED
      BY <1>1, <3>1, <3>2, RouterTakes
  <2>2. CASE i = Len(app) + 1 /\ app'[i] = Head(fwd)
    <3>1. Head(fwd) = fwd[1] /\ 1 \in 1..Len(fwd)
      BY RouterTakes
    <3>2. /\ drained[fwd[1].from]
          /\ \A j \in 1..Len(fwd) : 1 < j => fwd[j].from # fwd[1].from
      BY <1>3, <2>2, <3>1 DEF Over
    <3>3. \A j \in 1..Len(app') : ~(i < j)
      BY <1>1, <2>2, RouterTakes
    <3>4. \A j \in 1..Len(fwd') : j + 1 \in 1..Len(fwd) /\ 1 < j + 1 /\ fwd'[j] = fwd[j + 1]
      BY <1>1, RouterTakes
    <3>5. QED
      BY <2>2, <3>1, <3>2, <3>3, <3>4
  <2>3. QED
    BY <2>1, <2>2, RouterTakes
<1>4. \A s \in Sessions : drained'[s] => phase'[s] = "closed" /\ events'[s] = <<>>
  BY DEF Over
<1>5. QED
  BY <1>2, <1>3, <1>4 DEF Over

\* Each step keeps it so.
LEMMA OverKept ==
  ASSUME Typed, Over, Next
  PROVE  Over'
<1> USE DEF entryVars, sessionVars, routeVars, callVars, sessionFrame
<1>1. ASSUME NEW c \in Calls, PromptKnown(c)
      PROVE  Over'
  BY <1>1, OverStays DEF PromptKnown
<1>2. ASSUME NEW c \in Calls, PromptNew(c)
      PROVE  Over'
  BY <1>2, OverStays DEF PromptNew
<1>3. ASSUME NEW c \in Calls, PromptFails(c)
      PROVE  Over'
  BY <1>3, OverStays DEF PromptFails
<1>4. ASSUME NEW c \in Calls, PromptSubmit(c)
      PROVE  Over'
  BY <1>4, OverStays DEF PromptSubmit, Typed, SessionTyped
<1>5. ASSUME NEW c \in Calls, PromptReturns(c)
      PROVE  Over'
  BY <1>5, OverStays DEF PromptReturns
<1>6. ASSUME NEW c \in Calls, PromptRelease(c)
      PROVE  Over'
  BY <1>6, OverStays DEF PromptRelease
<1>7. ASSUME NEW c \in Calls, PromptDrop(c)
      PROVE  Over'
  BY <1>7, OverStays DEF PromptDrop
<1>8. ASSUME NEW k \in Keys, CloseKey(k)
      PROVE  Over'
  BY <1>8, OverStays DEF CloseKey, RemoveEntries
<1>9. ASSUME Shutdown
      PROVE  Over'
  BY <1>9, OverStays DEF Shutdown, RemoveEntries
<1>10. ASSUME NEW s \in Sessions, SessionStreams(s)
       PROVE  Over'
  BY <1>10, OverStays
  DEF SessionStreams, Emit, EmitOf, Typed, SessionTyped, StreamTyped
<1>11. ASSUME NEW s \in Sessions, NEW e \in {CompletedEvent, ErrorEvent}, SessionFinishes(s, e)
       PROVE  Over'
  BY <1>11, OverStays
  DEF SessionFinishes, Emit, EmitOf, Typed, SessionTyped, StreamTyped
<1>12. ASSUME NEW s \in Sessions, SessionFrees(s)
       PROVE  Over'
  BY <1>12, OverStays
  DEF SessionFrees, Emit, EmitOf, Typed, SessionTyped, StreamTyped
<1>13. ASSUME NEW s \in Sessions, SessionCloses(s)
       PROVE  Over'
  BY <1>13, OverStays
  DEF SessionCloses, Emit, EmitOf, Typed, SessionTyped, StreamTyped
<1>14. ASSUME NEW s \in Sessions, Forward(s)
       PROVE  Over'
  <2>1. PICK m \in Messages :
          /\ fwd' = Append(fwd, m) /\ m.from = s
          /\ \/ /\ m.event # EndOfStream /\ UNCHANGED drained
                /\ events' = [events EXCEPT ![s] = Tail(@)]
             \/ /\ m.event = EndOfStream /\ UNCHANGED events
                /\ events[s] = <<>> /\ phase[s] = "closed"
                /\ drained' = [drained EXCEPT ![s] = TRUE]
    BY <1>14, ForwardedTyped
  <2>2. ~drained[s] /\ UNCHANGED <<phase, app>>
    BY <1>14 DEF Forward
  <2>3. /\ \A u \in Sessions : u # s => drained'[u] = drained[u] /\ events'[u] = events[u]
        /\ m.event = EndOfStream => drained'[s] /\ phase[s] = "closed" /\ events'[s] = <<>>
        /\ m.event # EndOfStream => ~drained'[s]
    BY <2>1, <2>2 DEF Typed, RouteTyped, StreamTyped
  <2>4. \A u \in Sessions : drained'[u] => phase'[u] = "closed" /\ events'[u] = <<>>
    BY <2>2, <2>3 DEF Over
  <2>5. \A x \in Messages : x.from \in Sessions
    BY DEF Messages
  <2>6. /\ \A i \in 1..Len(fwd) : fwd[i].from \in Sessions
        /\ \A i \in 1..Len(app) : app[i].from \in Sessions
        /\ Len(fwd) \in Nat
    BY <2>5, QueueTyped DEF Typed, RouteTyped
  <2>7. /\ \A i \in 1..Len(fwd) : fwd[i].event = EndOfStream => fwd[i].from # s
        /\ \A i \in 1..Len(app) : app[i].event = EndOfStream => app[i].from # s
    BY <2>2 DEF Over
  <2>8. \A i \in 1..Len(fwd') : fwd'[i].event = EndOfStream =>
          /\ drained'[fwd'[i].from]
          /\ \A j \in 1..Len(fwd') : i < j => fwd'[j].from # fwd'[i].from
    BY <2>1, <2>3, <2>6, <2>7, ForwarderAdds DEF Over
  <2>9. \A i \in 1..Len(app') : app'[i].event = EndOfStream =>
          /\ drained'[app'[i].from]
          /\ \A j \in 1..Len(app') : i < j => app'[j].from # app'[i].from
          /\ \A j \in 1..Len(fwd') : fwd'[j].from # app'[i].from
    BY <2>1, <2>2, <2>3, <2>6, <2>7, ForwarderAdds DEF Over
  <2>10. QED
    BY <2>4, <2>8, <2>9 DEF Over
<1>15. ASSUME RouteNowhere
       PROVE  Over'
  BY <1>15, OverRouted DEF RouteNowhere
<1>16. ASSUME NEW k \in Keys, RouteEnd(k)
       PROVE  Over'
  BY <1>16, OverRouted DEF RouteEnd, Routed
<1>17. ASSUME NEW k \in Keys, RouteOutside(k)
       PROVE  Over'
  BY <1>17, OverRouted DEF RouteOutside, Routed
<1>18. ASSUME NEW k \in Keys, RouteTurn(k)
       PROVE  Over'
  BY <1>18, OverRouted DEF RouteTurn, Routed
<1>19. QED
  BY <1>1, <1>2, <1>3, <1>4, <1>5, <1>6, <1>7, <1>8, <1>9, <1>10, <1>11,
     <1>12, <1>13, <1>14, <1>15, <1>16, <1>17, <1>18
  DEF Next, PromptStep, SessionNext, Route

\* A stuttering step keeps what is over.
LEMMA OverStands ==
  ASSUME Over, UNCHANGED vars
  PROVE  Over'
BY DEF Over, vars, entryVars, sessionVars, routeVars, callVars

\* Owned and Over are invariants of the pool.
LEMMA PoolOwned == Spec => [](Typed /\ Owned /\ Over)
<1>1. Spec => []Owned
  BY PoolTyped, OwnedStart, OwnedKept, OwnedStands, PTL DEF Spec
<1>2. Spec => []Over
  BY PoolTyped, OverStart, OverKept, OverStands, PTL DEF Spec
<1>3. QED
  BY <1>1, <1>2, PoolTyped, PTL

\* After the end of a session the application is sent nothing of that session.
SessionEndIsLast ==
  \A i, j \in 1..Len(app) :
    i < j /\ app[i].event = EndOfStream => app[j].from # app[i].from

\* "No further events follow" (pool.rs:46) holds of every session, whether or not its
\* key is prompted again after a close: what is queued when a session closes is
\* forwarded before the word that it closed, and the router keeps the order.
THEOREM SessionEndsAreLast == Spec => []SessionEndIsLast
<1>1. Over => SessionEndIsLast
  BY DEF Over, SessionEndIsLast
<1>2. QED
  BY <1>1, PoolOwned, PTL

\* A key has had one session.
Single == \A s, u \in Sessions : owner[s] = owner[u] /\ owner[s] # None => s = u

\* Nobody has a session when the application connects.
LEMMA SingleStart ==
  ASSUME Init
  PROVE  Single
BY DEF Init, Single

\* Where keys are not prompted again after a close it is so.
LEMMA SingleKept ==
  ASSUME Typed, Single, ~Recreate, [Next]_vars
  PROVE  Single'
<1>1. CASE UNCHANGED owner
  BY <1>1 DEF Single
<1>2. ASSUME NEW c \in Calls, PromptNew(c)
      PROVE  Single'
  <2>1. PICK s \in Sessions :
          KeyOf[c] \notin Range(owner) /\ owner' = [owner EXCEPT ![s] = KeyOf[c]]
    BY <1>2 DEF PromptNew
  <2>2. \A u \in Sessions : owner[u] # KeyOf[c]
    BY <2>1 DEF Range, Typed, SessionTyped
  <2>3. QED
    BY <2>1, <2>2 DEF Single, Typed, SessionTyped
<1>3. UNCHANGED owner \/ \E c \in Calls : PromptNew(c)
  BY DEF Next, PromptStep, SessionNext, Route, PromptKnown, PromptFails, PromptSubmit,
         PromptReturns, PromptRelease, PromptDrop, CloseKey, Shutdown, RemoveEntries,
         SessionStreams, SessionFinishes, SessionFrees, SessionCloses, Forward,
         RouteNowhere, RouteEnd, RouteOutside, RouteTurn, Routed, sessionFrame, vars,
         sessionVars
<1>4. QED
  BY <1>1, <1>2, <1>3

\* Single is an invariant where keys are not prompted again after a close.
LEMMA PoolSingle ==
  ASSUME ~Recreate
  PROVE  Spec => []Single
<1>1. Init => Single
  BY SingleStart
<1>2. Typed /\ Single /\ [Next]_vars => Single'
  BY SingleKept
<1>3. QED
  BY <1>1, <1>2, PoolTyped, PTL DEF Spec

\* Ended means that "no further events follow for that key" (pool.rs:46): proved for
\* every number of keys, calls, sessions and updates where no key is prompted again
\* after a close. Where one is, the key's next session streams on (SessionEndsAreLast
\* is what remains).
THEOREM KeyEndsAreLast ==
  ASSUME ~Recreate
  PROVE  Spec => []EndedIsLast
<1>1. Typed /\ Owned /\ Over /\ Single => EndedIsLast
  <2> SUFFICES ASSUME Typed, Owned, Over, Single,
                      NEW i \in 1..Len(app), NEW j \in 1..Len(app),
                      i < j, app[i].event = EndOfStream, app[j].key = app[i].key
               PROVE  FALSE
    BY DEF EndedIsLast
  <2>1. app[i] \in Messages /\ app[j] \in Messages
    BY QueueTyped DEF Typed, RouteTyped
  <2>2. /\ app[i].from \in Sessions /\ app[j].from \in Sessions
        /\ app[i].key \in Keys
    BY <2>1 DEF Messages
  <2>3. owner[app[i].from] = owner[app[j].from] /\ owner[app[i].from] # None
    BY <2>2, PoolConstants DEF PoolConstants, Owned, MessagesOwned
  <2>4. app[i].from = app[j].from
    BY <2>2, <2>3 DEF Single
  <2>5. QED
    BY <2>4 DEF Over
<1>2. QED
  BY <1>1, PoolOwned, PoolSingle, PTL

--------------------------------------------------------------------------------
(* Updates on their way *)

\* Where an element of S is in a queue.
Places(q, S) == {i \in 1..Len(q) : q[i] \in S}

\* They are finitely many.
LEMMA PlacesFinite ==
  ASSUME NEW T, NEW q \in Seq(T), NEW S
  PROVE  IsFiniteSet(Places(q, S)) /\ Cardinality(Places(q, S)) \in Nat
<1>1. IsFiniteSet(1..Len(q)) /\ Places(q, S) \in SUBSET (1..Len(q))
  BY FS_Interval DEF Places
<1>2. QED
  BY <1>1, FS_Subset, FS_CardinalityType

\* An element that joins is counted.
LEMMA PlacesAppend ==
  ASSUME NEW T, NEW q \in Seq(T), NEW x \in T, NEW S
  PROVE  Cardinality(Places(Append(q, x), S)) =
           Cardinality(Places(q, S)) + (IF x \in S THEN 1 ELSE 0)
<1>1. /\ Len(Append(q, x)) = Len(q) + 1 /\ Len(q) \in Nat
      /\ \A i \in 1..Len(q) : Append(q, x)[i] = q[i]
      /\ Append(q, x)[Len(q) + 1] = x
  OBVIOUS
<1>2. CASE x \in S
  <2>1. Places(Append(q, x), S) = Places(q, S) \cup {Len(q) + 1}
    BY <1>1, <1>2 DEF Places
  <2>2. Len(q) + 1 \notin Places(q, S)
    BY <1>1 DEF Places
  <2>3. QED
    BY <1>2, <2>1, <2>2, PlacesFinite, FS_AddElement
<1>3. CASE x \notin S
  <2>1. Places(Append(q, x), S) = Places(q, S)
    BY <1>1, <1>3 DEF Places
  <2>2. QED
    BY <1>3, <2>1, PlacesFinite
<1>4. QED
  BY <1>2, <1>3

\* An element that is taken no longer is.
LEMMA PlacesTail ==
  ASSUME NEW T, NEW q \in Seq(T), q # <<>>, NEW S
  PROVE  Cardinality(Places(q, S)) =
           Cardinality(Places(Tail(q), S)) + (IF Head(q) \in S THEN 1 ELSE 0)
<1> DEFINE P == Places(Tail(q), S)
           Q == Places(q, S) \ {1}
           f == [i \in P |-> i + 1]
<1>1. /\ Tail(q) \in Seq(T) /\ Len(Tail(q)) = Len(q) - 1 /\ Len(q) \in Nat /\ Len(q) >= 1
      /\ \A i \in 1..Len(Tail(q)) : Tail(q)[i] = q[i + 1]
      /\ Head(q) = q[1]
  BY QueueTyped
<1>2. \A i \in P : i \in Nat /\ i + 1 \in Q
  BY <1>1 DEF Places
<1>3. \A j \in Q : j - 1 \in P /\ (j - 1) + 1 = j
  BY <1>1 DEF Places
<1> HIDE DEF P, Q
<1>4. f \in Bijection(P, Q)
  <2>1. f \in [P -> Q]
    BY <1>2
  <2>2. \A i, j \in P : f[i] = f[j] => i = j
    BY <1>2
  <2>3. \A j \in Q : \E i \in P : f[i] = j
    BY <1>3
  <2>4. QED
    BY <2>1, <2>2, <2>3 DEF Bijection, Injection, Surjection, IsInjective
<1>5. IsFiniteSet(P) /\ Cardinality(P) \in Nat
  BY <1>1, PlacesFinite DEF P
<1>6. Cardinality(Q) = Cardinality(P)
  BY <1>4, <1>5, FS_Bijection DEF ExistsBijection
<1>7. IsFiniteSet(Places(q, S)) /\ Cardinality(Places(q, S)) \in Nat
  BY PlacesFinite
<1>8. Cardinality(Q) = Cardinality(Places(q, S))
                         - (IF 1 \in Places(q, S) THEN 1 ELSE 0)
  <2> DEFINE R == Places(q, S)
  <2> HIDE DEF R
  <2>1. IsFiniteSet(R) /\ Cardinality(R) \in Nat
    BY <1>7 DEF R
  <2>2. Cardinality(R \ {1}) = IF 1 \in R THEN Cardinality(R) - 1 ELSE Cardinality(R)
    BY <2>1, FS_RemoveElement
  <2>3. QED
    BY <2>1, <2>2 DEF Q, R
<1>9. 1 \in Places(q, S) <=> Head(q) \in S
  BY <1>1 DEF Places
<1>10. QED
  BY <1>5, <1>6, <1>7, <1>8, <1>9 DEF P

\* Updates of a session that are still in its stream, and those forwarded.
Unforwarded(s) == Cardinality(Places(events[s], {e \in Envelopes : e.event = UpdateEvent}))
Unrouted(s) ==
  Cardinality(Places(fwd, {m \in Messages : m.from = s /\ m.event = UpdateEvent}))
Waiting(s) == Unforwarded(s) + Unrouted(s)

\* They are a number.
LEMMA WaitingCounted ==
  ASSUME Typed, NEW s \in Sessions
  PROVE  Unforwarded(s) \in Nat /\ Unrouted(s) \in Nat /\ Waiting(s) \in Nat
BY PlacesFinite DEF Unforwarded, Unrouted, Waiting, Typed, StreamTyped, RouteTyped

\* One more waits when the session streams an update, and no other event counts.
LEMMA WaitingEmit ==
  ASSUME Typed, NEW s \in Sessions, NEW r \in Names, NEW e \in Items,
         EmitOf(s, r, e), UNCHANGED fwd
  PROVE  \A u \in Sessions :
           Waiting(u)' = Waiting(u) + (IF u = s /\ e = UpdateEvent THEN 1 ELSE 0)
<1>1. SUFFICES ASSUME NEW u \in Sessions
               PROVE  Waiting(u)' =
                        Waiting(u) + (IF u = s /\ e = UpdateEvent THEN 1 ELSE 0)
  OBVIOUS
<1>2. Unrouted(u)' = Unrouted(u)
  BY DEF Unrouted
<1>3. TaggedEvent(r, e) \in Envelopes /\ TaggedEvent(r, e).event = e
  BY DEF TaggedEvent, Envelopes
<1>4. CASE u = s
  <2>1. events'[s] = Append(events[s], TaggedEvent(r, e)) /\ events[s] \in Seq(Envelopes)
    BY DEF EmitOf, Typed, StreamTyped
  <2>2. Unforwarded(s)' = Unforwarded(s) + (IF e = UpdateEvent THEN 1 ELSE 0)
    BY <1>3, <2>1, PlacesAppend DEF Unforwarded
  <2>3. QED
    BY <1>2, <1>4, <2>2, WaitingCounted DEF Waiting
<1>5. CASE u # s
  <2>1. events'[u] = events[u]
    BY <1>5 DEF EmitOf, Typed, StreamTyped
  <2>2. Unforwarded(u)' = Unforwarded(u)
    BY <2>1 DEF Unforwarded
  <2>3. QED
    BY <1>2, <1>5, <2>2, WaitingCounted DEF Waiting
<1>6. QED
  BY <1>4, <1>5

\* A forwarder leaves as many waiting.
LEMMA WaitingForward ==
  ASSUME Typed, NEW s \in Sessions, Forward(s)
  PROVE  \A u \in Sessions : Waiting(u)' = Waiting(u)
<1>1. PICK m \in Messages :
        /\ fwd' = Append(fwd, m) /\ m.from = s
        /\ \/ /\ events[s] # <<>> /\ m.event = Head(events[s]).event
              /\ events' = [events EXCEPT ![s] = Tail(@)]
           \/ /\ m.event = EndOfStream /\ UNCHANGED events
  BY ForwardedTyped
<1>2. SUFFICES ASSUME NEW u \in Sessions PROVE Waiting(u)' = Waiting(u)
  OBVIOUS
<1>3. /\ fwd \in Seq(Messages) /\ \A v \in Sessions : events[v] \in Seq(Envelopes)
  BY DEF Typed, StreamTyped, RouteTyped
<1>4. Unrouted(u)' =
        Unrouted(u) + (IF u = s /\ m.event = UpdateEvent THEN 1 ELSE 0)
  BY <1>1, <1>3, PlacesAppend DEF Unrouted
<1>5. EndOfStream # UpdateEvent
  BY DEF EndOfStream, UpdateEvent, Plain
<1>6. Unforwarded(u) =
        Unforwarded(u)' + (IF u = s /\ m.event = UpdateEvent THEN 1 ELSE 0)
  <2>1. CASE UNCHANGED events /\ m.event = EndOfStream
    BY <1>5, <2>1, WaitingCounted DEF Unforwarded
  <2>2. CASE /\ events[s] # <<>> /\ m.event = Head(events[s]).event
             /\ events' = [events EXCEPT ![s] = Tail(@)]
    <3>1. CASE u = s
      <4>1. events'[s] = Tail(events[s]) /\ Head(events[s]) \in Envelopes
        BY <1>3, <2>2, QueueTyped DEF Typed, StreamTyped
      <4> DEFINE U == {e \in Envelopes : e.event = UpdateEvent}
      <4>2. Head(events[s]) \in U <=> m.event = UpdateEvent
        BY <2>2, <4>1
      <4> HIDE DEF U
      <4>3. Cardinality(Places(events[s], U)) =
              Cardinality(Places(Tail(events[s]), U)) +
                (IF Head(events[s]) \in U THEN 1 ELSE 0)
        BY <1>3, <2>2, PlacesTail
      <4>4. /\ Unforwarded(s) = Cardinality(Places(events[s], U))
            /\ Unforwarded(s)' = Cardinality(Places(Tail(events[s]), U))
        BY <4>1 DEF Unforwarded, U
      <4>5. QED
        BY <3>1, <4>2, <4>3, <4>4
    <3>2. CASE u # s
      <4>1. events'[u] = events[u]
        BY <2>2, <3>2 DEF Typed, StreamTyped
      <4>2. Unforwarded(u)' = Unforwarded(u)
        BY <4>1 DEF Unforwarded
      <4>3. QED
        BY <3>2, <4>2, WaitingCounted
    <3>3. QED
      BY <3>1, <3>2
  <2>3. QED
    BY <1>1, <2>1, <2>2
<1>7. Unforwarded(u)' \in Nat
  <2>1. Typed'
    BY TypeKept DEF Next
  <2>2. QED
    BY <2>1, PlacesFinite DEF Unforwarded, Typed, StreamTyped
<1>8. QED
  BY <1>4, <1>6, <1>7, WaitingCounted DEF Waiting

\* The router takes the one at the front.
LEMMA WaitingRoute ==
  ASSUME Typed, fwd # <<>>, fwd' = Tail(fwd), UNCHANGED events
  PROVE  \A u \in Sessions :
           /\ Waiting(u)' \in Nat
           /\ Waiting(u) = Waiting(u)' + (IF Head(fwd).from = u
                                            /\ Head(fwd).event = UpdateEvent THEN 1 ELSE 0)
<1>1. SUFFICES ASSUME NEW u \in Sessions
               PROVE  /\ Waiting(u)' \in Nat
                      /\ Waiting(u) = Waiting(u)' +
                           (IF Head(fwd).from = u /\ Head(fwd).event = UpdateEvent
                            THEN 1 ELSE 0)
  OBVIOUS
<1>2. fwd \in Seq(Messages) /\ Head(fwd) \in Messages /\ Tail(fwd) \in Seq(Messages)
  BY QueueTyped DEF Typed, RouteTyped
<1>3. Unrouted(u) = Unrouted(u)' + (IF Head(fwd).from = u
                                      /\ Head(fwd).event = UpdateEvent THEN 1 ELSE 0)
  BY <1>2, PlacesTail DEF Unrouted
<1>4. Unrouted(u)' \in Nat /\ Unforwarded(u)' = Unforwarded(u)
  BY <1>2, PlacesFinite DEF Unrouted, Unforwarded
<1>5. QED
  BY <1>3, <1>4, WaitingCounted DEF Waiting

\* The snapshot holds no more text than updates were streamed: what it applied and what
\* waits is all of the key's session.
Bounded ==
  \A k \in Keys, r \in Requests, s \in Sessions :
    session[k] = s => conv[k].turns[r].text + Waiting(s) <= updates[s]

\* One event makes the text of its turn longer by one at the most, and leaves the others.
LEMMA AppliedText ==
  ASSUME NEW snapshot \in Conversations(Keys), NEW k \in Keys, NEW r \in Requests,
         NEW n \in Nat, NEW e \in Items, NEW after,
         after = Apply(snapshot, Wire(k, r, n, e)).conv
  PROVE  /\ \A q \in Requests : q # r => after.turns[q] = snapshot.turns[q]
         /\ \/ after.turns[r] = snapshot.turns[r]
            \/ after.turns[r] = Candidate(snapshot, Wire(k, r, n, e))
         /\ after.turns[r].text \in Nat /\ snapshot.turns[r].text \in Nat
         /\ after.turns[r].text <=
              snapshot.turns[r].text + (IF e = UpdateEvent THEN 1 ELSE 0)
<1> DEFINE w == Wire(k, r, n, e)
           t == Candidate(snapshot, w)
<1>1. w.request_id = r /\ w.event = e
  BY DEF Wire
<1>2. snapshot.turns[r] \in Turn
  BY DEF Conversations
<1>3. /\ ApplyEvent(snapshot.turns[r], e) \in Turn
      /\ ApplyEvent(snapshot.turns[r], e).text =
           snapshot.turns[r].text + (IF e = UpdateEvent THEN 1 ELSE 0)
  BY <1>2, EventOfSession
<1>4. t.text = ApplyEvent(snapshot.turns[r], e).text
  BY <1>1, <1>3 DEF Candidate, Turn
<1>5. \/ after = snapshot
      \/ \E c : after = [snapshot EXCEPT !.turns[r] = t, !.configuration = c]
  BY <1>1 DEF Apply
<1> HIDE DEF t, w
<1>6. /\ \A q \in Requests : q # r => after.turns[q] = snapshot.turns[q]
      /\ after.turns[r] \in {snapshot.turns[r], t}
  BY <1>5 DEF Conversations
<1>7. snapshot.turns[r].text \in Nat /\ ApplyEvent(snapshot.turns[r], e).text \in Nat
  BY <1>2, <1>3 DEF Turn
<1>8. QED
  BY <1>3, <1>4, <1>6, <1>7 DEF t, w

\* Nothing waits of a session that is not there.
LEMMA FreshWaits ==
  ASSUME Typed, Owned, NEW s \in Sessions, owner[s] = None
  PROVE  Waiting(s) = 0
<1>1. events[s] = <<>>
  BY DEF Owned, EntriesOwned
<1>2. ASSUME NEW i \in 1..Len(fwd)
      PROVE  fwd[i].from # s
  <2>1. fwd[i] \in Messages
    BY QueueTyped DEF Typed, RouteTyped
  <2>2. fwd[i].key \in Keys
    BY <2>1 DEF Messages
  <2>3. QED
    BY <2>2, PoolConstants DEF PoolConstants, Owned, MessagesOwned
<1>3. Unforwarded(s) = 0
  BY <1>1, FS_EmptySet DEF Unforwarded, Places
<1>4. Places(fwd, {m \in Messages : m.from = s /\ m.event = UpdateEvent}) = {}
  BY <1>2 DEF Places
<1>5. QED
  BY <1>3, <1>4, FS_EmptySet DEF Unrouted, Waiting

\* No text is there when the application connects.
LEMMA BoundedStart ==
  ASSUME Init
  PROVE  Bounded
BY PoolConstants DEF PoolConstants, Init, Bounded, Sessions

\* A step that applies nothing, and after which no more waits than was streamed by it.
LEMMA BoundedStays ==
  ASSUME Typed, Typed', Bounded, UNCHANGED conv,
         \A k \in Keys : session'[k] \in {0, session[k]},
         \A s \in Sessions : /\ Waiting(s)' \in Nat
                             /\ Waiting(s)' + updates[s] <= Waiting(s) + updates'[s]
  PROVE  Bounded'
<1>1. SUFFICES ASSUME NEW k \in Keys, NEW r \in Requests, NEW s \in Sessions,
                      session'[k] = s
               PROVE  conv[k].turns[r].text + Waiting(s)' <= updates'[s]
  BY DEF Bounded
<1>2. session[k] = s
  BY <1>1, PoolConstants DEF PoolConstants, Sessions
<1>3. conv[k].turns[r].text + Waiting(s) <= updates[s]
  BY <1>2 DEF Bounded
<1>4. conv[k].turns[r].text \in Nat
  BY DEF Typed, SnapshotTyped, Conversations, Turn
<1>5. updates[s] \in Nat /\ updates'[s] \in Nat
  BY PoolConstants DEF PoolConstants, Typed, SessionTyped
<1>6. QED
  BY <1>3, <1>4, <1>5, WaitingCounted

\* What the router takes for a key that has an entry is of the session it has.
LEMMA RoutedFromSession ==
  ASSUME Typed, Owned, Single, NEW k \in Keys, Routed(k)
  PROVE  /\ session[k] \in Sessions /\ Head(fwd).from = session[k]
         /\ \A j \in Keys : j # k /\ session[j] # 0 => session[j] # session[k]
<1>1. Head(fwd) \in Messages /\ Head(fwd) = fwd[1] /\ 1 \in 1..Len(fwd)
  BY QueueTyped DEF Routed, Typed, RouteTyped
<1>2. session[k] \in Sessions /\ Head(fwd).from \in Sessions
  BY <1>1 DEF Routed, Typed, EntryTyped, Messages
<1>3. owner[Head(fwd).from] = k /\ owner[session[k]] = k /\ k # None
  BY <1>1, PoolConstants DEF PoolConstants, Routed, Owned, EntriesOwned, MessagesOwned
<1>4. \A j \in Keys : session[j] # 0 => owner[session[j]] = j
  BY DEF Owned, EntriesOwned
<1>5. QED
  BY <1>2, <1>3, <1>4 DEF Single

\* An event of a turn, as the router has it.
LEMMA RoutedOfTurn ==
  ASSUME Typed, NEW k \in Keys, RouteTurn(k)
  PROVE  /\ fwd # <<>> /\ fwd' = Tail(fwd) /\ app' = Append(app, Head(fwd))
         /\ Head(fwd) \in Messages
         /\ Head(fwd).request \in Requests /\ Head(fwd).event \in Items
         /\ seqs[k][Head(fwd).request] + 1 \in Nat
         /\ UNCHANGED <<session, updates, events>>
<1>1. Head(fwd).request # None /\ fwd # <<>>
  BY DEF RouteTurn, Routed
<1>2. Head(fwd) \in Messages /\ Head(fwd) = fwd[1] /\ 1 \in 1..Len(fwd)
  BY <1>1, QueueTyped DEF Typed, RouteTyped
<1>3. Head(fwd).event # EndOfStream
  BY <1>1, <1>2 DEF Typed, RouteTyped
<1>4. Head(fwd).request \in Requests /\ Head(fwd).event \in Items
  BY <1>1, <1>2, <1>3 DEF Messages, Names
<1>5. seqs[k][Head(fwd).request] + 1 \in Nat
  BY <1>4 DEF Typed, SnapshotTyped
<1>6. QED
  BY <1>1, <1>2, <1>4, <1>5 DEF RouteTurn, Routed, sessionVars

\* Each step keeps it so, where a key has one session.
LEMMA BoundedKept ==
  ASSUME Typed, Owned, Single, Bounded, Next
  PROVE  Bounded'
<1> USE DEF entryVars, sessionVars, routeVars, callVars, sessionFrame
<1>1. ASSUME NEW c \in Calls, PromptKnown(c)
      PROVE  Bounded'
  <2>1. Typed' /\ UNCHANGED <<conv, updates, events, fwd>>
    BY <1>1, TypeKept DEF PromptKnown
  <2>2. \A s \in Sessions : Waiting(s)' = Waiting(s) /\ updates'[s] = updates[s]
    BY <2>1 DEF Waiting, Unforwarded, Unrouted
  <2>3. \A s \in Sessions : updates[s] \in Nat
    BY PoolConstants DEF PoolConstants, Typed, SessionTyped
  <2>4. \A k \in Keys : session'[k] \in {0, session[k]}
    BY <1>1 DEF PromptKnown
  <2>5. QED
    BY <2>1, <2>2, <2>3, <2>4, WaitingCounted, BoundedStays
<1>2. ASSUME NEW c \in Calls, PromptNew(c)
      PROVE  Bounded'
  <2>1. KeyOf[c] \in Keys
    BY PoolConstants DEF PoolConstants
  <2>2. PICK s \in Sessions :
          /\ owner[s] = None
          /\ session' = [session EXCEPT ![KeyOf[c]] = s]
          /\ conv' = [conv EXCEPT ![KeyOf[c]] = NewConversation(KeyOf[c])]
    BY <1>2 DEF PromptNew
  <2>3. UNCHANGED <<updates, events, fwd>>
    BY <1>2 DEF PromptNew
  <2>4. \A u \in Sessions : Waiting(u)' = Waiting(u) /\ updates'[u] = updates[u]
    BY <2>3 DEF Waiting, Unforwarded, Unrouted
  <2>5. SUFFICES ASSUME NEW k \in Keys, NEW r \in Requests, NEW u \in Sessions,
                        session'[k] = u
                 PROVE  conv'[k].turns[r].text + Waiting(u) <= updates[u]
    BY <2>4 DEF Bounded
  <2>6. CASE k = KeyOf[c]
    <3>1. u = s /\ conv'[k].turns[r].text = 0
      BY <2>1, <2>2, <2>5, <2>6
      DEF Typed, EntryTyped, SnapshotTyped, NewConversation, NewTurn
    <3>2. Waiting(s) = 0 /\ updates[s] \in Nat
      BY <2>2, FreshWaits, PoolConstants DEF PoolConstants, Typed, SessionTyped
    <3>3. QED
      BY <3>1, <3>2
  <2>7. CASE k # KeyOf[c]
    <3>1. session[k] = u /\ conv'[k] = conv[k]
      BY <2>2, <2>5, <2>7 DEF Typed, EntryTyped, SnapshotTyped
    <3>2. QED
      BY <3>1 DEF Bounded
  <2>8. QED
    BY <2>6, <2>7
<1>3. ASSUME NEW c \in Calls, PromptFails(c)
      PROVE  Bounded'
  <2>1. Typed' /\ UNCHANGED <<conv, updates, events, fwd>>
    BY <1>3, TypeKept DEF PromptFails
  <2>2. \A s \in Sessions : Waiting(s)' = Waiting(s) /\ updates'[s] = updates[s]
    BY <2>1 DEF Waiting, Unforwarded, Unrouted
  <2>3. \A s \in Sessions : updates[s] \in Nat
    BY PoolConstants DEF PoolConstants, Typed, SessionTyped
  <2>4. \A k \in Keys : session'[k] \in {0, session[k]}
    BY <1>3 DEF PromptFails
  <2>5. QED
    BY <2>1, <2>2, <2>3, <2>4, WaitingCounted, BoundedStays
<1>4. ASSUME NEW c \in Calls, PromptSubmit(c)
      PROVE  Bounded'
  <2>1. Typed' /\ UNCHANGED <<conv, updates, events, fwd>>
    BY <1>4, TypeKept DEF PromptSubmit
  <2>2. \A s \in Sessions : Waiting(s)' = Waiting(s) /\ updates'[s] = updates[s]
    BY <2>1 DEF Waiting, Unforwarded, Unrouted
  <2>3. \A s \in Sessions : updates[s] \in Nat
    BY PoolConstants DEF PoolConstants, Typed, SessionTyped
  <2>4. \A k \in Keys : session'[k] \in {0, session[k]}
    BY <1>4 DEF PromptSubmit
  <2>5. QED
    BY <2>1, <2>2, <2>3, <2>4, WaitingCounted, BoundedStays
<1>5. ASSUME NEW c \in Calls, PromptReturns(c)
      PROVE  Bounded'
  <2>1. Typed' /\ UNCHANGED <<conv, updates, events, fwd>>
    BY <1>5, TypeKept DEF PromptReturns
  <2>2. \A s \in Sessions : Waiting(s)' = Waiting(s) /\ updates'[s] = updates[s]
    BY <2>1 DEF Waiting, Unforwarded, Unrouted
  <2>3. \A s \in Sessions : updates[s] \in Nat
    BY PoolConstants DEF PoolConstants, Typed, SessionTyped
  <2>4. \A k \in Keys : session'[k] \in {0, session[k]}
    BY <1>5 DEF PromptReturns
  <2>5. QED
    BY <2>1, <2>2, <2>3, <2>4, WaitingCounted, BoundedStays
<1>6. ASSUME NEW c \in Calls, PromptRelease(c)
      PROVE  Bounded'
  <2>1. Typed' /\ UNCHANGED <<conv, updates, events, fwd>>
    BY <1>6, TypeKept DEF PromptRelease
  <2>2. \A s \in Sessions : Waiting(s)' = Waiting(s) /\ updates'[s] = updates[s]
    BY <2>1 DEF Waiting, Unforwarded, Unrouted
  <2>3. \A s \in Sessions : updates[s] \in Nat
    BY PoolConstants DEF PoolConstants, Typed, SessionTyped
  <2>4. \A k \in Keys : session'[k] \in {0, session[k]}
    BY <1>6 DEF PromptRelease
  <2>5. QED
    BY <2>1, <2>2, <2>3, <2>4, WaitingCounted, BoundedStays
<1>7. ASSUME NEW c \in Calls, PromptDrop(c)
      PROVE  Bounded'
  <2>1. Typed' /\ UNCHANGED <<conv, updates, events, fwd>>
    BY <1>7, TypeKept DEF PromptDrop
  <2>2. \A s \in Sessions : Waiting(s)' = Waiting(s) /\ updates'[s] = updates[s]
    BY <2>1 DEF Waiting, Unforwarded, Unrouted
  <2>3. \A s \in Sessions : updates[s] \in Nat
    BY PoolConstants DEF PoolConstants, Typed, SessionTyped
  <2>4. \A k \in Keys : session'[k] \in {0, session[k]}
    BY <1>7 DEF PromptDrop
  <2>5. QED
    BY <2>1, <2>2, <2>3, <2>4, WaitingCounted, BoundedStays
<1>8. ASSUME NEW k \in Keys, CloseKey(k)
      PROVE  Bounded'
  <2>1. Typed' /\ UNCHANGED <<conv, updates, events, fwd>>
    BY <1>8, TypeKept DEF CloseKey, RemoveEntries
  <2>2. \A s \in Sessions : Waiting(s)' = Waiting(s) /\ updates'[s] = updates[s]
    BY <2>1 DEF Waiting, Unforwarded, Unrouted
  <2>3. \A s \in Sessions : updates[s] \in Nat
    BY PoolConstants DEF PoolConstants, Typed, SessionTyped
  <2>4. \A q \in Keys : session'[q] \in {0, session[q]}
    BY <1>8 DEF CloseKey, RemoveEntries
  <2>5. QED
    BY <2>1, <2>2, <2>3, <2>4, WaitingCounted, BoundedStays
<1>9. ASSUME Shutdown
      PROVE  Bounded'
  <2>1. Typed' /\ UNCHANGED <<conv, updates, events, fwd>>
    BY <1>9, TypeKept DEF Shutdown, RemoveEntries
  <2>2. \A s \in Sessions : Waiting(s)' = Waiting(s) /\ updates'[s] = updates[s]
    BY <2>1 DEF Waiting, Unforwarded, Unrouted
  <2>3. \A s \in Sessions : updates[s] \in Nat
    BY PoolConstants DEF PoolConstants, Typed, SessionTyped
  <2>4. \A k \in Keys : session'[k] \in {0, session[k]}
    BY <1>9 DEF Shutdown, RemoveEntries
  <2>5. QED
    BY <2>1, <2>2, <2>3, <2>4, WaitingCounted, BoundedStays
<1>10. ASSUME NEW s \in Sessions, SessionStreams(s)
       PROVE  Bounded'
  <2>1. PICK r \in {None, turn[s].request} \cup Ended(s) : EmitOf(s, r, UpdateEvent)
    BY <1>10 DEF SessionStreams
  <2>2. r \in Names /\ UpdateEvent \in Items
    BY DEF Ended, Typed, SessionTyped, CallTyped, Names, Items
  <2>3. Typed' /\ UNCHANGED <<conv, session, fwd>> /\ updates' = [updates EXCEPT ![s] = @ + 1]
    BY <1>10, TypeKept DEF SessionStreams
  <2>4. \A u \in Sessions : Waiting(u)' = Waiting(u) + (IF u = s THEN 1 ELSE 0)
    BY <2>1, <2>2, <2>3, WaitingEmit
  <2>5. \A u \in Sessions : updates'[u] = updates[u] + (IF u = s THEN 1 ELSE 0)
    BY <2>3, PoolConstants DEF PoolConstants, Typed, SessionTyped
  <2>6. \A u \in Sessions : updates[u] \in Nat
    BY PoolConstants DEF PoolConstants, Typed, SessionTyped
  <2>7. QED
    BY <2>3, <2>4, <2>5, <2>6, WaitingCounted, BoundedStays
<1>11. ASSUME NEW s \in Sessions, NEW e \in {CompletedEvent, ErrorEvent}, SessionFinishes(s, e)
       PROVE  Bounded'
  <2>1. turn[s].request \in Names /\ e \in Items /\ e # UpdateEvent
    BY DEF Typed, SessionTyped, Items, CompletedEvent, ErrorEvent, UpdateEvent, Plain
  <2>2. Typed' /\ UNCHANGED <<conv, session, fwd, updates>> /\ EmitOf(s, turn[s].request, e)
    BY <1>11, TypeKept DEF SessionFinishes, Emit
  <2>3. \A u \in Sessions : Waiting(u)' = Waiting(u)
    BY <2>1, <2>2, WaitingEmit, WaitingCounted
  <2>4. \A u \in Sessions : updates[u] \in Nat
    BY PoolConstants DEF PoolConstants, Typed, SessionTyped
  <2>5. QED
    BY <2>2, <2>3, <2>4, WaitingCounted, BoundedStays
<1>12. ASSUME NEW s \in Sessions, SessionFrees(s)
       PROVE  Bounded'
  <2>1. Typed' /\ UNCHANGED <<conv, updates, events, fwd>>
    BY <1>12, TypeKept DEF SessionFrees
  <2>2. \A u \in Sessions : Waiting(u)' = Waiting(u) /\ updates'[u] = updates[u]
    BY <2>1 DEF Waiting, Unforwarded, Unrouted
  <2>3. \A u \in Sessions : updates[u] \in Nat
    BY PoolConstants DEF PoolConstants, Typed, SessionTyped
  <2>4. \A k \in Keys : session'[k] \in {0, session[k]}
    BY <1>12 DEF SessionFrees
  <2>5. QED
    BY <2>1, <2>2, <2>3, <2>4, WaitingCounted, BoundedStays
<1>13. ASSUME NEW s \in Sessions, SessionCloses(s)
       PROVE  Bounded'
  <2>1. /\ {None, turn[s].request} \cup Ended(s) \subseteq Names
        /\ ErrorEvent \in Items /\ ErrorEvent # UpdateEvent
    BY DEF Ended, Typed, CallTyped, SessionTyped, Items, ErrorEvent, UpdateEvent, Plain, Names
  <2>2. /\ Typed' /\ UNCHANGED <<conv, session, fwd, updates>>
        /\ UNCHANGED events \/ \E r \in Names : EmitOf(s, r, ErrorEvent)
    BY <1>13, <2>1, TypeKept DEF SessionCloses
  <2>3. UNCHANGED events => \A u \in Sessions : Waiting(u)' = Waiting(u)
    BY <2>2 DEF Waiting, Unforwarded, Unrouted
  <2>4. ASSUME NEW r \in Names, EmitOf(s, r, ErrorEvent)
        PROVE  \A u \in Sessions : Waiting(u)' = Waiting(u)
    BY <2>1, <2>2, <2>4, WaitingEmit, WaitingCounted
  <2>5. \A u \in Sessions : updates[u] \in Nat
    BY PoolConstants DEF PoolConstants, Typed, SessionTyped
  <2>6. QED
    BY <2>2, <2>3, <2>4, <2>5, WaitingCounted, BoundedStays
<1>14. ASSUME NEW s \in Sessions, Forward(s)
       PROVE  Bounded'
  <2>1. Typed' /\ UNCHANGED <<conv, session, updates>>
    BY <1>14, TypeKept DEF Forward
  <2>2. \A u \in Sessions : Waiting(u)' = Waiting(u)
    BY <1>14, WaitingForward
  <2>3. \A u \in Sessions : updates[u] \in Nat
    BY PoolConstants DEF PoolConstants, Typed, SessionTyped
  <2>4. QED
    BY <2>1, <2>2, <2>3, WaitingCounted, BoundedStays
<1>15. ASSUME RouteNowhere
       PROVE  Bounded'
  <2>1. /\ Typed' /\ UNCHANGED <<conv, session, updates, events>>
        /\ fwd # <<>> /\ fwd' = Tail(fwd)
    BY <1>15, TypeKept DEF RouteNowhere
  <2>2. \A u \in Sessions : Waiting(u)' \in Nat /\ Waiting(u)' <= Waiting(u)
    BY <2>1, WaitingRoute
  <2>3. \A u \in Sessions : updates[u] \in Nat
    BY PoolConstants DEF PoolConstants, Typed, SessionTyped
  <2>4. QED
    BY <2>1, <2>2, <2>3, WaitingCounted, BoundedStays
<1>16. ASSUME NEW k \in Keys, RouteEnd(k)
       PROVE  Bounded'
  <2>1. /\ Typed' /\ UNCHANGED <<conv, session, updates, events>>
        /\ fwd # <<>> /\ fwd' = Tail(fwd)
    BY <1>16, TypeKept DEF RouteEnd, Routed
  <2>2. \A u \in Sessions : Waiting(u)' \in Nat /\ Waiting(u)' <= Waiting(u)
    BY <2>1, WaitingRoute
  <2>3. \A u \in Sessions : updates[u] \in Nat
    BY PoolConstants DEF PoolConstants, Typed, SessionTyped
  <2>4. QED
    BY <2>1, <2>2, <2>3, WaitingCounted, BoundedStays
<1>17. ASSUME NEW k \in Keys, RouteOutside(k)
       PROVE  Bounded'
  <2>1. /\ Typed' /\ UNCHANGED <<conv, session, updates, events>>
        /\ fwd # <<>> /\ fwd' = Tail(fwd)
    BY <1>17, TypeKept DEF RouteOutside, Routed
  <2>2. \A u \in Sessions : Waiting(u)' \in Nat /\ Waiting(u)' <= Waiting(u)
    BY <2>1, WaitingRoute
  <2>3. \A u \in Sessions : updates[u] \in Nat
    BY PoolConstants DEF PoolConstants, Typed, SessionTyped
  <2>4. QED
    BY <2>1, <2>2, <2>3, WaitingCounted, BoundedStays
<1>18. ASSUME NEW k \in Keys, RouteTurn(k)
       PROVE  Bounded'
  <2> DEFINE r == Head(fwd).request
             e == Head(fwd).event
             n == seqs[k][r] + 1
  <2>1. /\ fwd # <<>> /\ fwd' = Tail(fwd) /\ UNCHANGED <<session, updates, events>>
        /\ r \in Requests /\ e \in Items /\ n \in Nat
    BY <1>18, RoutedOfTurn
  <2>2. /\ session[k] \in Sessions /\ Head(fwd).from = session[k]
        /\ \A j \in Keys : j # k /\ session[j] # 0 => session[j] # session[k]
    BY <1>18, RoutedFromSession DEF RouteTurn
  <2>3. conv' = [conv EXCEPT ![k] = Apply(conv[k], Wire(k, r, n, e)).conv]
    BY <1>18 DEF RouteTurn
  <2> HIDE DEF r, e, n
  <2>4. /\ conv'[k] = Apply(conv[k], Wire(k, r, n, e)).conv
        /\ \A j \in Keys : j # k => conv'[j] = conv[j]
    BY <2>3 DEF Typed, SnapshotTyped
  <2>5. conv[k] \in Conversations(Keys)
    BY DEF Typed, SnapshotTyped
  <2>6. /\ \A q \in Requests : q # r => conv'[k].turns[q] = conv[k].turns[q]
        /\ conv'[k].turns[r].text \in Nat /\ conv[k].turns[r].text \in Nat
        /\ conv'[k].turns[r].text
             <= conv[k].turns[r].text + (IF e = UpdateEvent THEN 1 ELSE 0)
    BY <2>1, <2>4, <2>5, AppliedText
  <2>7. \A u \in Sessions :
          /\ Waiting(u)' \in Nat
          /\ Waiting(u) = Waiting(u)' +
               (IF u = session[k] /\ e = UpdateEvent THEN 1 ELSE 0)
    BY <2>1, <2>2, WaitingRoute DEF e
  <2>8. SUFFICES ASSUME NEW j \in Keys, NEW q \in Requests, NEW u \in Sessions,
                        session[j] = u
                 PROVE  conv'[j].turns[q].text + Waiting(u)' <= updates[u]
    BY <2>1 DEF Bounded
  <2>9. /\ conv[j].turns[q].text \in Nat /\ updates[u] \in Nat
        /\ conv[j].turns[q].text + Waiting(u) <= updates[u]
    <3>1. conv[j] \in Conversations(Keys)
      BY DEF Typed, SnapshotTyped
    <3>2. conv[j].turns[q].text \in Nat
      BY <3>1 DEF Conversations, Turn
    <3>3. updates[u] \in Nat
      BY PoolConstants DEF PoolConstants, Typed, SessionTyped
    <3>4. QED
      BY <2>8, <3>2, <3>3 DEF Bounded
  <2>10. CASE j = k /\ q = r
    BY <2>6, <2>7, <2>8, <2>9, <2>10
  <2>11. CASE j # k \/ q # r
    <3>1. conv'[j].turns[q] = conv[j].turns[q]
      BY <2>4, <2>6, <2>11
    <3>2. Waiting(u)' <= Waiting(u) /\ Waiting(u)' \in Nat /\ Waiting(u) \in Nat
      BY <2>7, WaitingCounted
    <3>3. QED
      BY <2>9, <3>1, <3>2
  <2>12. QED
    BY <2>10, <2>11
<1>19. QED
  BY <1>1, <1>2, <1>3, <1>4, <1>5, <1>6, <1>7, <1>8, <1>9, <1>10, <1>11,
     <1>12, <1>13, <1>14, <1>15, <1>16, <1>17, <1>18
  DEF Next, PromptStep, SessionNext, Route

\* A stuttering step keeps the texts.
LEMMA BoundedStands ==
  ASSUME Bounded, UNCHANGED vars
  PROVE  Bounded'
BY DEF Bounded, Waiting, Unforwarded, Unrouted, vars, entryVars, sessionVars, routeVars

--------------------------------------------------------------------------------
(* The snapshot follows the stream *)

\* No limit of the reducer is in the way: a turn for each request, its updates and
\* its end, each of size one.
Room ==
  /\ IsFiniteSet(Requests) /\ Cardinality(Requests) <= MaxTurns
  /\ MaxEventBytes >= 1 /\ MaxTurnBytes >= MaxUpdates + 1

\* What was sent of a turn has a terminal event in it.
Ends(k, r) == \E i \in Shown(k, r) : IsTerminalEvent(app[i].event)

\* The turn in the snapshot is what was sent of it, and the next event of a turn that
\* goes on will be numbered next.
InStep(k, r) ==
  LET t == conv[k].turns[r] IN
    /\ t.last_sequence = Cardinality(ShownInTurn(k, r))
    /\ IsTerminal(t) <=> Ends(k, r)
    /\ ~IsTerminal(t) => seqs[k][r] = t.last_sequence
    /\ t.tools = NewTurn.tools /\ t.permissions = {}

Following ==
  \A k \in Keys :
    session[k] # 0 => conv[k].id = k /\ \A r \in Requests : InStep(k, r)

\* What was sent is a finite set of places.
LEMMA ShownFinite ==
  ASSUME Typed, NEW k \in Keys, NEW r \in Requests
  PROVE  /\ IsFiniteSet(Shown(k, r)) /\ IsFiniteSet(ShownInTurn(k, r))
         /\ Cardinality(ShownInTurn(k, r)) \in Nat
<1>1. IsFiniteSet(1..Len(app)) /\ Shown(k, r) \in SUBSET (1..Len(app))
  BY FS_Interval, QueueTyped DEF Shown, Typed, RouteTyped
<1>2. ShownInTurn(k, r) \in SUBSET Shown(k, r)
  BY DEF ShownInTurn
<1>3. QED
  BY <1>1, <1>2, FS_Subset, FS_CardinalityType

\* A message that is sent adds to what was shown of its own turn only, and to what was
\* shown in the turn only before the terminal event.
LEMMA ShownGrows ==
  ASSUME Typed, NEW m \in Messages, app' = Append(app, m), UNCHANGED session,
         NEW k \in Keys, NEW r \in Requests
  PROVE  /\ m.from # session[k] \/ m.request # r =>
              UNCHANGED <<ShownInTurn(k, r), Ends(k, r)>>
         /\ m.from = session[k] /\ m.request = r /\ Ends(k, r) =>
              /\ UNCHANGED ShownInTurn(k, r) /\ Ends(k, r)'
         /\ m.from = session[k] /\ m.request = r /\ ~Ends(k, r) =>
              /\ Cardinality(ShownInTurn(k, r)') = Cardinality(ShownInTurn(k, r)) + 1
              /\ Ends(k, r)' <=> IsTerminalEvent(m.event)
<1> DEFINE l == Len(app) + 1
<1>1. /\ Len(app) \in Nat /\ Len(app') = l /\ app'[l] = m
      /\ \A i \in 1..Len(app) : app'[i] = app[i]
  BY QueueTyped DEF Typed, RouteTyped
<1>2. Shown(k, r) \subseteq 1..Len(app)
  BY DEF Shown
<1>3. \A i \in Shown(k, r) : app'[i] = app[i] /\ i \in Nat /\ i < l /\ ~(l < i)
  BY <1>1, <1>2
<1>4. CASE m.from # session[k] \/ m.request # r
  <2>1. Shown(k, r)' = Shown(k, r)
    BY <1>1, <1>4 DEF Shown
  <2>2. QED
    BY <1>3, <1>4, <2>1 DEF ShownInTurn, Ends
<1>5. CASE m.from = session[k] /\ m.request = r
  <2>1. Shown(k, r)' = Shown(k, r) \cup {l}
    BY <1>1, <1>5 DEF Shown
  <2>2. ASSUME Ends(k, r)
        PROVE  UNCHANGED ShownInTurn(k, r) /\ Ends(k, r)'
    BY <1>1, <1>3, <2>1, <2>2 DEF ShownInTurn, Ends
  <2>3. ASSUME ~Ends(k, r)
        PROVE  /\ ShownInTurn(k, r) = Shown(k, r)
               /\ ShownInTurn(k, r)' = Shown(k, r) \cup {l} /\ l \notin Shown(k, r)
               /\ Ends(k, r)' <=> IsTerminalEvent(m.event)
    <3>1. \A i \in Shown(k, r) : ~IsTerminalEvent(app[i].event)
      BY <2>3 DEF Ends
    <3>2. ShownInTurn(k, r) = Shown(k, r) /\ l \notin Shown(k, r)
      BY <1>3, <3>1 DEF ShownInTurn
    <3>3. \A i, j \in Shown(k, r) \cup {l} : j < i => ~IsTerminalEvent(app'[j].event)
      <4>1. \A i \in Shown(k, r) \cup {l} : ~(l < i)
        BY <1>1, <1>3
      <4>2. \A j \in Shown(k, r) : ~IsTerminalEvent(app'[j].event)
        BY <1>3, <3>1
      <4>3. QED
        BY <4>1, <4>2
    <3>4. ShownInTurn(k, r)' = Shown(k, r) \cup {l}
      BY <2>1, <3>3 DEF ShownInTurn
    <3>5. Ends(k, r)' <=> IsTerminalEvent(m.event)
      BY <1>1, <1>3, <2>1, <3>1 DEF Ends
    <3>6. QED
      BY <3>2, <3>4, <3>5
  <2>4. QED
    BY <1>5, <2>2, <2>3, ShownFinite, FS_AddElement
<1>6. QED
  BY <1>4, <1>5

\* A turn that is over takes nothing more.
LEMMA OverTurnStays ==
  ASSUME NEW snapshot \in Conversations(Keys), NEW k \in Keys, NEW r \in Requests,
         NEW n \in Nat, NEW e \in Items, IsTerminal(snapshot.turns[r])
  PROVE  Apply(snapshot, Wire(k, r, n, e)).conv = snapshot
<1>1. Verdict(snapshot, Wire(k, r, n, e)) # "applied"
  BY DEF Verdict, Wire
<1>2. QED
  BY <1>1 DEF Apply

\* A turn that goes on takes the next event: no early return of apply is in the way.
LEMMA NextIsApplied ==
  ASSUME Room, NEW snapshot \in Conversations(Keys), NEW k \in Keys, NEW r \in Requests,
         NEW n \in Nat, NEW e \in Items,
         snapshot.id = k, ~IsTerminal(snapshot.turns[r]),
         n = snapshot.turns[r].last_sequence + 1,
         snapshot.turns[r].tools = NewTurn.tools, snapshot.turns[r].permissions = {},
         snapshot.turns[r].text + (IF e = UpdateEvent THEN 1 ELSE 0) <= MaxUpdates
  PROVE  Apply(snapshot, Wire(k, r, n, e)).conv.turns[r] =
           Candidate(snapshot, Wire(k, r, n, e))
<1> DEFINE w == Wire(k, r, n, e)
           t == snapshot.turns[r]
           u == Candidate(snapshot, w)
<1>1. /\ w.version = WireVersion /\ w.conversation_id = k /\ w.request_id = r
      /\ w.sequence = n /\ w.event = e
  BY DEF Wire
<1>2. t \in Turn /\ t.last_sequence \in Nat /\ t.text \in Nat
  BY DEF Conversations, Turn
<1>3. /\ ApplyEvent(t, e) \in Turn
      /\ ApplyEvent(t, e).text = t.text + (IF e = UpdateEvent THEN 1 ELSE 0)
      /\ ApplyEvent(t, e).tools = t.tools /\ ApplyEvent(t, e).permissions = {}
      /\ IsTerminal(ApplyEvent(t, e)) <=> IsTerminalEvent(e)
  BY <1>2, EventOfSession
<1>4. /\ u.text = t.text + (IF e = UpdateEvent THEN 1 ELSE 0)
      /\ u.tools = t.tools /\ u.permissions = {}
      /\ u.stop_reason = ApplyEvent(t, e).stop_reason /\ u.error = ApplyEvent(t, e).error
  BY <1>1, <1>3 DEF Candidate, Turn
<1>5. TurnBytes(u) = u.text + (IF IsTerminal(u) THEN 1 ELSE 0)
  <2>1. \A x \in Tools : u.tools[x] = None
    BY <1>4 DEF NewTurn
  <2>2. {x \in Tools : u.tools[x] # None} = {}
    BY <2>1
  <2>3. TurnBytes(u) = u.text + Cardinality({}) + Cardinality({})
                         + (IF IsTerminal(u) THEN 1 ELSE 0)
    BY <1>4, <2>2 DEF TurnBytes
  <2>4. QED
    BY <1>2, <1>4, <2>3, FS_EmptySet
<1>6. e.size = 1
  BY DEF Items, UpdateEvent, CompletedEvent, ErrorEvent, Plain
<1>7. r \notin Known(snapshot) => Cardinality(Known(snapshot)) < MaxTurns
  <2>1. SUFFICES ASSUME r \notin Known(snapshot)
                 PROVE  Cardinality(Known(snapshot)) < MaxTurns
    OBVIOUS
  <2>2. Known(snapshot) \in SUBSET (Requests \ {r})
    BY <2>1 DEF Known
  <2>3. /\ IsFiniteSet(Requests \ {r})
        /\ Cardinality(Requests \ {r}) = Cardinality(Requests) - 1
        /\ Cardinality(Requests) \in Nat
    BY FS_RemoveElement, FS_CardinalityType DEF Room
  <2>4. /\ Cardinality(Known(snapshot)) <= Cardinality(Requests \ {r})
        /\ Cardinality(Known(snapshot)) \in Nat
    BY <2>2, <2>3, FS_Subset, FS_CardinalityType
  <2>5. QED
    BY <2>3, <2>4, LimitsAreNaturals DEF Room
<1>8. k # None /\ r # None /\ n # 0 /\ ~(n <= t.last_sequence)
  BY <1>2, PoolConstants, NoneIsNoName DEF PoolConstants
<1>9. ~(1 > MaxEventBytes) /\ ~(TurnBytes(u) > MaxTurnBytes)
      /\ ~(r \notin Known(snapshot) /\ Cardinality(Known(snapshot)) >= MaxTurns)
  <2>1. /\ ~(1 > MaxEventBytes)
        /\ ~(r \notin Known(snapshot) /\ Cardinality(Known(snapshot)) >= MaxTurns)
    <3>1. IsFiniteSet(Requests)
      BY DEF Room
    <3>2. Known(snapshot) \in SUBSET Requests
      BY DEF Known
    <3>3. Cardinality(Known(snapshot)) \in Nat
      BY <3>1, <3>2, FS_Subset, FS_CardinalityType
    <3>4. QED
      BY <1>7, <3>3, LimitsAreNaturals DEF Room
  <2>2. QED
    BY <1>2, <1>4, <1>5, <2>1, PoolConstants, LimitsAreNaturals DEF PoolConstants, Room
<1>10. Verdict(snapshot, w) = "applied"
  BY <1>1, <1>6, <1>8, <1>9 DEF Verdict, Follows
<1>11. \E c : Apply(snapshot, w).conv =
                [snapshot EXCEPT !.turns[r] = u, !.configuration = c]
  BY <1>1, <1>10 DEF Apply
<1> HIDE DEF u
<1>12. QED
  BY <1>11 DEF u, Conversations

\* An update at the front of the channel waits.
LEMMA WaitingAtFront ==
  ASSUME Typed, NEW s \in Sessions, fwd # <<>>, Head(fwd).from = s,
         Head(fwd).event = UpdateEvent
  PROVE  Waiting(s) >= 1
<1> DEFINE U == {m \in Messages : m.from = s /\ m.event = UpdateEvent}
<1>1. fwd \in Seq(Messages) /\ Head(fwd) \in U /\ Tail(fwd) \in Seq(Messages)
  BY QueueTyped DEF Typed, RouteTyped
<1> HIDE DEF U
<1>2. Cardinality(Places(fwd, U)) = Cardinality(Places(Tail(fwd), U)) + 1
  BY <1>1, PlacesTail
<1>3. Cardinality(Places(Tail(fwd), U)) \in Nat
  BY <1>1, PlacesFinite
<1>4. Unrouted(s) = Cardinality(Places(fwd, U))
  BY DEF Unrouted, U
<1>5. QED
  BY <1>2, <1>3, <1>4, WaitingCounted DEF Waiting

\* Nothing was sent when the application connects.
LEMMA FollowingStart ==
  ASSUME Init
  PROVE  Following
BY DEF Init, Following

\* A turn of which nothing is applied, numbered or sent stays in step.
LEMMA InStepStays ==
  ASSUME NEW k \in Keys, NEW r \in Requests, InStep(k, r),
         conv'[k].turns[r] = conv[k].turns[r], seqs'[k][r] = seqs[k][r],
         UNCHANGED <<ShownInTurn(k, r), Ends(k, r)>>
  PROVE  InStep(k, r)'
BY DEF InStep

\* A step that applies and sends nothing, and removes entries at most.
LEMMA FollowingStays ==
  ASSUME Following, UNCHANGED <<conv, seqs, app>>,
         \A k \in Keys : session'[k] \in {0, session[k]}
  PROVE  Following'
<1>1. SUFFICES ASSUME NEW k \in Keys, session'[k] # 0
               PROVE  conv[k].id = k /\ \A r \in Requests : InStep(k, r)'
  BY DEF Following
<1>2. session'[k] = session[k] /\ session[k] # 0
  BY <1>1
<1>3. conv[k].id = k /\ \A r \in Requests : InStep(k, r)
  BY <1>2 DEF Following
<1>4. \A r \in Requests : UNCHANGED <<ShownInTurn(k, r), Ends(k, r)>>
  BY <1>2 DEF ShownInTurn, Ends, Shown
<1>5. QED
  BY <1>3, <1>4, InStepStays

\* A step that sends something of no turn.
LEMMA FollowingSent ==
  ASSUME Typed, Following, UNCHANGED <<conv, seqs, session>>,
         NEW m \in Messages, m.request = None, app' = Append(app, m)
  PROVE  Following'
<1>1. SUFFICES ASSUME NEW k \in Keys, session[k] # 0
               PROVE  conv[k].id = k /\ \A r \in Requests : InStep(k, r)'
  BY DEF Following
<1>2. conv[k].id = k /\ \A r \in Requests : InStep(k, r)
  BY <1>1 DEF Following
<1>3. \A r \in Requests : UNCHANGED <<ShownInTurn(k, r), Ends(k, r)>>
  BY ShownGrows, NoneIsNoName
<1>4. QED
  BY <1>2, <1>3, InStepStays

\* A new entry begins with nothing sent.
LEMMA FollowingNew ==
  ASSUME Typed, Owned, Following, NEW c \in Calls, PromptNew(c)
  PROVE  Following'
<1>1. KeyOf[c] \in Keys
  BY PoolConstants DEF PoolConstants
<1>2. PICK s \in Sessions :
        /\ owner[s] = None
        /\ session' = [session EXCEPT ![KeyOf[c]] = s]
        /\ conv' = [conv EXCEPT ![KeyOf[c]] = NewConversation(KeyOf[c])]
        /\ seqs' = [seqs EXCEPT ![KeyOf[c]] = Unused]
  BY DEF PromptNew
<1>3. UNCHANGED app
  BY DEF PromptNew, routeVars
<1>4. SUFFICES ASSUME NEW k \in Keys, session'[k] # 0
               PROVE  conv'[k].id = k /\ \A r \in Requests : InStep(k, r)'
  BY DEF Following
<1>5. CASE k = KeyOf[c]
  <2>1. /\ session'[k] = s /\ conv'[k] = NewConversation(k) /\ seqs'[k] = Unused
    BY <1>1, <1>2, <1>5 DEF Typed, EntryTyped, SnapshotTyped
  <2>2. ASSUME NEW i \in 1..Len(app)
        PROVE  app[i].from # s
    <3>1. app[i] \in Messages
      BY QueueTyped DEF Typed, RouteTyped
    <3>2. app[i].key \in Keys
      BY <3>1 DEF Messages
    <3>3. QED
      BY <1>2, <3>2, PoolConstants DEF PoolConstants, Owned, MessagesOwned
  <2>3. ASSUME NEW r \in Requests
        PROVE  InStep(k, r)'
    <3>1. Shown(k, r)' = {}
      BY <1>3, <2>1, <2>2 DEF Shown
    <3>2. ShownInTurn(k, r)' = {} /\ ~Ends(k, r)'
      BY <3>1 DEF ShownInTurn, Ends
    <3>3. conv'[k].turns[r] = NewTurn /\ seqs'[k][r] = 0
      BY <2>1 DEF NewConversation, Unused
    <3>4. /\ NewTurn.last_sequence = 0 /\ ~IsTerminal(NewTurn) /\ NewTurn.permissions = {}
      BY DEF NewTurn, IsTerminal
    <3>5. QED
      BY <3>2, <3>3, <3>4, FS_EmptySet DEF InStep
  <2>4. conv'[k].id = k
    BY <2>1 DEF NewConversation
  <2>5. QED
    BY <2>3, <2>4
<1>6. CASE k # KeyOf[c]
  <2>1. session'[k] = session[k] /\ conv'[k] = conv[k] /\ seqs'[k] = seqs[k]
    BY <1>2, <1>6 DEF Typed, EntryTyped, SnapshotTyped
  <2>2. \A r \in Requests : UNCHANGED <<ShownInTurn(k, r), Ends(k, r)>>
    BY <1>3, <2>1 DEF ShownInTurn, Ends, Shown
  <2>3. conv[k].id = k /\ \A r \in Requests : InStep(k, r)
    BY <1>4, <2>1 DEF Following
  <2>4. QED
    BY <2>1, <2>2, <2>3, InStepStays
<1>7. QED
  BY <1>5, <1>6

\* The event of a turn: it is the next of the key's session, so the reducer takes it,
\* unless the turn is over.
LEMMA FollowingTurn ==
  ASSUME Typed, Owned, Single, Bounded, Following, Room,
         NEW k \in Keys, RouteTurn(k)
  PROVE  Following'
<1>1. PICK m \in Messages, r \in Requests, e \in Items, n \in Nat :
        /\ m = Head(fwd) /\ r = m.request /\ e = m.event /\ n = seqs[k][r] + 1
        /\ fwd # <<>> /\ app' = Append(app, m) /\ UNCHANGED session
  BY RoutedOfTurn
<1> DEFINE t == conv[k].turns[r]
<1>2. /\ session[k] \in Sessions /\ session[k] # 0 /\ m.from = session[k]
      /\ \A j \in Keys : j # k /\ session[j] # 0 => session[j] # session[k]
  BY <1>1, RoutedFromSession DEF RouteTurn, Routed
<1>3. /\ conv' = [conv EXCEPT ![k] = Apply(conv[k], Wire(k, r, n, e)).conv]
      /\ seqs' = [seqs EXCEPT ![k] =
                    [seqs[k] EXCEPT ![r] = IF IsTerminalEvent(e) THEN 0 ELSE n]]
  BY <1>1 DEF RouteTurn
<1>4. conv[k] \in Conversations(Keys) /\ t \in Turn
  BY <1>1 DEF Typed, SnapshotTyped, Conversations
<1>5. conv[k].id = k /\ \A q \in Requests : InStep(k, q)
  BY <1>2 DEF Following
<1> HIDE DEF t
<1>6. /\ conv'[k] = Apply(conv[k], Wire(k, r, n, e)).conv
      /\ seqs'[k][r] = IF IsTerminalEvent(e) THEN 0 ELSE n
      /\ \A q \in Requests : q # r => seqs'[k][q] = seqs[k][q]
      /\ \A j \in Keys : j # k => conv'[j] = conv[j] /\ seqs'[j] = seqs[j]
  BY <1>1, <1>3 DEF Typed, SnapshotTyped
<1>7. /\ \A j \in Keys : session[j] # 0 => conv'[j].id = j
      /\ \A q \in Requests : q # r => conv'[k].turns[q] = conv[k].turns[q]
  <2>1. conv'[k].id = k
    BY <1>4, <1>5, <1>6, ApplyTyped
  <2>2. \A q \in Requests : q # r => conv'[k].turns[q] = conv[k].turns[q]
    BY <1>4, <1>6, AppliedText
  <2>3. QED
    BY <1>6, <2>1, <2>2 DEF Following
<1>8. ASSUME NEW j \in Keys, NEW q \in Requests, session[j] # 0, j # k \/ q # r
      PROVE  InStep(j, q)'
  <2>1. InStep(j, q)
    BY <1>8 DEF Following
  <2>2. m.from # session[j] \/ m.request # q
    BY <1>1, <1>2, <1>8
  <2>3. UNCHANGED <<ShownInTurn(j, q), Ends(j, q)>>
    BY <1>1, <2>2, ShownGrows
  <2>4. conv'[j].turns[q] = conv[j].turns[q] /\ seqs'[j][q] = seqs[j][q]
    BY <1>6, <1>7, <1>8
  <2>5. QED
    BY <2>1, <2>3, <2>4, InStepStays
<1>9. InStep(k, r)
  BY <1>1, <1>5
<1>10. /\ t.last_sequence = Cardinality(ShownInTurn(k, r))
       /\ IsTerminal(t) <=> Ends(k, r)
       /\ ~IsTerminal(t) => seqs[k][r] = t.last_sequence
       /\ t.tools = NewTurn.tools /\ t.permissions = {}
  BY <1>9 DEF InStep, t
<1>11. m.from = session[k] /\ m.request = r /\ m.event = e
  BY <1>1, <1>2
<1>12. CASE IsTerminal(t)
  <2>1. conv'[k].turns[r] = t
    <3>1. IsTerminal(conv[k].turns[r])
      BY <1>12 DEF t
    <3>2. Apply(conv[k], Wire(k, r, n, e)).conv = conv[k]
      BY ONLY <1>4, <3>1, k \in Keys, r \in Requests, n \in Nat, e \in Items, OverTurnStays
    <3>3. QED
      BY <1>6, <3>2 DEF t
  <2>2. UNCHANGED ShownInTurn(k, r) /\ Ends(k, r)'
    BY <1>1, <1>10, <1>11, <1>12, ShownGrows
  <2>3. InStep(k, r)'
    BY <1>10, <1>12, <2>1, <2>2 DEF InStep
  <2>4. QED
    BY <1>1, <1>7, <1>8, <2>3 DEF Following
<1>13. CASE ~IsTerminal(t)
  <2>1. n = t.last_sequence + 1
    BY <1>1, <1>10, <1>13
  <2>2. t.text + (IF e = UpdateEvent THEN 1 ELSE 0) <= MaxUpdates
    <3>1. t.text + Waiting(session[k]) <= updates[session[k]]
      BY <1>1, <1>2 DEF Bounded, t
    <3>2. e = UpdateEvent => Waiting(session[k]) >= 1
      BY <1>1, <1>2, <1>11, WaitingAtFront
    <3>3. updates[session[k]] <= MaxUpdates /\ updates[session[k]] \in Nat
      BY <1>2, PoolConstants DEF PoolConstants, Typed, SessionTyped
    <3>4. t.text \in Nat /\ Waiting(session[k]) \in Nat /\ MaxUpdates \in Nat
      BY <1>2, <1>4, WaitingCounted, PoolConstants DEF PoolConstants, Turn
    <3>5. QED
      BY <3>1, <3>2, <3>3, <3>4
  <2>3. conv'[k].turns[r] = Candidate(conv[k], Wire(k, r, n, e))
    <3>1. /\ ~IsTerminal(conv[k].turns[r])
          /\ n = conv[k].turns[r].last_sequence + 1
          /\ conv[k].turns[r].tools = NewTurn.tools /\ conv[k].turns[r].permissions = {}
          /\ conv[k].turns[r].text + (IF e = UpdateEvent THEN 1 ELSE 0) <= MaxUpdates
      BY <1>10, <1>13, <2>1, <2>2 DEF t
    <3>2. conv[k].id = k
      BY <1>5
    <3>3. Apply(conv[k], Wire(k, r, n, e)).conv.turns[r] =
            Candidate(conv[k], Wire(k, r, n, e))
      BY ONLY <1>4, <3>1, <3>2, Room, k \in Keys, r \in Requests, n \in Nat, e \in Items,
              NextIsApplied
    <3>4. QED
      BY <1>6, <3>3
  <2>4. /\ ApplyEvent(t, e) \in Turn /\ ApplyEvent(t, e).tools = t.tools
        /\ ApplyEvent(t, e).permissions = {}
        /\ IsTerminal(ApplyEvent(t, e)) <=> IsTerminalEvent(e)
    BY <1>1, <1>4, <1>10, <1>13, EventOfSession
  <2>5. conv'[k].turns[r] = [ApplyEvent(t, e) EXCEPT !.last_sequence = n]
    BY <2>3 DEF Candidate, Wire, t
  <2>6. /\ conv'[k].turns[r].last_sequence = n
        /\ IsTerminal(conv'[k].turns[r]) <=> IsTerminalEvent(e)
        /\ conv'[k].turns[r].tools = NewTurn.tools
        /\ conv'[k].turns[r].permissions = {}
    <3>1. /\ conv'[k].turns[r].last_sequence = n
          /\ conv'[k].turns[r].tools = ApplyEvent(t, e).tools
          /\ conv'[k].turns[r].permissions = ApplyEvent(t, e).permissions
          /\ conv'[k].turns[r].stop_reason = ApplyEvent(t, e).stop_reason
          /\ conv'[k].turns[r].error = ApplyEvent(t, e).error
      BY <2>4, <2>5 DEF Turn
    <3>2. IsTerminal(conv'[k].turns[r]) <=> IsTerminal(ApplyEvent(t, e))
      BY <3>1 DEF IsTerminal
    <3>3. QED
      BY <1>10, <2>4, <3>1, <3>2
  <2>7. /\ Cardinality(ShownInTurn(k, r)') = Cardinality(ShownInTurn(k, r)) + 1
        /\ Ends(k, r)' <=> IsTerminalEvent(e)
    BY <1>1, <1>10, <1>11, <1>13, ShownGrows
  <2>8. InStep(k, r)'
    BY <1>6, <1>10, <2>1, <2>6, <2>7 DEF InStep
  <2>9. QED
    BY <1>1, <1>7, <1>8, <2>8 DEF Following
<1>14. QED
  BY <1>12, <1>13

\* Each step keeps snapshot and stream in step.
LEMMA FollowingKept ==
  ASSUME Typed, Owned, Single, Bounded, Following, Room, Next
  PROVE  Following'
<1> USE DEF entryVars, sessionVars, routeVars, callVars, sessionFrame
<1>1. ASSUME NEW c \in Calls, PromptKnown(c)
      PROVE  Following'
  BY <1>1, FollowingStays DEF PromptKnown
<1>2. ASSUME NEW c \in Calls, PromptNew(c)
      PROVE  Following'
  BY <1>2, FollowingNew DEF PromptNew
<1>3. ASSUME NEW c \in Calls, PromptFails(c)
      PROVE  Following'
  BY <1>3, FollowingStays DEF PromptFails
<1>4. ASSUME NEW c \in Calls, PromptSubmit(c)
      PROVE  Following'
  BY <1>4, FollowingStays DEF PromptSubmit
<1>5. ASSUME NEW c \in Calls, PromptReturns(c)
      PROVE  Following'
  BY <1>5, FollowingStays DEF PromptReturns
<1>6. ASSUME NEW c \in Calls, PromptRelease(c)
      PROVE  Following'
  BY <1>6, FollowingStays DEF PromptRelease
<1>7. ASSUME NEW c \in Calls, PromptDrop(c)
      PROVE  Following'
  BY <1>7, FollowingStays DEF PromptDrop
<1>8. ASSUME NEW k \in Keys, CloseKey(k)
      PROVE  Following'
  BY <1>8, FollowingStays DEF CloseKey, RemoveEntries
<1>9. ASSUME Shutdown
      PROVE  Following'
  BY <1>9, FollowingStays DEF Shutdown, RemoveEntries
<1>10. ASSUME NEW s \in Sessions, SessionStreams(s)
       PROVE  Following'
  BY <1>10, FollowingStays DEF SessionStreams
<1>11. ASSUME NEW s \in Sessions, NEW e \in {CompletedEvent, ErrorEvent}, SessionFinishes(s, e)
       PROVE  Following'
  BY <1>11, FollowingStays DEF SessionFinishes
<1>12. ASSUME NEW s \in Sessions, SessionFrees(s)
       PROVE  Following'
  BY <1>12, FollowingStays DEF SessionFrees
<1>13. ASSUME NEW s \in Sessions, SessionCloses(s)
       PROVE  Following'
  BY <1>13, FollowingStays DEF SessionCloses
<1>14. ASSUME NEW s \in Sessions, Forward(s)
       PROVE  Following'
  BY <1>14, FollowingStays DEF Forward
<1>15. ASSUME RouteNowhere
       PROVE  Following'
  BY <1>15, FollowingStays DEF RouteNowhere
<1>16. ASSUME NEW k \in Keys, RouteEnd(k)
       PROVE  Following'
  <2>1. Head(fwd) \in Messages /\ Head(fwd) = fwd[1] /\ 1 \in 1..Len(fwd)
    BY <1>16, QueueTyped DEF RouteEnd, Routed, Typed, RouteTyped
  <2>2. Head(fwd).request = None
    BY <1>16, <2>1 DEF RouteEnd, Typed, RouteTyped
  <2>3. QED
    BY <1>16, <2>1, <2>2, FollowingSent DEF RouteEnd, Routed
<1>17. ASSUME NEW k \in Keys, RouteOutside(k)
       PROVE  Following'
  <2>1. Head(fwd) \in Messages /\ fwd # <<>>
    BY <1>17, QueueTyped DEF RouteOutside, Routed, Typed, RouteTyped
  <2>2. QED
    BY <1>17, <2>1, FollowingSent DEF RouteOutside, Routed
<1>18. ASSUME NEW k \in Keys, RouteTurn(k)
       PROVE  Following'
  BY <1>18, FollowingTurn DEF RouteTurn
<1>19. QED
  BY <1>1, <1>2, <1>3, <1>4, <1>5, <1>6, <1>7, <1>8, <1>9, <1>10, <1>11,
     <1>12, <1>13, <1>14, <1>15, <1>16, <1>17, <1>18
  DEF Next, PromptStep, SessionNext, Route

\* A stuttering step keeps them in step.
LEMMA FollowingStands ==
  ASSUME Following, UNCHANGED vars
  PROVE  Following'
BY FollowingStays DEF vars, entryVars, routeVars

\* "Every streamed event is already applied to its key's snapshot before it is
\* re-emitted tagged" (pool.rs:15): proved for every number of keys, calls, sessions and
\* updates, where no key is prompted again after a close and no limit of the reducer
\* is reached. Both are needed: PoolRecreate shows what a second session of a key does,
\* and the router re-emits what apply refused.
THEOREM SnapshotsFollow ==
  ASSUME ~Recreate, Room
  PROVE  Spec => []SnapshotFollowsStream
<1>1. Spec => [](Typed /\ Owned /\ Single)
  BY PoolOwned, PoolSingle, PTL
<1>2. Init => Bounded /\ Following
  BY BoundedStart, FollowingStart
<1>3. Typed /\ Owned /\ Single /\ Bounded /\ [Next]_vars => Bounded'
  BY BoundedKept, BoundedStands
<1>4. Typed /\ Owned /\ Single /\ Bounded /\ Following /\ [Next]_vars => Following'
  BY FollowingKept, FollowingStands
<1>5. Following => SnapshotFollowsStream
  BY DEF Following, InStep, SnapshotFollowsStream
<1>6. QED
  BY <1>1, <1>2, <1>3, <1>4, <1>5, PTL DEF Spec

================================================================================
