----------------------------- MODULE SessionProofs -----------------------------
(***************************************************************************)
(* What Session promises, proved for every set of calls, every capacity,   *)
(* every number of messages and every set of faults.                       *)
(***************************************************************************)
EXTENDS Session, TLAPS

--------------------------------------------------------------------------------
(* Types, variable group by variable group *)

Items    == [request : Turns, of : Turns, id : 0..MaxMessages,
             kind : {"update", "permission", "config", "error"} \cup Reasons]
Messages == [kind : {"update", "permission"}, id : Ids]
Answers  == [prompt : Prompts, outcome : Outcomes]
Results  == Outcomes \cup {None, "ok", "busy", "dropped"}
Closing  == [stage : 0..4, error : Errors \cup {None}, stop : BOOLEAN,
             request : Turns]

TurnTyped ==
  /\ turn \in [reserved : Turns, current : Turns, cancelled : BOOLEAN]
  /\ activity \in BOOLEAN

LifeTyped ==
  /\ closed \in BOOLEAN /\ open \in BOOLEAN
  /\ failure \in Errors \cup {None}

StreamTyped ==
  /\ stream \in Seq(Items)
  /\ taken \in 0..Len(stream) /\ reading \in BOOLEAN

PermissionsTyped ==
  /\ permissions \subseteq Ids
  /\ answer \in [Ids -> {None, "granted", "cancelled"}]

\* The request on its way into the map is one the agent made; run_session fails with
\* an error.
WorkerTyped ==
  /\ worker \in [pc : WorkerPcs, active : Turns, outcome : Outcomes \cup {None},
                 ask : 0..MaxMessages]
  /\ worker.pc \in {"insert", "ask"} => worker.ask \in Ids
  /\ worker.pc = "failed" => worker.outcome \in Errors

QueuesTyped ==
  /\ commands \in Seq(Prompts)
  /\ inbox \in Seq(Messages)
  /\ completions \in Seq(Answers)

CallsTyped ==
  /\ pc \in [Callers -> CallPcs]
  /\ result \in [Callers -> Results]
  /\ about \in [Callers -> Turns]
  /\ oneshot \in [Prompts -> Outcomes \cup {None}]

ClosingTyped == closing \in [Procs -> Closing]

LinkTyped == down \in BOOLEAN /\ lost \in {None, "lost"}

AgentTyped ==
  /\ agent \in [prompt : Turns, cancelled : BOOLEAN]
  /\ sent \in 0..MaxMessages
  /\ owner \in [Ids -> Turns]

Typed ==
  /\ TurnTyped /\ LifeTyped /\ StreamTyped /\ PermissionsTyped /\ WorkerTyped
  /\ QueuesTyped /\ CallsTyped /\ ClosingTyped /\ LinkTyped /\ AgentTyped

\* The groups together are TypeOK.
LEMMA TypedIsTypeOK == Typed => TypeOK
BY DEF Typed, TurnTyped, LifeTyped, StreamTyped, PermissionsTyped, WorkerTyped,
       QueuesTyped, CallsTyped, ClosingTyped, LinkTyped, AgentTyped, TypeOK, Items,
       Messages, Answers, Results, Closing

\* A group that a step leaves alone keeps its type.
LEMMA GroupsStand ==
  ASSUME Typed
  PROVE  /\ UNCHANGED handleVars => TurnTyped'
         /\ UNCHANGED lifeVars => LifeTyped'
         /\ UNCHANGED outVars => StreamTyped'
         /\ UNCHANGED permVars => PermissionsTyped'
         /\ UNCHANGED worker => WorkerTyped'
         /\ UNCHANGED queueVars => QueuesTyped'
         /\ UNCHANGED callVars => CallsTyped'
         /\ UNCHANGED closing => ClosingTyped'
         /\ UNCHANGED connVars => LinkTyped'
         /\ UNCHANGED agentVars => AgentTyped'
<1> USE DEF Typed
<1>1. UNCHANGED handleVars => TurnTyped'
  BY DEF TurnTyped, handleVars
<1>2. UNCHANGED lifeVars => LifeTyped'
  BY DEF LifeTyped, lifeVars
<1>3. UNCHANGED outVars => StreamTyped'
  BY DEF StreamTyped, outVars
<1>4. UNCHANGED permVars => PermissionsTyped'
  BY DEF PermissionsTyped, permVars
<1>5. UNCHANGED worker => WorkerTyped'
  BY DEF WorkerTyped
<1>6. UNCHANGED queueVars => QueuesTyped'
  BY DEF QueuesTyped, queueVars
<1>7. UNCHANGED callVars => CallsTyped'
  BY DEF CallsTyped, callVars
<1>8. UNCHANGED closing => ClosingTyped'
  BY DEF ClosingTyped
<1>9. UNCHANGED connVars => LinkTyped'
  BY DEF LinkTyped, connVars
<1>10. UNCHANGED agentVars => AgentTyped'
  BY DEF AgentTyped, agentVars
<1>11. QED BY <1>1, <1>2, <1>3, <1>4, <1>5, <1>6, <1>7, <1>8, <1>9, <1>10

\* What taking from a queue and putting into one does to its type.
LEMMA QueueTyped ==
  ASSUME NEW S, NEW q \in Seq(S)
  PROVE  /\ <<>> \in Seq(S)
         /\ q # <<>> => Head(q) \in S /\ Tail(q) \in Seq(S)
         /\ \A e \in S : <<e>> \in Seq(S) /\ Append(q, e) \in Seq(S)
OBVIOUS

\* Who may call and who may close.
LEMMA Names ==
  /\ \A p \in Prompts : p \in Callers /\ p \in Procs
  /\ \A c \in Stoppers : c \in Callers /\ c \in Procs
  /\ \A c \in Configs : c \in Callers /\ c \in Procs
  /\ "lease" \in Callers /\ "lease" \in Procs /\ "worker" \in Procs
BY DEF Callers, Procs

\* What a closed session tells is an error.
LEMMA ErrorTyped == Typed => Error \in Errors
BY DEF Typed, LifeTyped, LinkTyped, Error, Errors, None

\* A call returns, goes on, begins to close; what is pending is denied; an event is
\* emitted: each keeps its types.
LEMMA ReturnTyped ==
  ASSUME Typed, NEW c \in Callers, NEW v \in Results, Return(c, v),
         UNCHANGED <<about, oneshot>>
  PROVE  CallsTyped'
BY DEF Typed, CallsTyped, Return, CallPcs

\* A process that moves to another step keeps the program counters' type.
LEMMA GotoTyped ==
  ASSUME Typed, NEW c \in Callers, NEW l \in CallPcs, Goto(c, l),
         about' \in [Callers -> Turns], UNCHANGED oneshot
  PROVE  CallsTyped'
BY DEF Typed, CallsTyped, Goto

\* A close that begins is typed.
LEMMA CloseTyped ==
  ASSUME Typed, NEW p \in Procs, NEW e \in Errors \cup {None}, NEW s \in BOOLEAN,
         Close(p, e, s)
  PROVE  ClosingTyped'
BY DEF Typed, ClosingTyped, Closing, Close, Turns, None

\* Denying the pending permissions keeps their type.
LEMMA DenyTyped ==
  ASSUME Typed, Deny
  PROVE  PermissionsTyped'
BY DEF Typed, PermissionsTyped, Deny

\* An emitted event keeps the stream and its sender typed.
LEMMA EmitTyped ==
  ASSUME Typed, NEW p \in Procs, NEW item \in Items, Emit(p, item),
         UNCHANGED <<taken, reading>>
  PROVE  StreamTyped' /\ ClosingTyped'
<1>1. CASE UNCHANGED stream
  <2>1. ClosingTyped'
    BY <1>1, CloseTyped, GroupsStand DEF Emit, Errors
  <2>2. StreamTyped'
    BY <1>1 DEF Typed, StreamTyped
  <2>3. QED BY <2>1, <2>2
<1>2. CASE stream' = Append(stream, item) /\ UNCHANGED closing
  BY <1>2 DEF Typed, StreamTyped, ClosingTyped
<1>3. QED BY <1>1, <1>2 DEF Emit

\* The types hold when the session is created.
LEMMA TypeStart ==
  ASSUME Init
  PROVE  Typed
<1> USE SessionConstants
    DEF SessionConstants, Init, None, Turns, Free, Calm, Ids
<1>1. TurnTyped /\ LifeTyped
  BY DEF TurnTyped, LifeTyped
<1>2. StreamTyped
  BY DEF StreamTyped
<1>3. PermissionsTyped /\ LinkTyped
  BY DEF PermissionsTyped, LinkTyped
<1>4. WorkerTyped /\ QueuesTyped
  BY DEF WorkerTyped, QueuesTyped, WorkerPcs
<1>5. CallsTyped
  BY DEF CallsTyped, CallPcs, Results
<1>6. ClosingTyped
  BY DEF ClosingTyped, Closing
<1>7. AgentTyped
  BY DEF AgentTyped
<1>8. QED BY <1>1, <1>2, <1>3, <1>4, <1>5, <1>6, <1>7 DEF Typed

\* Each step keeps the types.
LEMMA TypeKept ==
  ASSUME Typed, Next
  PROVE  Typed'
<1> USE SessionConstants
    DEF SessionConstants, None, handleVars, lifeVars, outVars, permVars, queueVars,
        callVars, connVars, agentVars, workerFrame, callFrame, appFrame, peerFrame
<1>1. ASSUME WorkerTop
      PROVE  Typed'
  <2>1. WorkerTyped'
    BY <1>1, ErrorTyped
    DEF WorkerTop, Typed, WorkerTyped, WorkerPcs, Outcomes, Reasons, Errors
  <2>2. QED
    BY <1>1, <2>1, GroupsStand DEF WorkerTop, Typed
<1>2. ASSUME PollClosed
      PROVE  Typed'
  <2>1. WorkerTyped'
    BY <1>2
    DEF PollClosed, Typed, WorkerTyped, Die, LinkTyped, WorkerPcs, Outcomes,
        Reasons, Errors
  <2>2. /\ <<>> \in Seq(Prompts) /\ <<>> \in Seq(Messages)
        /\ <<>> \in Seq(Answers)
    OBVIOUS
  <2>3. QueuesTyped'
    BY <1>2, <2>2 DEF PollClosed, Typed, QueuesTyped, Die
  <2>4. QED
    BY <1>2, <2>1, <2>2, <2>3, GroupsStand DEF PollClosed, Typed
<1>3. ASSUME PollUpdate
      PROVE  Typed'
  <2>1. Head(inbox) \in Messages
    BY <1>3, QueueTyped DEF PollUpdate, Typed, QueuesTyped, Reads, Turns
  <2>2. WorkerTyped'
    BY <1>3
    DEF PollUpdate, Typed, WorkerTyped, Emitted, WorkerPcs, Outcomes, Reasons,
        Errors
  <2>3. QueuesTyped'
    BY <1>3 DEF PollUpdate, Typed, QueuesTyped, Reads
  <2>4. Item(turn.current, "update", owner[Head(inbox).id], 0) \in Items
    BY <1>3, <2>1
    DEF PollUpdate, Typed, Items, Item, TurnTyped, AgentTyped, Messages, Turns
  <2>5. StreamTyped' /\ ClosingTyped'
    BY <1>3, <2>4, EmitTyped, Names DEF PollUpdate
  <2>6. QED
    BY <1>3, <2>1, <2>2, <2>3, <2>4, <2>5, GroupsStand DEF PollUpdate, Typed
<1>4. ASSUME PollPermission
      PROVE  Typed'
  <2>1. Head(inbox) \in Messages
    BY <1>4, QueueTyped DEF PollPermission, Typed, QueuesTyped, Reads, Turns
  <2>2. Head(inbox).id \in Ids /\ Head(inbox).id \in 0..MaxMessages
    BY <1>4, <2>1 DEF PollPermission, Typed, Messages, Ids, Turns
  <2>3. WorkerTyped'
    BY ZenonT(60), <1>4, <2>2
    DEF PollPermission, Typed, WorkerTyped, Reads, WorkerPcs, Outcomes, Reasons,
        Errors
  <2>4. QueuesTyped'
    BY <1>4, QueueTyped DEF PollPermission, Typed, QueuesTyped, Reads
  <2>5. PermissionsTyped'
    BY <1>4, <2>2 DEF PollPermission, Typed, PermissionsTyped
  <2>6. QED
    BY <1>4, <2>1, <2>2, <2>3, <2>4, <2>5, GroupsStand DEF PollPermission, Typed
<1>5. ASSUME InsertPermission
      PROVE  Typed'
  <2>1. WorkerTyped'
    BY <1>5
    DEF InsertPermission, Typed, WorkerTyped, WorkerPcs, Outcomes, Reasons, Errors
  <2>2. PermissionsTyped'
    BY <1>5 DEF InsertPermission, Typed, PermissionsTyped, WorkerTyped
  <2>3. QED
    BY <1>5, <2>1, <2>2, GroupsStand DEF InsertPermission, Typed
<1>6. ASSUME AskPermission
      PROVE  Typed'
  <2>1. 0 \in 0..MaxMessages /\ "top" \in WorkerPcs /\ "failed" \in WorkerPcs
        /\ "internal" \in Errors \cap Outcomes
    BY <1>6 DEF AskPermission, Typed, WorkerPcs, Errors, Outcomes, Turns
  <2>2. WorkerTyped'
    BY <1>6, <2>1 DEF AskPermission, Typed, WorkerTyped
  <2>4. Item(turn.current, "permission", owner[worker.ask], worker.ask) \in Items
    BY <1>6
    DEF AskPermission, Typed, Items, Item, TurnTyped, WorkerTyped, AgentTyped, Turns
  <2>5. StreamTyped' /\ ClosingTyped'
    BY <1>6, <2>4, EmitTyped, Names DEF AskPermission
  <2>6. QED
    BY <1>6, <2>2, <2>5, GroupsStand DEF AskPermission, Typed
<1>7. ASSUME PollEmpty
      PROVE  Typed'
  <2>1. WorkerTyped'
    BY <1>7 DEF PollEmpty, Typed, WorkerTyped, WorkerPcs, Outcomes, Reasons, Errors
  <2>2. QED
    BY <1>7, <2>1, GroupsStand DEF PollEmpty, Typed
<1>8. ASSUME PollCompletion
      PROVE  Typed'
  <2>1. Head(completions) \in Answers
    BY <1>8, QueueTyped DEF PollCompletion, Typed, QueuesTyped, CanComplete, Turns
  <2>2. Head(completions).outcome \in Outcomes
    BY <1>8, <2>1 DEF PollCompletion, Typed, Answers, Turns
  <2>3. WorkerTyped'
    BY <1>8, <2>2
    DEF PollCompletion, Typed, WorkerTyped, WorkerPcs, Outcomes, Reasons, Errors
  <2>4. QueuesTyped'
    BY <1>8 DEF PollCompletion, Typed, QueuesTyped, CanComplete
  <2>5. QED
    BY <1>8, <2>1, <2>2, <2>3, <2>4, GroupsStand DEF PollCompletion, Typed
<1>9. ASSUME PollCommand
      PROVE  Typed'
  <2>1. Head(commands) \in Turns
    BY <1>9, QueueTyped DEF PollCommand, Typed, QueuesTyped, CanAccept, Turns
  <2>2. WorkerTyped'
    BY <1>9, <2>1
    DEF PollCommand, Typed, WorkerTyped, WorkerPcs, Outcomes, Reasons, Errors
  <2>3. QueuesTyped'
    BY <1>9, QueueTyped DEF PollCommand, Typed, QueuesTyped, CanAccept
  <2>4. TurnTyped'
    BY <1>9, <2>1 DEF PollCommand, Typed, TurnTyped
  <2>5. QED
    BY <1>9, <2>1, <2>2, <2>3, <2>4, GroupsStand DEF PollCommand, Typed
<1>10. ASSUME SendPrompt
       PROVE  Typed'
  <2>1. WorkerTyped'
    BY ZenonT(60), <1>10
    DEF SendPrompt, Typed, WorkerTyped, WorkerPcs, Outcomes, Reasons, Errors
  <2>2. worker.active \in Turns
    BY <1>10 DEF SendPrompt, Typed, WorkerTyped, Turns
  <2>3. [prompt |-> worker.active, cancelled |-> FALSE]
         \in [prompt : Turns, cancelled : BOOLEAN]
    BY <2>2
  <2>4. AgentTyped'
    BY <1>10, <2>3 DEF SendPrompt, Typed, AgentTyped
  <2>5. QED
    BY <1>10, <2>1, <2>2, <2>3, <2>4, GroupsStand DEF SendPrompt, Typed
<1>11. ASSUME Park
       PROVE  Typed'
  <2>1. WorkerTyped'
    BY <1>11 DEF Park, Typed, WorkerTyped, WorkerPcs, Outcomes, Reasons, Errors
  <2>2. QED
    BY <1>11, <2>1, GroupsStand DEF Park, Typed
<1>12. ASSUME Finish
       PROVE  Typed'
  <2>1. WorkerTyped'
    BY <1>12
    DEF Finish, Typed, WorkerTyped, Emitted, WorkerPcs, Outcomes, Reasons, Errors
  <2>2. PermissionsTyped'
    BY <1>12, DenyTyped DEF Finish, Typed, PermissionsTyped
  <2>3. Item(turn.current, TerminalKind(worker.outcome), worker.active, 0) \in Items
    BY <1>12
    DEF Finish, Typed, Items, Item, TurnTyped, WorkerTyped, TerminalKind, Reasons,
        Turns
  <2>4. StreamTyped' /\ ClosingTyped'
    BY <1>12, <2>3, EmitTyped, Names DEF Finish
  <2>5. QED
    BY <1>12, <2>1, <2>2, <2>3, <2>4, GroupsStand DEF Finish, Typed
<1>13. ASSUME FreeTurn
       PROVE  Typed'
  <2>1. TurnTyped'
    BY <1>13 DEF FreeTurn, Typed, TurnTyped, Free, Turns
  <2>2. WorkerTyped'
    BY <1>13 DEF FreeTurn, Typed, WorkerTyped, WorkerPcs, Outcomes, Reasons, Errors
  <2>3. QED
    BY <1>13, <2>1, <2>2, GroupsStand DEF FreeTurn, Typed
<1>14. ASSUME Settle
       PROVE  Typed'
  <2>1. TurnTyped'
    BY <1>14 DEF Settle, Typed, TurnTyped
  <2>2. WorkerTyped'
    BY <1>14
    DEF Settle, Typed, WorkerTyped, WorkerPcs, Outcomes, Reasons, Errors, Turns
  <2>3. CallsTyped'
    BY <1>14 DEF Settle, Typed, CallsTyped, WorkerTyped
  <2>4. QED
    BY <1>14, <2>1, <2>2, <2>3, GroupsStand DEF Settle, Typed
<1>15. ASSUME WorkerFails
       PROVE  Typed'
  <2>1. WorkerTyped'
    BY <1>15
    DEF WorkerFails, Typed, WorkerTyped, Die, WorkerPcs, Outcomes, Reasons, Errors
  <2>2. QueuesTyped'
    BY <1>15 DEF WorkerFails, Typed, QueuesTyped, Die
  <2>3. ClosingTyped'
    BY <1>15, Names, CloseTyped
    DEF WorkerFails, Typed, ClosingTyped, WorkerTyped, Errors
  <2>4. QED
    BY <1>15, <2>1, <2>2, <2>3, GroupsStand DEF WorkerFails, Typed
<1>16. ASSUME NEW n \in Ids, PollExpiry(n)
       PROVE  Typed'
  <2>1. PermissionsTyped'
    BY <1>16 DEF PollExpiry, Typed, PermissionsTyped
  <2>2. WorkerTyped'
    BY <1>16
    DEF PollExpiry, Typed, WorkerTyped, WorkerPcs, Outcomes, Reasons, Errors
  <2>3. QED
    BY <1>16, <2>1, <2>2, GroupsStand DEF PollExpiry, Typed
<1>17. ASSUME NEW p \in Procs, CloseEnter(p)
       PROVE  Typed'
  <2>1. LifeTyped'
    BY <1>17 DEF CloseEnter, Typed, LifeTyped, ClosingTyped, Closing
  <2>2. PermissionsTyped'
    BY <1>17, DenyTyped, GroupsStand DEF CloseEnter, Typed, PermissionsTyped
  <2>3. [closing[p] EXCEPT !.stage = 2] \in Closing /\ Calm \in Closing
    BY <1>17 DEF CloseEnter, Typed, ClosingTyped, Closing, Calm, Turns
  <2>4. ClosingTyped'
    BY <1>17, <2>3 DEF CloseEnter, Typed, ClosingTyped
  <2>5. LinkTyped'
    BY <1>17 DEF CloseEnter, Typed, LinkTyped, ClosingTyped, Closing
  <2>6. AgentTyped'
    BY <1>17 DEF CloseEnter, Typed, AgentTyped
  <2>7. QED
    BY <1>17, <2>1, <2>2, <2>3, <2>4, <2>5, <2>6, GroupsStand DEF CloseEnter, Typed
<1>18. ASSUME NEW p \in Procs, CloseReadTurn(p)
       PROVE  Typed'
  <2>1. closing[p] \in Closing /\ turn.current \in Turns
    BY <1>18 DEF Typed, ClosingTyped, TurnTyped
  <2>2. [closing[p] EXCEPT !.stage = 3] \in Closing
    BY <2>1 DEF Closing
  <2>3. \A c \in Closing, r \in Turns : [c EXCEPT !.request = r] \in Closing
    BY DEF Closing
  <2>4. [[closing[p] EXCEPT !.stage = 3] EXCEPT !.request = turn.current] \in Closing
    BY Zenon, <2>1, <2>2, <2>3
  <2>5. ClosingTyped'
    BY <1>18, <2>4 DEF CloseReadTurn, Typed, ClosingTyped
  <2>6. QED
    BY <1>18, <2>5, GroupsStand DEF CloseReadTurn, Typed
<1>19. ASSUME NEW p \in Procs, CloseTakeEvents(p)
       PROVE  Typed'
  <2>1. LifeTyped'
    BY <1>19 DEF CloseTakeEvents, Typed, LifeTyped
  <2>2. Item(closing[p].request, "error", closing[p].request, 0) \in Items
    BY <1>19 DEF Typed, Items, Item, ClosingTyped, Closing
  <2>3. StreamTyped'
    BY <1>19, <2>2 DEF CloseTakeEvents, Typed, StreamTyped
  <2>4. ClosingTyped'
    BY <1>19 DEF CloseTakeEvents, Typed, ClosingTyped, Closing
  <2>5. QED
    BY <1>19, <2>1, <2>2, <2>3, <2>4, GroupsStand DEF CloseTakeEvents, Typed
<1>20. ASSUME NEW p \in Procs, CloseSettle(p)
       PROVE  Typed'
  <2>1. TurnTyped'
    BY <1>20 DEF CloseSettle, Typed, TurnTyped
  <2>2. LifeTyped'
    BY <1>20 DEF CloseSettle, Typed, LifeTyped
  <2>3. ClosingTyped'
    BY <1>20 DEF CloseSettle, Typed, ClosingTyped, Closing, Calm, Turns
  <2>4. LinkTyped'
    BY <1>20 DEF CloseSettle, Typed, LinkTyped, ClosingTyped, Closing
  <2>5. QED
    BY <1>20, <2>1, <2>2, <2>3, <2>4, GroupsStand DEF CloseSettle, Typed
<1>21. ASSUME NEW p \in Prompts, PromptStart(p)
       PROVE  Typed'
  <2>1. CallsTyped'
    BY <1>21, Names, ErrorTyped
    DEF PromptStart, Typed, CallsTyped, Return, Goto, CallPcs, Results, Outcomes,
        Reasons, Errors
  <2>2. QED
    BY <1>21, <2>1, GroupsStand DEF PromptStart, Typed
<1>22. ASSUME NEW p \in Prompts, PromptReserve(p)
       PROVE  Typed'
  <2>1. TurnTyped'
    BY ZenonT(60), <1>22 DEF PromptReserve, Typed, TurnTyped, Turns
  <2>2. CallsTyped'
    BY <1>22, Names, ErrorTyped
    DEF PromptReserve, Typed, CallsTyped, Return, Goto, CallPcs, Results, Outcomes,
        Reasons, Errors
  <2>3. QED
    BY <1>22, <2>1, <2>2, GroupsStand DEF PromptReserve, Typed
<1>23. ASSUME NEW p \in Prompts, PromptSend(p)
       PROVE  Typed'
  <2>1. <<p>> \in Seq(Prompts)
    BY <1>23, QueueTyped DEF PromptSend, Typed, QueuesTyped, Turns
  <2>2. QueuesTyped'
    BY <1>23, <2>1 DEF PromptSend, Typed, QueuesTyped
  <2>3. CallsTyped'
    BY <1>23, Names, ErrorTyped
    DEF PromptSend, Typed, CallsTyped, Return, Goto, CallPcs, Results, Outcomes,
        Reasons, Errors
  <2>4. QED
    BY <1>23, <2>1, <2>2, <2>3, GroupsStand DEF PromptSend, Typed
<1>24. ASSUME NEW p \in Prompts, PromptReceive(p)
       PROVE  Typed'
  <2>1. CallsTyped'
    BY <1>24, Names, ErrorTyped
    DEF PromptReceive, Typed, CallsTyped, Return, Goto, CallPcs, Results, Outcomes,
        Reasons, Errors
  <2>2. QED
    BY <1>24, <2>1, GroupsStand DEF PromptReceive, Typed
<1>25. ASSUME NEW p \in Prompts, PromptGuard(p)
       PROVE  Typed'
  <2>1. CallsTyped'
    BY <1>25, Names, ErrorTyped
    DEF PromptGuard, Typed, CallsTyped, Return, Goto, CallPcs, Results, Outcomes,
        Reasons, Errors
  <2>2. ClosingTyped'
    BY <1>25, Names, CloseTyped DEF PromptGuard, Typed, ClosingTyped, Errors
  <2>3. QED
    BY <1>25, <2>1, <2>2, GroupsStand DEF PromptGuard, Typed
<1>26. ASSUME NEW p \in Prompts, PromptTimeout(p)
       PROVE  Typed'
  <2>1. CallsTyped'
    BY <1>26, Names, ErrorTyped
    DEF PromptTimeout, Typed, CallsTyped, Return, Goto, CallPcs, Results, Outcomes,
        Reasons, Errors
  <2>2. ClosingTyped'
    BY <1>26, Names, CloseTyped DEF PromptTimeout, Typed, ClosingTyped, Errors
  <2>3. QED
    BY <1>26, <2>1, <2>2, GroupsStand DEF PromptTimeout, Typed
<1>27. ASSUME NEW p \in Prompts, PromptDrop(p)
       PROVE  Typed'
  <2>1. CallsTyped'
    BY <1>27, Names, ErrorTyped
    DEF PromptDrop, Typed, CallsTyped, Return, Goto, CallPcs, Results, Outcomes,
        Reasons, Errors
  <2>2. QED
    BY <1>27, <2>1, GroupsStand DEF PromptDrop, Typed
<1>28. ASSUME NEW c \in Stoppers, CloseStart(c)
       PROVE  Typed'
  <2>1. CallsTyped'
    BY <1>28, Names, ErrorTyped
    DEF CloseStart, Typed, CallsTyped, Return, Goto, CallPcs, Results, Outcomes,
        Reasons, Errors
  <2>2. QED
    BY <1>28, <2>1, GroupsStand DEF CloseStart, Typed
<1>29. ASSUME NEW c \in Stoppers, CancelStart(c)
       PROVE  Typed'
  <2>1. CallsTyped'
    BY <1>29, Names, ErrorTyped
    DEF CancelStart, Typed, CallsTyped, Return, Goto, CallPcs, Results, Outcomes,
        Reasons, Errors
  <2>2. QED
    BY <1>29, <2>1, GroupsStand DEF CancelStart, Typed
<1>30. ASSUME NEW c \in Stoppers, CancelTurn(c)
       PROVE  Typed'
  <2>1. TurnTyped'
    BY <1>30 DEF CancelTurn, Typed, TurnTyped
  <2>2. CallsTyped'
    BY <1>30, Names, ErrorTyped
    DEF CancelTurn, Typed, CallsTyped, Return, Goto, CallPcs, Results, Outcomes,
        Reasons, Errors, Cancelled, TurnTyped, Turns
  <2>3. QED
    BY <1>30, <2>1, <2>2, GroupsStand DEF CancelTurn, Typed
<1>31. ASSUME NEW c \in Stoppers, CancelNotify(c)
       PROVE  Typed'
  <2>1. PermissionsTyped'
    BY <1>31, DenyTyped DEF CancelNotify, Typed, PermissionsTyped
  <2>2. CallsTyped'
    BY <1>31, Names, ErrorTyped
    DEF CancelNotify, Typed, CallsTyped, Return, Goto, CallPcs, Results, Outcomes,
        Reasons, Errors
  <2>3. AgentTyped'
    BY <1>31 DEF CancelNotify, Typed, AgentTyped
  <2>4. QED
    BY <1>31, <2>1, <2>2, <2>3, GroupsStand DEF CancelNotify, Typed
<1>32. ASSUME NEW c \in Stoppers, CancelQuiet(c)
       PROVE  Typed'
  <2>1. CallsTyped'
    BY <1>32, Names, ErrorTyped
    DEF CancelQuiet, Typed, CallsTyped, Return, Goto, CallPcs, Results, Outcomes,
        Reasons, Errors, Cancelled
  <2>2. QED
    BY <1>32, <2>1, GroupsStand DEF CancelQuiet, Typed
<1>33. ASSUME NEW c \in Stoppers, CloseAnswered(c)
       PROVE  Typed'
  <2>1. CallsTyped'
    BY <1>33, Names, ErrorTyped
    DEF CloseAnswered, Typed, CallsTyped, Return, Goto, CallPcs, Results, Outcomes,
        Reasons, Errors
  <2>2. ClosingTyped'
    BY <1>33, Names, CloseTyped DEF CloseAnswered, Typed, ClosingTyped, Errors
  <2>3. QED
    BY <1>33, <2>1, <2>2, GroupsStand DEF CloseAnswered, Typed
<1>34. ASSUME NEW c \in Stoppers, CancelTimeout(c)
       PROVE  Typed'
  <2>1. CallsTyped'
    BY <1>34, Names, ErrorTyped
    DEF CancelTimeout, Typed, CallsTyped, Return, Goto, CallPcs, Results, Outcomes,
        Reasons, Errors
  <2>2. ClosingTyped'
    BY <1>34, Names, CloseTyped DEF CancelTimeout, Typed, ClosingTyped, Errors
  <2>3. QED
    BY <1>34, <2>1, <2>2, GroupsStand DEF CancelTimeout, Typed
<1>35. ASSUME NEW c \in Configs, ConfigStart(c)
       PROVE  Typed'
  <2>1. CallsTyped'
    BY <1>35, Names, ErrorTyped
    DEF ConfigStart, Typed, CallsTyped, Return, Goto, CallPcs, Results, Outcomes,
        Reasons, Errors
  <2>2. QED
    BY <1>35, <2>1, GroupsStand DEF ConfigStart, Typed
<1>36. ASSUME NEW c \in Configs, ConfigAnswered(c)
       PROVE  Typed'
  <2>1. CallsTyped'
    BY <1>36, Names, ErrorTyped
    DEF ConfigAnswered, Typed, CallsTyped, Return, Goto, CallPcs, Results, Outcomes,
        Reasons, Errors, TurnTyped
  <2>2. ClosingTyped'
    BY <1>36, Names, CloseTyped, GroupsStand
    DEF ConfigAnswered, Typed, ClosingTyped, Errors
  <2>3. QED
    BY <1>36, <2>1, <2>2, GroupsStand DEF ConfigAnswered, Typed
<1>37. ASSUME NEW c \in Configs, ConfigEmit(c)
       PROVE  Typed'
  <2>1. CallsTyped'
    BY <1>37, Names, ErrorTyped
    DEF ConfigEmit, Typed, CallsTyped, Return, Goto, CallPcs, Results, Outcomes,
        Reasons, Errors
  <2>2. Item(about[c], "config", None, 0) \in Items
    BY <1>37, Names DEF ConfigEmit, Typed, Items, Item, CallsTyped, Turns
  <2>3. StreamTyped' /\ ClosingTyped'
    BY <1>37, <2>2, EmitTyped, Names DEF ConfigEmit
  <2>4. QED
    BY <1>37, <2>1, <2>2, <2>3, GroupsStand DEF ConfigEmit, Typed
<1>38. ASSUME LeaseDrop
       PROVE  Typed'
  <2>1. CallsTyped'
    BY <1>38, Names, ErrorTyped
    DEF LeaseDrop, Typed, CallsTyped, Return, Goto, CallPcs, Results, Outcomes,
        Reasons, Errors
  <2>2. ClosingTyped'
    BY <1>38, Names, CloseTyped
    DEF LeaseDrop, Typed, ClosingTyped, Errors, TurnTyped, Turns
  <2>3. QED
    BY <1>38, <2>1, <2>2, GroupsStand DEF LeaseDrop, Typed
<1>39. ASSUME Consume
       PROVE  Typed'
  <2>1. StreamTyped'
    BY <1>39 DEF Consume, Typed, StreamTyped
  <2>2. QED
    BY <1>39, <2>1, GroupsStand DEF Consume, Typed
<1>40. ASSUME StopReading
       PROVE  Typed'
  <2>1. StreamTyped'
    BY <1>40 DEF StopReading, Typed, StreamTyped
  <2>2. QED
    BY <1>40, <2>1, GroupsStand DEF StopReading, Typed
<1>41. ASSUME NEW n \in Ids, RespondPermission(n)
       PROVE  Typed'
  <2>1. PermissionsTyped'
    BY <1>41 DEF RespondPermission, Typed, PermissionsTyped
  <2>2. QED
    BY <1>41, <2>1, GroupsStand DEF RespondPermission, Typed
<1>42. ASSUME NEW k \in {"update", "permission"}, AgentSends(k)
       PROVE  Typed'
  <2>1. sent + 1 \in Ids
    BY <1>42 DEF AgentSends, Typed, AgentTyped, Ids, Turns
  <2>2. [kind |-> k, id |-> sent + 1] \in Messages
    BY <1>42, <2>1 DEF AgentSends, Typed, Messages, Turns
  <2>3. QueuesTyped'
    BY <1>42, <2>2, QueueTyped DEF AgentSends, Typed, QueuesTyped, Queued
  <2>4. AgentTyped'
    BY <1>42 DEF AgentSends, Typed, AgentTyped, Ids, Turns
  <2>5. QED
    BY <1>42, <2>1, <2>2, <2>3, <2>4, GroupsStand DEF AgentSends, Typed
<1>43. ASSUME ConnectionLost
       PROVE  Typed'
  <2>1. LinkTyped'
    BY <1>43 DEF ConnectionLost, Typed, LinkTyped
  <2>2. QED
    BY <1>43, <2>1, GroupsStand DEF ConnectionLost, Typed
<1>44. ASSUME NEW o \in Reasons \cup {"agent"}, AgentAnswer(o)
       PROVE  Typed'
  <2>1. agent.prompt \in Prompts /\ o \in Outcomes
    BY <1>44 DEF AgentAnswer, Typed, AgentTyped, Outcomes, Reasons, Errors, Turns
  <2>2. [prompt |-> agent.prompt, outcome |-> o] \in Answers
    BY <1>44, <2>1 DEF AgentAnswer, Typed, Answers, Turns
  <2>3. QueuesTyped'
    BY <1>44, <2>2, QueueTyped DEF AgentAnswer, Typed, QueuesTyped, Queued
  <2>4. AgentTyped'
    BY <1>44 DEF AgentAnswer, Typed, AgentTyped, Turns
  <2>5. QED
    BY <1>44, <2>1, <2>2, <2>3, <2>4, GroupsStand DEF AgentAnswer, Typed
<1>45. QED
  BY <1>1, <1>2, <1>3, <1>4, <1>5, <1>6, <1>7, <1>8, <1>9, <1>10, <1>11, <1>12,
     <1>13, <1>14, <1>15, <1>16, <1>17, <1>18, <1>19, <1>20, <1>21, <1>22, <1>23,
     <1>24, <1>25, <1>26, <1>27, <1>28, <1>29, <1>30, <1>31, <1>32, <1>33, <1>34,
     <1>35, <1>36, <1>37, <1>38, <1>39, <1>40, <1>41, <1>42, <1>43, <1>44
  DEF Next, WorkerNext, WorkerStep, CloseStep, CallNext, PromptStep, StopperStep,
      ConfigStep, AppNext, AgentNext

\* A stuttering step keeps the types.
LEMMA TypeStands ==
  ASSUME Typed, UNCHANGED vars
  PROVE  Typed'
BY GroupsStand DEF vars, Typed

\* Each variable keeps its type (session.rs).
LEMMA SessionTyped == Spec => []Typed
<1>1. Init => Typed
  BY TypeStart
<1>2. Typed /\ [Next]_vars => Typed'
  BY TypeKept, TypeStands
<1>3. QED BY <1>1, <1>2, PTL DEF Spec

\* Every variable of a session keeps its type, whatever the calls, the worker, the
\* application, the agent and the faults make of one another.
THEOREM SessionTypeCorrect == Spec => []TypeOK
BY SessionTyped, TypedIsTypeOK, PTL

--------------------------------------------------------------------------------
(* One turn *)

\* From its command on until its caller is told the worker is busy with a turn
\* that the agent does not have.
Working == {"begin", "finish", "reset", "settle"}

\* The lock, the calls, the command channel, the worker, the agent and what it
\* answered speak of one turn: the reserved one is on its way to the worker or is
\* the worker's, the agent has it or has answered it, and no more than once.
OneTurn ==
  /\ turn.current = IF worker.pc = "settle" THEN None ELSE worker.active
  /\ turn.current \in {None, turn.reserved}
  /\ worker.pc \in Working => worker.active # None
  /\ \A p \in Prompts :
       /\ pc[p] \in {"start", "reserve"} => turn.reserved # p
       /\ pc[p] = "send" =>
            turn.reserved = p /\ turn.current = None /\ commands = <<>>
  /\ commands # <<>> =>
       turn.reserved # None /\ turn.current = None /\ commands = <<turn.reserved>>
  /\ agent.prompt # None => agent.prompt = worker.active
  /\ agent.prompt # None \/ worker.pc \in Working \/ worker.active = None
       => completions = <<>>
  /\ worker.pc \in Working => agent.prompt = None
  /\ completions # <<>> =>
       \E o \in Outcomes : completions = <<[prompt |-> worker.active, outcome |-> o]>>

\* No turn is anywhere when the session is created.
LEMMA OneTurnStart ==
  ASSUME Init
  PROVE  OneTurn
BY SessionConstants, Names DEF SessionConstants, Init, OneTurn, Working, Free, None

\* Each step keeps the turn one.
LEMMA OneTurnKept ==
  ASSUME Typed, OneTurn, Next
  PROVE  OneTurn'
<1> USE SessionConstants
    DEF SessionConstants, None, handleVars, lifeVars, outVars, permVars, queueVars,
        callVars, connVars, agentVars, workerFrame, callFrame, appFrame, peerFrame,
        OneTurn, Working, Typed, TurnTyped, WorkerTyped, CallsTyped, AgentTyped,
        QueuesTyped
<1>1. ASSUME WorkerTop
      PROVE  OneTurn'
  BY <1>1 DEF WorkerTop
<1>2. ASSUME PollClosed
      PROVE  OneTurn'
  BY ZenonT(60), <1>2 DEF PollClosed, Die
<1>3. ASSUME PollUpdate
      PROVE  OneTurn'
  BY <1>3 DEF PollUpdate, Reads, Emitted
<1>4. ASSUME PollPermission
      PROVE  OneTurn'
  <2>1. \/ worker' = [worker EXCEPT !.pc = "top"]
        \/ worker' = [worker EXCEPT !.pc = "insert", !.ask = Head(inbox).id]
    <3> HIDE DEF Typed, OneTurn
    <3> QED BY <1>4 DEF PollPermission
  <2>2. UNCHANGED <<turn, agent, pc, commands, completions>> /\ worker.pc = "poll"
    BY <1>4 DEF PollPermission, Reads
  <2>3. /\ worker'.active = worker.active
        /\ worker'.pc \notin Working \cup {"settle"}
    BY ZenonT(60), <2>1
  <2>4. QED
    BY <2>2, <2>3
<1>5. ASSUME InsertPermission
      PROVE  OneTurn'
  BY <1>5 DEF InsertPermission
<1>6. ASSUME AskPermission
      PROVE  OneTurn'
  BY <1>6 DEF AskPermission
<1>7. ASSUME PollEmpty
      PROVE  OneTurn'
  BY <1>7 DEF PollEmpty
<1>8. ASSUME PollCompletion
      PROVE  OneTurn'
  BY SMTT(30), <1>8 DEF PollCompletion, CanComplete
<1>9. ASSUME PollCommand
      PROVE  OneTurn'
  BY <1>9 DEF PollCommand, CanAccept
<1>10. ASSUME SendPrompt
       PROVE  OneTurn'
  <2>1. \/ /\ worker' = [worker EXCEPT !.pc = "failed", !.outcome = "agent"]
           /\ UNCHANGED agent
        \/ /\ worker' = [worker EXCEPT !.pc = "top"]
           /\ agent' = [prompt |-> worker.active, cancelled |-> FALSE]
    <3> HIDE DEF Typed, OneTurn
    <3> QED BY <1>10 DEF SendPrompt
  <2>2. worker.active # None /\ completions = <<>> /\ agent.prompt = None
    BY <1>10 DEF SendPrompt
  <2>3. UNCHANGED <<turn, pc, commands, completions>> /\ worker.pc = "begin"
    BY <1>10 DEF SendPrompt
  <2>4. worker'.active = worker.active /\ worker'.pc \in {"failed", "top"}
    <3> HIDE DEF OneTurn
    <3> QED BY <2>1
  <2>5. agent'.prompt \in {agent.prompt, worker.active}
    <3> HIDE DEF Typed, OneTurn
    <3> QED BY <2>1
  <2>6. QED
    BY <2>2, <2>3, <2>4, <2>5
<1>11. ASSUME Park
       PROVE  OneTurn'
  BY <1>11 DEF Park
<1>12. ASSUME Finish
       PROVE  OneTurn'
  BY <1>12 DEF Finish, Emitted
<1>13. ASSUME FreeTurn
       PROVE  OneTurn'
  BY <1>13 DEF FreeTurn, Free
<1>14. ASSUME Settle
       PROVE  OneTurn'
  BY <1>14 DEF Settle
<1>15. ASSUME WorkerFails
       PROVE  OneTurn'
  BY <1>15 DEF WorkerFails, Die
<1>16. ASSUME NEW n \in Ids, PollExpiry(n)
       PROVE  OneTurn'
  BY <1>16 DEF PollExpiry
<1>17. ASSUME NEW p \in Procs, CloseEnter(p)
       PROVE  OneTurn'
  BY <1>17 DEF CloseEnter
<1>18. ASSUME NEW p \in Procs, CloseReadTurn(p)
       PROVE  OneTurn'
  BY <1>18 DEF CloseReadTurn
<1>19. ASSUME NEW p \in Procs, CloseTakeEvents(p)
       PROVE  OneTurn'
  BY <1>19 DEF CloseTakeEvents
<1>20. ASSUME NEW p \in Procs, CloseSettle(p)
       PROVE  OneTurn'
  BY <1>20 DEF CloseSettle
<1>21. ASSUME NEW p \in Prompts, PromptStart(p)
       PROVE  OneTurn'
  BY <1>21, Names DEF PromptStart, At, Return, Goto, Close
<1>22. ASSUME NEW p \in Prompts, PromptReserve(p)
       PROVE  OneTurn'
  <2>1. UNCHANGED <<worker, agent, commands, completions>>
    BY <1>22 DEF PromptReserve
  <2>2. CASE turn.reserved # None
    BY <1>22, <2>1, <2>2, Names DEF PromptReserve, At, Return
  <2>3. CASE turn.reserved = None
    <3>1. turn.current = None /\ commands = <<>>
      BY <2>3
    <3>2. /\ turn' = [turn EXCEPT !.reserved = p, !.cancelled = FALSE]
          /\ pc' = [pc EXCEPT ![p] = "send"]
      <4> HIDE DEF Typed, OneTurn
      <4> QED BY <1>22, <2>3 DEF PromptReserve, Goto
    <3>3. turn'.reserved = p /\ turn'.current = None
      BY <3>1, <3>2
    <3>4. \A q \in Prompts : pc'[q] = "send" <=> q = p
      BY <2>3, <3>2, Names
    <3>5. \A q \in Prompts : pc'[q] \in {"start", "reserve"} => q # p
      BY <3>2, Names
    <3>6. QED
      BY <2>1, <3>1, <3>3, <3>4, <3>5
  <2>4. QED BY <2>2, <2>3
<1>23. ASSUME NEW p \in Prompts, PromptSend(p)
       PROVE  OneTurn'
  BY <1>23, Names DEF PromptSend, At, Return, Goto, Close
<1>24. ASSUME NEW p \in Prompts, PromptReceive(p)
       PROVE  OneTurn'
  BY <1>24, Names DEF PromptReceive, At, Return, Goto, Close
<1>25. ASSUME NEW p \in Prompts, PromptGuard(p)
       PROVE  OneTurn'
  BY <1>25, Names DEF PromptGuard, At, Return, Goto, Close
<1>26. ASSUME NEW p \in Prompts, PromptTimeout(p)
       PROVE  OneTurn'
  BY <1>26, Names DEF PromptTimeout, At, Return, Goto, Close
<1>27. ASSUME NEW p \in Prompts, PromptDrop(p)
       PROVE  OneTurn'
  BY <1>27, Names DEF PromptDrop, At, Return, Goto, Close
<1>28. ASSUME NEW c \in Stoppers, CloseStart(c)
       PROVE  OneTurn'
  BY <1>28, Names DEF CloseStart, At, Return, Goto
<1>29. ASSUME NEW c \in Stoppers, CancelStart(c)
       PROVE  OneTurn'
  BY <1>29, Names DEF CancelStart, At, Return, Goto
<1>30. ASSUME NEW c \in Stoppers, CancelTurn(c)
       PROVE  OneTurn'
  BY <1>30, Names DEF CancelTurn, At, Return, Goto, Cancelled
<1>31. ASSUME NEW c \in Stoppers, CancelNotify(c)
       PROVE  OneTurn'
  BY <1>31, Names DEF CancelNotify, At, Return, Goto, Close
<1>32. ASSUME NEW c \in Stoppers, CancelQuiet(c)
       PROVE  OneTurn'
  BY <1>32, Names DEF CancelQuiet, At, Return, Goto, Cancelled, IsClosed
<1>33. ASSUME NEW c \in Stoppers, CloseAnswered(c)
       PROVE  OneTurn'
  BY <1>33, Names DEF CloseAnswered, At, Return, Goto, Close
<1>34. ASSUME NEW c \in Stoppers, CancelTimeout(c)
       PROVE  OneTurn'
  BY <1>34, Names DEF CancelTimeout, At, Return, Goto, Close
<1>35. ASSUME NEW c \in Configs, ConfigStart(c)
       PROVE  OneTurn'
  BY <1>35, Names DEF ConfigStart, At, Return, Goto, Close
<1>36. ASSUME NEW c \in Configs, ConfigAnswered(c)
       PROVE  OneTurn'
  BY <1>36, Names DEF ConfigAnswered, At, Return, Goto, Close
<1>37. ASSUME NEW c \in Configs, ConfigEmit(c)
       PROVE  OneTurn'
  BY <1>37, Names DEF ConfigEmit, At, Return
<1>38. ASSUME LeaseDrop
       PROVE  OneTurn'
  BY <1>38, Names DEF LeaseDrop, At, Return, Goto, Close
<1>39. ASSUME Consume
       PROVE  OneTurn'
  BY <1>39 DEF Consume
<1>40. ASSUME StopReading
       PROVE  OneTurn'
  BY <1>40 DEF StopReading
<1>41. ASSUME NEW n \in Ids, RespondPermission(n)
       PROVE  OneTurn'
  BY <1>41 DEF RespondPermission
<1>42. ASSUME NEW k \in {"update", "permission"}, AgentSends(k)
       PROVE  OneTurn'
  BY <1>42 DEF AgentSends, Queued
<1>43. ASSUME ConnectionLost
       PROVE  OneTurn'
  BY <1>43 DEF ConnectionLost
<1>44. ASSUME NEW o \in Reasons \cup {"agent"}, AgentAnswer(o)
       PROVE  OneTurn'
  BY <1>44 DEF AgentAnswer, Queued, Outcomes, Reasons, Errors, Turns
<1>45. QED
  BY <1>1, <1>2, <1>3, <1>4, <1>5, <1>6, <1>7, <1>8, <1>9, <1>10, <1>11, <1>12,
     <1>13, <1>14, <1>15, <1>16, <1>17, <1>18, <1>19, <1>20, <1>21, <1>22, <1>23,
     <1>24, <1>25, <1>26, <1>27, <1>28, <1>29, <1>30, <1>31, <1>32, <1>33, <1>34,
     <1>35, <1>36, <1>37, <1>38, <1>39, <1>40, <1>41, <1>42, <1>43, <1>44
  DEF Next, WorkerNext, WorkerStep, CloseStep, CallNext, PromptStep, StopperStep,
      ConfigStep, AppNext, AgentNext

\* A stuttering step keeps the turn.
LEMMA OneTurnStands ==
  ASSUME OneTurn, UNCHANGED vars
  PROVE  OneTurn'
BY DEF OneTurn, vars, handleVars, queueVars, callVars, agentVars

\* One turn at a time reaches the worker and the agent (session.rs:340).
LEMMA SessionHasOneTurn == Spec => []OneTurn
<1>1. Init => OneTurn
  BY OneTurnStart
<1>2. Typed /\ OneTurn /\ [Next]_vars => OneTurn'
  BY OneTurnKept, OneTurnStands
<1>3. QED BY <1>1, <1>2, SessionTyped, PTL DEF Spec

\* Completions carry no identity, and yet each one is about the turn the worker is
\* in: no prompt is sent to an agent that owes an answer to another, however
\* prompts, drops, timeouts and closes interleave.
THEOREM OneTurnReachesTheAgent == Spec => []OneTurnAtTheAgent
<1>1. Typed /\ OneTurn => OneTurnAtTheAgent
  <2> SUFFICES ASSUME OneTurn PROVE OneTurnAtTheAgent
    OBVIOUS
  <2>1. Len(completions) <= 1 /\ (completions # <<>> =>
                                   Head(completions).prompt = worker.active)
    <3>1. CASE completions = <<>>
      BY <3>1
    <3>2. CASE completions # <<>>
      <4>1. PICK o \in Outcomes :
              completions = <<[prompt |-> worker.active, outcome |-> o]>>
        BY <3>2 DEF OneTurn
      <4>2. QED BY <4>1
    <3>3. QED BY <3>1, <3>2
  <2>2. QED
    BY <2>1 DEF OneTurn, OneTurnAtTheAgent, Working
<1>2. QED BY <1>1, SessionTyped, SessionHasOneTurn, PTL

--------------------------------------------------------------------------------
(* What a call does beside its own affairs *)

\* A call may close or deny what is pending; otherwise it leaves the worker, its mail
\* and the stream alone. Only set_config_option emits.
LEMMA CallsKeepOut ==
  ASSUME CallNext
  PROVE  \/ \E c \in Configs : ConfigEmit(c)
         \/ /\ UNCHANGED <<open, stream, worker, inbox, sent, owner>>
            /\ permissions' \in {permissions, {}}
            /\ \/ UNCHANGED closing
               \/ \E p \in Procs, e \in Errors : \E s : Close(p, e, s)
<1> USE DEF callFrame, outVars, permVars
<1> DEFINE Out == /\ UNCHANGED <<open, stream, worker, inbox, sent, owner>>
                  /\ permissions' \in {permissions, {}}
                  /\ \/ UNCHANGED closing
                     \/ \E p \in Procs, e \in Errors : \E s : Close(p, e, s)
<1>1. ASSUME NEW p \in Prompts, PromptStep(p) \/ PromptTimeout(p) \/ PromptDrop(p)
      PROVE  Out
  BY <1>1, Names
  DEF PromptStep, PromptStart, PromptReserve, PromptSend, PromptReceive, PromptGuard,
      PromptTimeout, PromptDrop, Errors
<1>2. ASSUME NEW c \in Stoppers, StopperStep(c) \/ CancelTimeout(c)
      PROVE  Out
  BY <1>2, Names
  DEF StopperStep, CloseStart, CancelStart, CancelTurn, CancelNotify, CancelQuiet,
      CloseAnswered, CancelTimeout, Deny, Errors
<1>3. ASSUME NEW c \in Configs, ConfigStart(c) \/ ConfigAnswered(c)
      PROVE  Out
  BY <1>3, Names DEF ConfigStart, ConfigAnswered, Errors
<1>4. ASSUME LeaseDrop
      PROVE  Out
  BY <1>4, Names DEF LeaseDrop, Errors
<1> HIDE DEF Out
<1>5. Out \/ \E c \in Configs : ConfigEmit(c)
  BY <1>1, <1>2, <1>3, <1>4 DEF CallNext, ConfigStep
<1>6. QED BY <1>5 DEF Out

--------------------------------------------------------------------------------
(* What was shown *)

\* An emit adds the item to the stream or leaves the stream alone.
LEMMA EmitShows ==
  ASSUME NEW p, NEW item, Emit(p, item)
  PROVE  \/ Sendable /\ stream' = Append(stream, item)
         \/ ~Sendable /\ stream' = stream
BY DEF Emit, Sendable

\* A stream that got one more item shows what it showed before.
LEMMA Appended ==
  ASSUME Typed, NEW item, stream' \in {stream, Append(stream, item)}
  PROVE  /\ Len(stream) <= Len(stream') /\ Len(stream') \in Nat /\ Len(stream) \in Nat
         /\ \A i \in 1..Len(stream) : i \in 1..Len(stream') /\ stream'[i] = stream[i]
         /\ \A i \in 1..Len(stream') :
              \/ i \in 1..Len(stream)
              \/ i = Len(stream) + 1 /\ stream'[i] = item
BY DEF Typed, StreamTyped

\* Every item comes from one of six places.
LEMMA WhatIsShown ==
  ASSUME Next
  PROVE  \/ UNCHANGED stream
         \/ \E item :
              /\ Sendable /\ stream' = Append(stream, item)
              /\ \/ PollUpdate
                      /\ item = Item(turn.current, "update", owner[Head(inbox).id], 0)
                 \/ AskPermission
                      /\ item = Item(turn.current, "permission", owner[worker.ask],
                                     worker.ask)
                 \/ Finish /\ item = Item(turn.current, TerminalKind(worker.outcome),
                                          worker.active, 0)
                 \/ \E p \in Procs :
                      /\ CloseTakeEvents(p)
                      /\ item = Item(closing[p].request, "error", closing[p].request, 0)
                 \/ \E c \in Configs :
                      ConfigEmit(c) /\ item = Item(about[c], "config", None, 0)
<1> USE DEF workerFrame, appFrame, peerFrame, outVars
<1>1. CASE UNCHANGED stream
  BY <1>1
<1>2. CASE PollUpdate
  BY <1>2, EmitShows DEF PollUpdate
<1>3. CASE AskPermission
  BY <1>3, EmitShows DEF AskPermission
<1>4. CASE Finish
  BY <1>4, EmitShows DEF Finish
<1>5. CASE \E p \in Procs : CloseTakeEvents(p)
  BY <1>5 DEF CloseTakeEvents
<1>6. CASE \E c \in Configs : ConfigEmit(c)
  BY <1>6, EmitShows DEF ConfigEmit
<1>7. WorkerNext => UNCHANGED stream \/ PollUpdate \/ AskPermission \/ Finish
  BY DEF WorkerNext, WorkerStep, WorkerTop, PollClosed, PollPermission,
         InsertPermission, PollEmpty, PollCompletion, PollCommand, SendPrompt, Park,
         FreeTurn, Settle, WorkerFails, PollExpiry
<1>8. \A p \in Procs : CloseStep(p) => UNCHANGED stream \/ CloseTakeEvents(p)
  BY DEF CloseStep, CloseEnter, CloseReadTurn, CloseSettle
<1>9. CallNext => UNCHANGED stream \/ \E c \in Configs : ConfigEmit(c)
  BY CallsKeepOut
<1>10. AppNext \/ AgentNext => UNCHANGED stream
  BY DEF AppNext, Consume, StopReading, RespondPermission, AgentNext, AgentSends,
         ConnectionLost, AgentAnswer
<1>11. QED
  BY <1>1, <1>2, <1>3, <1>4, <1>5, <1>6, <1>7, <1>8, <1>9, <1>10 DEF Next

\* A turn that was concluded stays so.
LEMMA ConcludedStays ==
  ASSUME Typed, [Next]_vars, NEW r, Concluded(r)
  PROVE  Concluded(r)'
<1>1. PICK item : stream' \in {stream, Append(stream, item)}
  BY WhatIsShown DEF vars, outVars
<1>2. QED
  BY <1>1, Appended DEF Concluded, Terminal

--------------------------------------------------------------------------------
(* What the agent sent *)

\* A message of no turn, of the one the worker is in, or a late one: its turn has had
\* its terminal event.
Belongs(o) == o \in {None, worker.active} \/ Concluded(o)

\* The worker has a permission request in its hands.
Asking == worker.pc \in {"insert", "ask"}

\* What lies in the inbox and what the worker has in its hands belongs to the worker's
\* turn or is late, and by the time the worker leaves its turn it is late.
Mail ==
  /\ \A i \in DOMAIN inbox : inbox[i].id <= sent /\ Belongs(owner[inbox[i].id])
  /\ Asking => worker.ask <= sent /\ Belongs(owner[worker.ask])
  /\ worker.pc \in {"reset", "settle"} => Concluded(worker.active)

\* No message is on its way when the session is created.
LEMMA MailStart ==
  ASSUME Init
  PROVE  Mail
BY DEF Init, Mail, Asking

\* Nothing arrives, and the worker keeps its turn or gives up a concluded one.
LEMMA MailCarries ==
  ASSUME Typed, Mail, [Next]_vars, UNCHANGED <<sent, owner>>,
         worker'.active = worker.active \/ worker.active = None
           \/ Concluded(worker.active),
         \A j \in DOMAIN inbox' : \E i \in DOMAIN inbox : inbox'[j] = inbox[i],
         \/ ~Asking'
         \/ worker'.ask = worker.ask /\ Asking
         \/ \E i \in DOMAIN inbox : worker'.ask = inbox[i].id,
         worker'.pc \in {"reset", "settle"} => Concluded(worker.active)
                                                 /\ worker'.active = worker.active
  PROVE  Mail'
<1> DEFINE Late(r) == \E k \in 1..Len(stream') : /\ stream'[k].kind \in Reasons \cup {"error"}
                                                 /\ stream'[k].request = r
           Sorted(r) == r \in {None, worker'.active} \/ Late(r)
<1>1. \A r : Concluded(r) => Late(r)
  BY ConcludedStays DEF Concluded, Terminal
<1>2. \A o : Belongs(o) => Sorted(o)
  BY <1>1 DEF Belongs
<1>3. ASSUME NEW j \in DOMAIN inbox'
      PROVE  inbox'[j].id <= sent' /\ Sorted(owner'[inbox'[j].id])
  BY <1>2 DEF Mail
<1>4. ASSUME Asking'
      PROVE  worker'.ask <= sent' /\ Sorted(owner'[worker'.ask])
  BY <1>2, <1>4 DEF Mail
<1>5. worker'.pc \in {"reset", "settle"} => Late(worker'.active)
  BY <1>1
<1>6. QED
  BY <1>3, <1>4, <1>5 DEF Mail, Belongs, Concluded, Terminal

\* The worker's turn was concluded by this very step.
LEMMA MailStays ==
  ASSUME Typed, Mail, [Next]_vars, UNCHANGED <<inbox, sent, owner>>, ~Asking',
         worker'.active = worker.active, Concluded(worker.active)'
  PROVE  Mail'
<1> DEFINE Late(r) == \E k \in 1..Len(stream') : /\ stream'[k].kind \in Reasons \cup {"error"}
                                                 /\ stream'[k].request = r
           Sorted(r) == r \in {None, worker'.active} \/ Late(r)
<1>1. \A r : Concluded(r) => Late(r)
  BY ConcludedStays DEF Concluded, Terminal
<1>2. \A o : Belongs(o) => Sorted(o)
  BY <1>1 DEF Belongs
<1>3. ASSUME NEW j \in DOMAIN inbox
      PROVE  inbox[j].id <= sent /\ Sorted(owner[inbox[j].id])
  BY <1>2 DEF Mail
<1>4. QED
  BY <1>3 DEF Mail, Belongs, Concluded, Terminal

\* Each step keeps the mail sorted.
LEMMA MailKept ==
  ASSUME Typed, OneTurn, Mail, Next
  PROVE  Mail'
<1> USE DEF Typed, WorkerTyped, QueuesTyped, Asking, workerFrame, queueVars, agentVars,
            callFrame, appFrame, peerFrame, outVars
<1> HIDE DEF Next
<1>1. CASE WorkerTop
  BY <1>1, MailCarries DEF WorkerTop
<1>2. CASE PollClosed
  <2>1. CASE Die
    BY <1>2, <2>1, MailCarries DEF PollClosed, Die
  <2>2. CASE /\ UNCHANGED queueVars
             /\ worker' = [worker EXCEPT !.pc = "failed",
                             !.outcome = IF lost # None THEN lost ELSE "closed"]
    BY <1>2, <2>2, MailCarries DEF PollClosed
  <2>3. QED
    BY <1>2, <2>1, <2>2 DEF PollClosed
<1>3. CASE PollUpdate
  BY <1>3, MailCarries DEF PollUpdate, Reads, Emitted
<1>4. CASE PollPermission
  <2>1. Head(inbox) = inbox[1] /\ 1 \in DOMAIN inbox /\ inbox' = Tail(inbox)
    BY <1>4 DEF PollPermission, Reads
  <2>2. \A j \in DOMAIN inbox' : \E i \in DOMAIN inbox : inbox'[j] = inbox[i]
    BY <2>1
  <2>3. \/ worker' = [worker EXCEPT !.pc = "top"]
        \/ worker' = [worker EXCEPT !.pc = "insert", !.ask = Head(inbox).id]
    BY <1>4 DEF PollPermission
  <2>4. /\ worker'.active = worker.active /\ worker'.pc \notin {"reset", "settle"}
        /\ Asking' => worker'.ask = Head(inbox).id
    BY <2>3
  <2>5. QED
    BY <1>4, <2>1, <2>2, <2>4, MailCarries DEF PollPermission
<1>5. CASE InsertPermission
  BY <1>5, MailCarries DEF InsertPermission
<1>6. CASE AskPermission
  BY <1>6, MailCarries DEF AskPermission
<1>7. CASE PollEmpty
  BY <1>7, MailCarries DEF PollEmpty
<1>8. CASE PollCompletion
  BY <1>8, MailCarries DEF PollCompletion
<1>9. CASE PollCommand
  BY <1>9, MailCarries DEF PollCommand, CanAccept
<1>10. CASE SendPrompt
  BY <1>10, MailCarries DEF SendPrompt
<1>11. CASE Park
  BY <1>11, MailCarries DEF Park
<1>12. CASE Finish
  <2>1. CASE Sendable
    <3> DEFINE item == Item(turn.current, TerminalKind(worker.outcome), worker.active, 0)
    <3>1. /\ stream' = Append(stream, item) /\ UNCHANGED <<inbox, sent, owner>>
          /\ worker' = [worker EXCEPT !.pc = "reset", !.outcome = @]
      BY <1>12, <2>1, EmitShows DEF Finish, Emitted
    <3>2. item.request = worker.active /\ item.kind \in Reasons \cup {"error"}
      BY <1>12 DEF Finish, OneTurn, Item, TerminalKind
    <3>3. worker'.active = worker.active /\ worker'.pc = "reset"
      BY <3>1
    <3> HIDE DEF item
    <3>4. Concluded(worker.active)'
      <4>1. Len(stream') \in 1..Len(stream') /\ stream'[Len(stream')] = item
        BY <3>1 DEF Typed, StreamTyped
      <4>2. QED
        BY <3>2, <3>3, <4>1 DEF Concluded, Terminal
    <3>5. QED
      BY <3>1, <3>3, <3>4, MailStays
  <2>2. CASE ~Sendable
    BY <1>12, <2>2, MailCarries DEF Finish, Emitted
  <2>3. QED BY <2>1, <2>2
<1>13. CASE FreeTurn
  BY <1>13, MailCarries DEF FreeTurn, Mail
<1>14. CASE Settle
  BY <1>14, MailCarries DEF Settle, Mail
<1>15. CASE WorkerFails
  BY <1>15, MailCarries DEF WorkerFails, Die
<1>16. CASE \E n \in Ids : PollExpiry(n)
  BY <1>16, MailCarries DEF PollExpiry
<1>17. CASE \E p \in Procs : CloseStep(p)
  BY <1>17, MailCarries
  DEF CloseStep, CloseEnter, CloseReadTurn, CloseTakeEvents, CloseSettle, Mail
<1>18. CASE CallNext
  BY <1>18, MailCarries, CallsKeepOut DEF ConfigEmit, Mail
<1>19. CASE AppNext
  BY <1>19, MailCarries DEF AppNext, Consume, StopReading, RespondPermission, Mail
<1>20. CASE ConnectionLost \/ \E o \in Reasons \cup {"agent"} : AgentAnswer(o)
  BY <1>20, MailCarries DEF ConnectionLost, AgentAnswer, Mail
<1>21. ASSUME NEW k \in {"update", "permission"}, AgentSends(k)
       PROVE  Mail'
  <2>1. /\ sent' = sent + 1 /\ sent + 1 \in Ids
        /\ owner' = [owner EXCEPT ![sent + 1] = agent.prompt]
        /\ UNCHANGED <<stream, worker>>
    BY <1>21, SessionConstants DEF SessionConstants, AgentSends, Ids, AgentTyped
  <2>2. \A n \in Ids : n <= sent => owner'[n] = owner[n]
    BY <2>1 DEF Ids, AgentTyped
  <2>3. Belongs(owner'[sent + 1])
    BY <2>1 DEF Belongs, OneTurn, AgentTyped
  <2>4. \/ inbox' = inbox
        \/ inbox' = Append(inbox, [kind |-> k, id |-> sent + 1])
    BY <1>21 DEF AgentSends, Queued
  <2>5. ASSUME NEW i \in DOMAIN inbox'
        PROVE  inbox'[i].id <= sent' /\ Belongs(owner'[inbox'[i].id])
    <3>1. CASE i \in DOMAIN inbox /\ inbox'[i] = inbox[i]
      <4>1. inbox[i].id \in Ids /\ inbox[i].id <= sent /\ Belongs(owner[inbox[i].id])
        <5>1. inbox[i] \in Messages
          BY <3>1
        <5>2. QED BY <3>1, <5>1 DEF Mail, Messages
      <4>2. owner'[inbox'[i].id] = owner[inbox[i].id] /\ inbox'[i].id <= sent'
        BY <2>1, <2>2, <3>1, <4>1 DEF Ids, AgentTyped
      <4>3. QED BY <4>1, <4>2
    <3>2. CASE inbox'[i].id = sent + 1
      BY <2>1, <2>3, <3>2 DEF AgentTyped
    <3>3. CASE inbox' = inbox
      BY <3>1, <3>3
    <3>4. CASE inbox' = Append(inbox, [kind |-> k, id |-> sent + 1])
      <4>1. \/ i \in DOMAIN inbox /\ inbox'[i] = inbox[i]
            \/ inbox'[i] = [kind |-> k, id |-> sent + 1]
        BY <3>4
      <4>2. QED BY <3>1, <3>2, <4>1
    <3>5. QED
      BY <2>4, <3>3, <3>4
  <2>6. worker.pc \in {"insert", "ask"} =>
          worker.ask <= sent' /\ Belongs(owner'[worker.ask])
    BY <2>1, <2>2 DEF Mail, AgentTyped
  <2>7. QED
    BY <2>1, <2>5, <2>6 DEF Mail, Belongs, Concluded
<1>22. QED
  BY <1>1, <1>2, <1>3, <1>4, <1>5, <1>6, <1>7, <1>8, <1>9, <1>10, <1>11, <1>12, <1>13,
     <1>14, <1>15, <1>16, <1>17, <1>18, <1>19, <1>20, <1>21
  DEF Next, WorkerNext, WorkerStep, AgentNext

\* A stuttering step keeps the mail of the agent.
LEMMA MailStands ==
  ASSUME Mail, UNCHANGED vars
  PROVE  Mail'
BY DEF Mail, Belongs, Asking, Concluded, Terminal, vars, outVars, queueVars, agentVars

\* What the worker reads is of its own turn or late (session.rs:537).
LEMMA SessionSortsItsMail == Spec => []Mail
<1>1. Init => Mail
  BY MailStart
<1>2. Typed /\ OneTurn /\ Mail /\ [Next]_vars => Mail'
  BY MailKept, MailStands
<1>3. QED BY <1>1, <1>2, SessionTyped, SessionHasOneTurn, PTL DEF Spec

\* An item the step adds is tagged with its own turn, or its turn is over.
LEMMA NoneStrays ==
  ASSUME Typed, OneTurn, Mail, Next, OnlyLateOnesStray
  PROVE  OnlyLateOnesStray'
<1> DEFINE Kept(item) == item.kind \in {"update", "permission"} /\ item.of # None =>
                           item.request = item.of \/ Concluded(item.of)
<1>1. CASE UNCHANGED stream
  BY <1>1 DEF OnlyLateOnesStray
<1>2. ASSUME NEW item, stream' = Append(stream, item), Kept(item)
      PROVE  OnlyLateOnesStray'
  BY <1>2, Appended DEF OnlyLateOnesStray, Concluded, Terminal
<1>3. ASSUME PollUpdate
      PROVE  Kept(Item(turn.current, "update", owner[Head(inbox).id], 0))
  <2>1. worker.pc = "poll" /\ 1 \in DOMAIN inbox /\ Head(inbox) = inbox[1]
    BY <1>3 DEF PollUpdate, Reads, Typed, QueuesTyped
  <2>2. Belongs(owner[Head(inbox).id]) /\ turn.current = worker.active
    BY <2>1 DEF Mail, OneTurn
  <2>3. QED BY <2>2 DEF Belongs, Item
<1>4. ASSUME AskPermission
      PROVE  Kept(Item(turn.current, "permission", owner[worker.ask], worker.ask))
  BY <1>4 DEF AskPermission, Mail, Asking, Belongs, OneTurn, Item
<1>5. /\ Kept(Item(turn.current, TerminalKind(worker.outcome), worker.active, 0))
      /\ \A r : Kept(Item(r, "error", r, 0)) /\ Kept(Item(r, "config", None, 0))
  BY DEF Item, TerminalKind, Reasons
<1> HIDE DEF Kept
<1>6. QED
  BY <1>1, <1>2, <1>3, <1>4, <1>5, WhatIsShown

\* What strays from one turn into another comes late: its own turn's end is in the
\* stream before it, however the worker's polls, the agent and the SDK's queues race.
THEOREM OnlyLateMailStrays == Spec => []OnlyLateOnesStray
<1>1. Init => OnlyLateOnesStray
  BY DEF Init, OnlyLateOnesStray
<1>2. Typed /\ OneTurn /\ Mail /\ OnlyLateOnesStray /\ [Next]_vars => OnlyLateOnesStray'
  <2>1. OnlyLateOnesStray /\ UNCHANGED vars => OnlyLateOnesStray'
    BY DEF OnlyLateOnesStray, Terminal, vars, outVars
  <2>2. QED BY <2>1, NoneStrays
<1>3. QED
  BY <1>1, <1>2, SessionTyped, SessionHasOneTurn, SessionSortsItsMail, PTL DEF Spec

--------------------------------------------------------------------------------
(* Questions *)

\* The agent's messages are read in the order they were sent: what was asked in the
\* stream, what the worker has in its hands and what is in the inbox follow each other.
InOrder ==
  /\ \A i \in DOMAIN inbox : inbox[i].id <= sent
  /\ \A i, j \in DOMAIN inbox : i < j => inbox[i].id < inbox[j].id
  /\ Asking =>
       /\ worker.ask <= sent
       /\ \A i \in DOMAIN inbox : worker.ask < inbox[i].id
  /\ \A k \in 1..Len(stream) :
       stream[k].kind = "permission" =>
         /\ stream[k].id <= sent
         /\ \A i \in DOMAIN inbox : stream[k].id < inbox[i].id
         /\ Asking => stream[k].id < worker.ask

\* Nothing is on its way when the session is created.
LEMMA InOrderStart ==
  ASSUME Init
  PROVE  InOrder
BY DEF Init, InOrder, Asking

\* Message ids are numbers.
LEMMA NumbersTyped ==
  ASSUME Typed
  PROVE  /\ sent \in Int /\ worker.ask \in Int
         /\ \A i \in DOMAIN inbox : inbox[i] \in Messages /\ inbox[i].id \in Int
         /\ \A k \in 1..Len(stream) : stream[k].id \in Int
<1>1. MaxMessages \in Nat
  BY SessionConstants DEF SessionConstants
<1>2. sent \in Int /\ worker.ask \in Int
  BY <1>1 DEF Typed, AgentTyped, WorkerTyped
<1>3. \A m \in Messages : m.id \in Int
  BY <1>1 DEF Messages, Ids
<1>4. \A i \in DOMAIN inbox : inbox[i] \in Messages
  BY DEF Typed, QueuesTyped
<1>5. \A m \in Items : m.id \in Int
  BY <1>1 DEF Items
<1>6. \A k \in 1..Len(stream) : stream[k] \in Items
  BY DEF Typed, StreamTyped
<1>7. QED BY <1>2, <1>3, <1>4, <1>5, <1>6

\* A step that shows no new question.
AsksNothing ==
  \A k \in 1..Len(stream') : stream'[k].kind = "permission" =>
    k \in 1..Len(stream) /\ stream'[k] = stream[k]

\* So does one that shows nothing or something else.
LEMMA OthersAskNothing ==
  ASSUME Typed, NEW item, stream' \in {stream, Append(stream, item)},
         item.kind # "permission"
  PROVE  AsksNothing
BY Appended DEF AsksNothing

\* And one that leaves the stream alone.
LEMMA SilenceAsksNothing ==
  ASSUME UNCHANGED stream
  PROVE  AsksNothing
BY DEF AsksNothing

\* The worker may take the next message in its hands and show the one it has.
LEMMA InOrderCarries ==
  ASSUME Typed, InOrder, UNCHANGED sent,
         inbox' \in {inbox, <<>>} \/ (inbox # <<>> /\ inbox' = Tail(inbox)),
         \/ ~Asking'
         \/ Asking /\ worker'.ask = worker.ask /\ inbox' = inbox
         \/ inbox # <<>> /\ inbox' = Tail(inbox) /\ worker'.ask = Head(inbox).id,
         \/ AsksNothing
         \/ /\ Asking /\ ~Asking' /\ inbox' = inbox
            /\ \A k \in 1..Len(stream') :
                 \/ k \in 1..Len(stream) /\ stream'[k] = stream[k]
                 \/ stream'[k].id = worker.ask
  PROVE  InOrder'
<1>1. /\ sent \in Int /\ inbox \in Seq(Messages) /\ worker.ask \in Int
      /\ \A i \in DOMAIN inbox : inbox[i].id \in Int
  BY NumbersTyped DEF Typed, QueuesTyped
<1>2. /\ Len(stream) \in Nat /\ \A k \in 1..Len(stream) : stream[k].id \in Int
  BY NumbersTyped DEF Typed, StreamTyped
<1>3. ASSUME NEW k \in 1..Len(stream'), stream'[k].kind = "permission"
      PROVE  \/ /\ k \in 1..Len(stream) /\ stream'[k] = stream[k]
                /\ stream'[k].id <= sent
                /\ \A i \in DOMAIN inbox : stream'[k].id < inbox[i].id
                /\ Asking => stream'[k].id < worker.ask
             \/ /\ Asking /\ ~Asking' /\ stream'[k].id = worker.ask /\ inbox' = inbox
  <2>1. CASE k \in 1..Len(stream) /\ stream'[k] = stream[k]
    BY <1>3, <2>1 DEF InOrder
  <2>2. QED BY <1>3, <2>1 DEF AsksNothing
<1>4. CASE inbox' = inbox /\ (~Asking' \/ (Asking /\ worker'.ask = worker.ask))
  BY <1>1, <1>3, <1>4 DEF InOrder, Asking
<1>5. CASE inbox' = <<>> /\ ~Asking'
  BY <1>1, <1>3, <1>5 DEF InOrder, Asking
<1>6. CASE inbox # <<>> /\ inbox' = Tail(inbox) /\ inbox' # inbox
             /\ (~Asking' \/ worker'.ask = Head(inbox).id)
  <2>1. /\ \A j \in DOMAIN inbox' : j + 1 \in DOMAIN inbox /\ inbox'[j] = inbox[j + 1]
                                    /\ 1 < j + 1 /\ j \in Int
        /\ 1 \in DOMAIN inbox /\ Head(inbox) = inbox[1]
    BY <1>1, <1>6
  <2>2. \A j \in DOMAIN inbox' : inbox'[j].id <= sent /\ inbox[1].id < inbox'[j].id
    BY <2>1 DEF InOrder
  <2>3. \A i, j \in DOMAIN inbox' : i < j => inbox'[i].id < inbox'[j].id
    BY <2>1 DEF InOrder
  <2>4. Asking' => worker'.ask <= sent /\ \A j \in DOMAIN inbox' : worker'.ask < inbox'[j].id
    BY <1>6, <2>1, <2>2 DEF InOrder
  <2>5. \A k \in 1..Len(stream') : stream'[k].kind = "permission" =>
          /\ stream'[k].id <= sent
          /\ \A j \in DOMAIN inbox' : stream'[k].id < inbox'[j].id
          /\ Asking' => stream'[k].id < worker'.ask
    BY <1>3, <1>6, <2>1
  <2>6. QED BY <2>2, <2>3, <2>4, <2>5 DEF InOrder, Asking
<1>7. QED
  BY <1>1, <1>4, <1>5, <1>6

\* Each step keeps the order.
LEMMA InOrderKept ==
  ASSUME Typed, InOrder, Next
  PROVE  InOrder'
<1> USE DEF workerFrame, queueVars, agentVars, callFrame, appFrame, peerFrame, outVars
<1>1. CASE \/ WorkerTop \/ PollEmpty \/ PollCompletion \/ PollCommand \/ SendPrompt
           \/ Park \/ FreeTurn \/ Settle \/ \E n \in Ids : PollExpiry(n)
  <2>1. UNCHANGED <<sent, inbox, stream>>
    BY <1>1
    DEF WorkerTop, PollEmpty, PollCompletion, PollCommand, SendPrompt, Park, FreeTurn,
        Settle, PollExpiry
  <2>2. ~Asking'
    BY <1>1
    DEF WorkerTop, PollEmpty, PollCompletion, PollCommand, SendPrompt, Park, FreeTurn,
        Settle, PollExpiry, Typed, WorkerTyped, Asking
  <2>3. AsksNothing
    BY <2>1, SilenceAsksNothing
  <2>4. QED BY <2>1, <2>2, <2>3, InOrderCarries
<1>2. CASE PollClosed
  <2>1. UNCHANGED <<sent, stream>> /\ inbox' \in {inbox, <<>>}
    BY <1>2 DEF PollClosed, Die
  <2>2. ~Asking'
    BY <1>2 DEF PollClosed, Die, Typed, WorkerTyped, Asking
  <2>3. AsksNothing
    BY <2>1, SilenceAsksNothing
  <2>4. QED BY <2>1, <2>2, <2>3, InOrderCarries
<1>3. CASE PollUpdate
  <2> DEFINE item == Item(turn.current, "update", owner[Head(inbox).id], 0)
  <2>1. UNCHANGED sent /\ inbox # <<>> /\ inbox' = Tail(inbox)
    BY <1>3 DEF PollUpdate, Reads
  <2>2. ~Asking'
    BY <1>3 DEF PollUpdate, Emitted, Typed, WorkerTyped, Asking
  <2>3. stream' \in {stream, Append(stream, item)} /\ item.kind # "permission"
    BY <1>3, EmitShows DEF PollUpdate, Item
  <2> HIDE DEF item
  <2>4. AsksNothing
    BY <2>3, OthersAskNothing
  <2>5. QED BY <2>1, <2>2, <2>4, InOrderCarries
<1>4. CASE PollPermission
  <2>1. UNCHANGED <<sent, stream>> /\ inbox # <<>> /\ inbox' = Tail(inbox)
    BY <1>4 DEF PollPermission, Reads
  <2>2. \/ worker' = [worker EXCEPT !.pc = "top"]
        \/ worker' = [worker EXCEPT !.pc = "insert", !.ask = Head(inbox).id]
    BY <1>4 DEF PollPermission
  <2>3. ~Asking' \/ worker'.ask = Head(inbox).id
    BY <2>2 DEF Typed, WorkerTyped, Asking
  <2>4. AsksNothing
    BY <2>1, SilenceAsksNothing
  <2>5. QED BY <2>1, <2>3, <2>4, InOrderCarries
<1>5. CASE InsertPermission
  BY <1>5 DEF InsertPermission, InOrder, Typed, WorkerTyped, Asking
<1>6. CASE AskPermission
  <2> DEFINE item == Item(turn.current, "permission", owner[worker.ask], worker.ask)
  <2>1. UNCHANGED <<sent, inbox>> /\ Asking
    BY <1>6 DEF AskPermission, Asking
  <2>2. ~Asking'
    BY <1>6 DEF AskPermission, Typed, WorkerTyped, Asking
  <2>3. stream' \in {stream, Append(stream, item)} /\ item.id = worker.ask
    BY <1>6, EmitShows DEF AskPermission, Item
  <2> HIDE DEF item
  <2>4. \A k \in 1..Len(stream') :
          (k \in 1..Len(stream) /\ stream'[k] = stream[k]) \/ stream'[k].id = worker.ask
    BY <2>3, Appended
  <2>5. QED BY <2>1, <2>2, <2>4, InOrderCarries
<1>7. CASE Finish
  <2> DEFINE item == Item(turn.current, TerminalKind(worker.outcome), worker.active, 0)
  <2>1. UNCHANGED <<sent, inbox>>
    BY <1>7 DEF Finish
  <2>2. ~Asking'
    BY <1>7 DEF Finish, Emitted, Typed, WorkerTyped, Asking
  <2>3. stream' \in {stream, Append(stream, item)} /\ item.kind # "permission"
    BY <1>7, EmitShows DEF Finish, Item, TerminalKind, Reasons
  <2> HIDE DEF item
  <2>4. AsksNothing
    BY <2>3, OthersAskNothing
  <2>5. QED BY <2>1, <2>2, <2>4, InOrderCarries
<1>8. CASE WorkerFails
  <2>1. UNCHANGED <<sent, stream>> /\ inbox' = <<>>
    BY <1>8 DEF WorkerFails, Die
  <2>2. ~Asking'
    BY <1>8 DEF WorkerFails, Die, Typed, WorkerTyped, Asking
  <2>3. AsksNothing
    BY <2>1, SilenceAsksNothing
  <2>4. QED BY <2>1, <2>2, <2>3, InOrderCarries
<1>9. ASSUME NEW p \in Procs, CloseStep(p)
      PROVE  InOrder'
  <2> DEFINE item == Item(closing[p].request, "error", closing[p].request, 0)
  <2>1. UNCHANGED <<sent, inbox, worker>>
    BY <1>9 DEF CloseStep, CloseEnter, CloseReadTurn, CloseTakeEvents, CloseSettle
  <2>2. stream' \in {stream, Append(stream, item)} /\ item.kind # "permission"
    BY <1>9 DEF CloseStep, CloseEnter, CloseReadTurn, CloseTakeEvents, CloseSettle, Item
  <2>3. Asking' => Asking
    BY <2>1 DEF Asking
  <2> HIDE DEF item
  <2>4. AsksNothing
    BY <2>2, OthersAskNothing
  <2>5. QED BY <2>1, <2>3, <2>4, InOrderCarries
<1>10. ASSUME NEW c \in Configs, ConfigEmit(c)
       PROVE  InOrder'
  <2> DEFINE item == Item(about[c], "config", None, 0)
  <2>1. UNCHANGED <<sent, inbox, worker>>
    BY <1>10 DEF ConfigEmit
  <2>2. stream' \in {stream, Append(stream, item)} /\ item.kind # "permission"
    BY <1>10, EmitShows DEF ConfigEmit, Item
  <2>3. Asking' => Asking
    BY <2>1 DEF Asking
  <2> HIDE DEF item
  <2>4. AsksNothing
    BY <2>2, OthersAskNothing
  <2>5. QED BY <2>1, <2>3, <2>4, InOrderCarries
<1>11. CASE UNCHANGED <<sent, inbox, worker, stream>>
  BY <1>11 DEF InOrder, Asking
<1>12. CASE AppNext \/ ConnectionLost \/ \E o \in Reasons \cup {"agent"} : AgentAnswer(o)
  BY <1>11, <1>12
  DEF AppNext, Consume, StopReading, RespondPermission, ConnectionLost, AgentAnswer
<1>13. ASSUME NEW k \in {"update", "permission"}, AgentSends(k)
       PROVE  InOrder'
  <2>1. /\ sent' = sent + 1 /\ UNCHANGED <<stream, worker>>
        /\ inbox' \in {inbox, Append(inbox, [kind |-> k, id |-> sent + 1])}
    BY <1>13 DEF AgentSends, Queued
  <2>2. /\ sent \in Int /\ \A i \in DOMAIN inbox : inbox[i].id \in Int
        /\ \A i \in 1..Len(stream) : stream[i].id \in Int
        /\ worker.ask \in Int
    BY NumbersTyped
  <2>3. /\ \A i \in DOMAIN inbox' : i \in Int /\
             \/ i \in DOMAIN inbox /\ inbox'[i] = inbox[i]
             \/ inbox'[i].id = sent + 1 /\ \A j \in DOMAIN inbox' : j <= i
    BY <2>1 DEF Typed, QueuesTyped
  <2>4. /\ \A i \in DOMAIN inbox' : inbox'[i].id <= sent'
        /\ \A i, j \in DOMAIN inbox' : i < j => inbox'[i].id < inbox'[j].id
    BY <2>1, <2>2, <2>3 DEF InOrder
  <2>5. Asking => worker.ask <= sent' /\ \A i \in DOMAIN inbox' : worker.ask < inbox'[i].id
    BY <2>1, <2>2, <2>3 DEF InOrder
  <2>6. \A n \in 1..Len(stream) : stream[n].kind = "permission" =>
          stream[n].id <= sent' /\ \A i \in DOMAIN inbox' : stream[n].id < inbox'[i].id
    BY <2>1, <2>2, <2>3 DEF InOrder
  <2>7. QED
    BY <2>1, <2>4, <2>5, <2>6 DEF InOrder, Asking
<1>14. QED
  BY <1>1, <1>2, <1>3, <1>4, <1>5, <1>6, <1>7, <1>8, <1>9, <1>10, <1>11, <1>12, <1>13,
     CallsKeepOut
  DEF Next, WorkerNext, WorkerStep, AgentNext

\* A stuttering step keeps the order.
LEMMA InOrderStands ==
  ASSUME InOrder, UNCHANGED vars
  PROVE  InOrder'
BY DEF InOrder, Asking, vars, outVars, queueVars, agentVars

\* Messages are read in the order they were sent.
LEMMA SessionReadsInOrder == Spec => []InOrder
<1>1. Init => InOrder
  BY InOrderStart
<1>2. Typed /\ InOrder /\ [Next]_vars => InOrder'
  BY InOrderKept, InOrderStands
<1>3. QED BY <1>1, <1>2, SessionTyped, PTL DEF Spec

\* Only InsertPermission makes a request pending.
LEMMA WhatIsPending ==
  ASSUME Next
  PROVE  permissions' \subseteq permissions \/ InsertPermission
<1>1. WorkerNext => permissions' \subseteq permissions \/ InsertPermission
  BY DEF WorkerNext, WorkerStep, WorkerTop, PollClosed, PollUpdate, PollPermission,
         AskPermission, PollEmpty, PollCompletion, PollCommand, SendPrompt, Park, Finish,
         FreeTurn, Settle, WorkerFails, PollExpiry, permVars, Deny
<1>2. \A p \in Procs : CloseStep(p) => permissions' \subseteq permissions
  BY DEF CloseStep, CloseEnter, CloseReadTurn, CloseTakeEvents, CloseSettle, permVars,
         Deny
<1>3. CallNext => permissions' \subseteq permissions
  BY CallsKeepOut DEF ConfigEmit, permVars
<1>4. AppNext \/ AgentNext => permissions' \subseteq permissions
  BY DEF AppNext, Consume, StopReading, RespondPermission, AgentNext, AgentSends,
         ConnectionLost, AgentAnswer, permVars, peerFrame
<1>5. QED BY <1>1, <1>2, <1>3, <1>4 DEF Next

\* The sender is not put back.
LEMMA OpenFalls ==
  ASSUME Next, open'
  PROVE  open
<1> USE DEF lifeVars, workerFrame, appFrame, peerFrame, callFrame
<1>1. WorkerNext => UNCHANGED open
  BY DEF WorkerNext, WorkerStep, WorkerTop, PollClosed, PollUpdate, PollPermission,
         InsertPermission, AskPermission, PollEmpty, PollCompletion, PollCommand,
         SendPrompt, Park, Finish, FreeTurn, Settle, WorkerFails, PollExpiry
<1>2. \A p \in Procs : CloseStep(p) => UNCHANGED open \/ ~open'
  BY DEF CloseStep, CloseEnter, CloseReadTurn, CloseTakeEvents, CloseSettle
<1>3. CallNext => UNCHANGED open
  BY CallsKeepOut DEF ConfigEmit
<1>4. AppNext \/ AgentNext => UNCHANGED open
  BY DEF AppNext, Consume, StopReading, RespondPermission, AgentNext, AgentSends,
         ConnectionLost, AgentAnswer
<1>5. QED BY <1>1, <1>2, <1>3, <1>4 DEF Next

\* A terminal event is the end's, with everything pending denied, or the stream's.
LEMMA QuestionsDie ==
  ASSUME Typed, InOrder, Next, QuestionsEndWithTheTurn
  PROVE  QuestionsEndWithTheTurn'
<1> SUFFICES ASSUME open'
             PROVE  \A i, j \in 1..Len(stream') :
                      i < j /\ stream'[i].kind = "permission"
                        /\ stream'[j].kind \in Reasons \cup {"error"}
                      => stream'[i].id \notin permissions'
  BY DEF QuestionsEndWithTheTurn, Terminal
<1>1. open
  BY OpenFalls
<1>2. \A i, j \in 1..Len(stream) :
        i < j /\ stream[i].kind = "permission" /\ stream[j].kind \in Reasons \cup {"error"}
          => stream[i].id \notin permissions
  BY <1>1 DEF QuestionsEndWithTheTurn, Terminal
<1>3. CASE InsertPermission
  <2>1. /\ UNCHANGED stream /\ permissions' = permissions \cup {worker.ask}
        /\ worker.pc = "insert"
    BY <1>3 DEF InsertPermission
  <2>2. \A k \in 1..Len(stream) : stream[k].kind = "permission" => stream[k].id # worker.ask
    BY <2>1, SessionConstants
    DEF SessionConstants, InOrder, Asking, Typed, StreamTyped, Items, WorkerTyped
  <2>3. QED BY <1>2, <2>1, <2>2
<1>4. CASE permissions' \subseteq permissions /\ UNCHANGED stream
  BY <1>2, <1>4
<1>5. ASSUME NEW item, stream' = Append(stream, item), permissions' \subseteq permissions,
             item.kind \notin Reasons \cup {"error"}
      PROVE  \A i, j \in 1..Len(stream') :
               i < j /\ stream'[i].kind = "permission"
                 /\ stream'[j].kind \in Reasons \cup {"error"}
               => stream'[i].id \notin permissions'
  BY <1>2, <1>5, Appended
<1>6. CASE Finish
  BY <1>6 DEF Finish, Deny
<1>7. CASE PollUpdate \/ AskPermission \/ \E c \in Configs : ConfigEmit(c)
  <2>1. UNCHANGED permissions
    BY <1>7 DEF PollUpdate, AskPermission, ConfigEmit, permVars
  <2>2. \/ UNCHANGED stream
        \/ \E item : stream' = Append(stream, item)
                      /\ item.kind \in {"update", "permission", "config"}
    <3>1. \A r, k, o, n : Item(r, k, o, n).kind = k
      BY DEF Item
    <3>2. CASE PollUpdate
      BY <3>1, <3>2, EmitShows DEF PollUpdate
    <3>3. CASE AskPermission
      BY <3>1, <3>3, EmitShows DEF AskPermission
    <3>4. CASE \E c \in Configs : ConfigEmit(c)
      BY <3>1, <3>4, EmitShows DEF ConfigEmit
    <3>5. QED BY <1>7, <3>2, <3>3, <3>4
  <2>3. CASE UNCHANGED stream
    BY <1>4, <2>1, <2>3
  <2>4. ASSUME NEW item, stream' = Append(stream, item),
               item.kind \in {"update", "permission", "config"}
        PROVE  \A i, j \in 1..Len(stream') :
                 i < j /\ stream'[i].kind = "permission"
                   /\ stream'[j].kind \in Reasons \cup {"error"}
                 => stream'[i].id \notin permissions'
    <3>1. item.kind \notin Reasons \cup {"error"}
      BY <2>4 DEF Reasons
    <3>2. permissions' \subseteq permissions
      BY <2>1
    <3>3. QED BY <1>5, <2>4, <3>1, <3>2
  <2>5. QED BY <2>2, <2>3, <2>4
<1>8. QED
  BY <1>3, <1>4, <1>6, <1>7, WhatIsShown, WhatIsPending
  DEF CloseTakeEvents, InsertPermission

\* A question the stream put before a turn ended is no longer pending, in every
\* interleaving of the worker with the calls, the expiry and the application's answers,
\* while the session is open (session.rs:178: finish denies before it emits).
THEOREM QuestionsAreDead == Spec => []QuestionsEndWithTheTurn
<1>1. Init => QuestionsEndWithTheTurn
  BY DEF Init, QuestionsEndWithTheTurn
<1>2. QuestionsEndWithTheTurn /\ UNCHANGED vars => QuestionsEndWithTheTurn'
  BY DEF QuestionsEndWithTheTurn, Terminal, vars, lifeVars, outVars, permVars
<1>3. Typed /\ InOrder /\ QuestionsEndWithTheTurn /\ [Next]_vars
        => QuestionsEndWithTheTurn'
  BY <1>2, QuestionsDie
<1>4. QED
  BY <1>1, <1>3, SessionTyped, SessionReadsInOrder, PTL DEF Spec

--------------------------------------------------------------------------------
(* The dropped prompt *)

\* A prompt whose future was dropped, once its guard ran, has the connection down, is
\* about to take it down, or no longer holds the turn.
Stopping ==
  \A p \in Prompts : result[p] = "dropped" /\ pc[p] = "done" =>
    down \/ (closing[p].stage # 0 /\ closing[p].stop) \/ turn.reserved # p

\* No prompt was dropped when the session is created.
LEMMA StoppingStart ==
  ASSUME Init
  PROVE  Stopping
BY Names DEF Init, Stopping

\* Each step keeps to it.
LEMMA StoppingKept ==
  ASSUME Typed, OneTurn, Stopping, Next
  PROVE  Stopping'
<1> USE SessionConstants
    DEF SessionConstants, None, handleVars, lifeVars, outVars, permVars, queueVars,
        callVars, connVars, agentVars, workerFrame, callFrame, appFrame, peerFrame,
        Stopping, Typed, TurnTyped, CallsTyped, ClosingTyped, Closing, LinkTyped
<1>1. ASSUME WorkerTop
      PROVE  Stopping'
  BY <1>1 DEF WorkerTop
<1>2. ASSUME PollClosed
      PROVE  Stopping'
  BY <1>2 DEF PollClosed, Die
<1>3. ASSUME PollUpdate
      PROVE  Stopping'
  BY <1>3, Names DEF PollUpdate, Emit, Close
<1>4. ASSUME PollPermission
      PROVE  Stopping'
  BY <1>4 DEF PollPermission
<1>5. ASSUME InsertPermission
      PROVE  Stopping'
  BY <1>5 DEF InsertPermission
<1>6. ASSUME AskPermission
      PROVE  Stopping'
  BY <1>6, Names DEF AskPermission, Emit, Close
<1>7. ASSUME PollEmpty
      PROVE  Stopping'
  BY <1>7 DEF PollEmpty
<1>8. ASSUME PollCompletion
      PROVE  Stopping'
  BY <1>8 DEF PollCompletion
<1>9. ASSUME PollCommand
      PROVE  Stopping'
  BY <1>9, Names DEF PollCommand
<1>10. ASSUME SendPrompt
       PROVE  Stopping'
  BY <1>10 DEF SendPrompt
<1>11. ASSUME Park
       PROVE  Stopping'
  BY <1>11 DEF Park
<1>12. ASSUME Finish
       PROVE  Stopping'
  BY <1>12, Names DEF Finish, Emit, Close
<1>13. ASSUME FreeTurn
       PROVE  Stopping'
  BY <1>13 DEF FreeTurn, Free
<1>14. ASSUME Settle
       PROVE  Stopping'
  BY <1>14 DEF Settle
<1>15. ASSUME WorkerFails
       PROVE  Stopping'
  BY <1>15, Names DEF WorkerFails, Die, Close
<1>16. ASSUME NEW n \in Ids, PollExpiry(n)
       PROVE  Stopping'
  BY <1>16 DEF PollExpiry
<1>17. ASSUME NEW p \in Procs, CloseEnter(p)
       PROVE  Stopping'
  BY <1>17, Names DEF CloseEnter, Calm
<1>18. ASSUME NEW p \in Procs, CloseReadTurn(p)
       PROVE  Stopping'
  BY <1>18, Names DEF CloseReadTurn, Calm
<1>19. ASSUME NEW p \in Procs, CloseTakeEvents(p)
       PROVE  Stopping'
  BY <1>19, Names DEF CloseTakeEvents, Calm
<1>20. ASSUME NEW p \in Procs, CloseSettle(p)
       PROVE  Stopping'
  BY <1>20, Names DEF CloseSettle, Calm
<1>21. ASSUME NEW p \in Prompts, PromptStart(p)
       PROVE  Stopping'
  BY <1>21, Names, ErrorTyped DEF PromptStart, At, Return, Goto, Errors
<1>22. ASSUME NEW p \in Prompts, PromptReserve(p)
       PROVE  Stopping'
  <2>1. UNCHANGED <<down, closing>>
    BY <1>22 DEF PromptReserve
  <2>2. \A q \in Prompts : q # p => UNCHANGED <<pc[q], result[q]>>
    BY <1>22, Names DEF PromptReserve, Return, Goto
  <2>3. turn'.reserved \in {turn.reserved, p}
    <3>1. turn' \in {turn, [turn EXCEPT !.reserved = p, !.cancelled = FALSE]}
      BY <1>22 DEF PromptReserve
    <3>2. QED BY <3>1
  <2>4. ~ (result'[p] = "dropped" /\ pc'[p] = "done")
    BY <1>22, Names DEF PromptReserve, At, Return, Goto
  <2>5. QED
    BY <2>1, <2>2, <2>3, <2>4
<1>23. ASSUME NEW p \in Prompts, PromptSend(p)
       PROVE  Stopping'
  BY <1>23, Names DEF PromptSend, At, Return, Goto, Close
<1>24. ASSUME NEW p \in Prompts, PromptReceive(p)
       PROVE  Stopping'
  BY <1>24, Names, ErrorTyped
  DEF PromptReceive, At, Return, Outcomes, Reasons, Errors
<1>25. ASSUME NEW p \in Prompts, PromptGuard(p)
       PROVE  Stopping'
  BY <1>25, Names DEF PromptGuard, At, Return, Goto, Close
<1>26. ASSUME NEW p \in Prompts, PromptTimeout(p)
       PROVE  Stopping'
  BY <1>26, Names DEF PromptTimeout, At, Return, Goto, Close
<1>27. ASSUME NEW p \in Prompts, PromptDrop(p)
       PROVE  Stopping'
  BY <1>27, Names DEF PromptDrop, At, Return, Goto, Close
<1>28. ASSUME NEW c \in Stoppers, CloseStart(c)
       PROVE  Stopping'
  <2>1. \A p \in Prompts : UNCHANGED <<pc[p], result[p]>>
    BY <1>28, Names DEF CloseStart, At, Return, Goto, Stoppers
  <2>2. UNCHANGED <<down, closing>> /\ turn'.reserved = turn.reserved
    BY <1>28 DEF CloseStart
  <2>3. QED
    BY <2>1, <2>2
<1>29. ASSUME NEW c \in Stoppers, CancelStart(c)
       PROVE  Stopping'
  <2>1. \A p \in Prompts : UNCHANGED <<pc[p], result[p]>>
    BY <1>29, Names DEF CancelStart, At, Return, Goto, Stoppers
  <2>2. UNCHANGED <<down, closing>> /\ turn'.reserved = turn.reserved
    BY <1>29 DEF CancelStart
  <2>3. QED
    BY <2>1, <2>2
<1>30. ASSUME NEW c \in Stoppers, CancelTurn(c)
       PROVE  Stopping'
  <2>1. \A p \in Prompts : UNCHANGED <<pc[p], result[p]>>
    BY <1>30, Names DEF CancelTurn, At, Return, Goto, Cancelled, Stoppers
  <2>2. UNCHANGED <<down, closing>> /\ turn'.reserved = turn.reserved
    BY <1>30 DEF CancelTurn
  <2>3. QED
    BY <2>1, <2>2
<1>31. ASSUME NEW c \in Stoppers, CancelNotify(c)
       PROVE  Stopping'
  BY <1>31, Names DEF CancelNotify, At, Return, Goto, Close
<1>32. ASSUME NEW c \in Stoppers, CancelQuiet(c)
       PROVE  Stopping'
  <2>1. \A p \in Prompts : UNCHANGED <<pc[p], result[p]>>
    BY <1>32, Names DEF CancelQuiet, At, Return, Goto, Cancelled, Stoppers
  <2>2. UNCHANGED <<down, closing>> /\ turn'.reserved = turn.reserved
    BY <1>32 DEF CancelQuiet
  <2>3. QED
    BY <2>1, <2>2
<1>33. ASSUME NEW c \in Stoppers, CloseAnswered(c)
       PROVE  Stopping'
  BY <1>33, Names DEF CloseAnswered, At, Return, Goto, Close
<1>34. ASSUME NEW c \in Stoppers, CancelTimeout(c)
       PROVE  Stopping'
  BY <1>34, Names DEF CancelTimeout, At, Return, Goto, Close
<1>35. ASSUME NEW c \in Configs, ConfigStart(c)
       PROVE  Stopping'
  BY <1>35, Names DEF ConfigStart, At, Return, Goto, Close
<1>36. ASSUME NEW c \in Configs, ConfigAnswered(c)
       PROVE  Stopping'
  BY <1>36, Names DEF ConfigAnswered, At, Return, Goto, Close
<1>37. ASSUME NEW c \in Configs, ConfigEmit(c)
       PROVE  Stopping'
  BY <1>37, Names DEF ConfigEmit, At, Return, Emit, Close
<1>38. ASSUME LeaseDrop
       PROVE  Stopping'
  BY <1>38, Names DEF LeaseDrop, At, Return, Goto, Close
<1>39. ASSUME Consume
       PROVE  Stopping'
  BY <1>39 DEF Consume
<1>40. ASSUME StopReading
       PROVE  Stopping'
  BY <1>40 DEF StopReading
<1>41. ASSUME NEW n \in Ids, RespondPermission(n)
       PROVE  Stopping'
  BY <1>41 DEF RespondPermission
<1>42. ASSUME NEW k \in {"update", "permission"}, AgentSends(k)
       PROVE  Stopping'
  BY <1>42 DEF AgentSends
<1>43. ASSUME ConnectionLost
       PROVE  Stopping'
  BY <1>43 DEF ConnectionLost
<1>44. ASSUME NEW o \in Reasons \cup {"agent"}, AgentAnswer(o)
       PROVE  Stopping'
  BY <1>44 DEF AgentAnswer
<1>45. QED
  BY <1>1, <1>2, <1>3, <1>4, <1>5, <1>6, <1>7, <1>8, <1>9, <1>10, <1>11, <1>12,
     <1>13, <1>14, <1>15, <1>16, <1>17, <1>18, <1>19, <1>20, <1>21, <1>22, <1>23,
     <1>24, <1>25, <1>26, <1>27, <1>28, <1>29, <1>30, <1>31, <1>32, <1>33, <1>34,
     <1>35, <1>36, <1>37, <1>38, <1>39, <1>40, <1>41, <1>42, <1>43, <1>44
  DEF Next, WorkerNext, WorkerStep, CloseStep, CallNext, PromptStep, StopperStep,
      ConfigStep, AppNext, AgentNext

\* A stuttering step keeps a dropped prompt stopped.
LEMMA StoppingStands ==
  ASSUME Stopping, UNCHANGED vars
  PROVE  Stopping'
BY DEF Stopping, vars, handleVars, callVars, connVars

\* "Dropping an active prompt also closes its connection" (README.md:138): when the
\* close of a dropped prompt is over, the agent does not have the prompt or the
\* connection is down, whatever the worker and the other calls did meanwhile.
THEOREM DroppedPromptIsStopped == Spec => []DropStopsTheAgent
<1>1. Init => Stopping
  BY StoppingStart
<1>2. Typed /\ OneTurn /\ Stopping /\ [Next]_vars => Stopping'
  BY StoppingKept, StoppingStands
<1>3. Typed /\ OneTurn /\ Stopping => DropStopsTheAgent
  BY SessionConstants, Names
  DEF SessionConstants, Stopping, DropStopsTheAgent, OneTurn, Working, Calm, None
<1>4. QED
  BY <1>1, <1>2, <1>3, SessionTyped, SessionHasOneTurn, PTL DEF Spec

================================================================================
