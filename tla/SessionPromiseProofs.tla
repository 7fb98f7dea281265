-------------------------- MODULE SessionPromiseProofs --------------------------
(***************************************************************************)
(* What the stream of a session tells is true of it, and the session keeps *)
(* SessionPromise: proved for every instance.                              *)
(***************************************************************************)
EXTENDS SessionProofs

--------------------------------------------------------------------------------
(* What was streamed *)

\* The stream only grows, and shows at once what is added.
LEMMA StreamedStays ==
  ASSUME Typed, NEW item, stream' \in {stream, Append(stream, item)}
  PROVE  /\ \A r, kinds : Promise!Streamed(r, kinds) => Promise!Streamed(r, kinds)'
         /\ stream' = Append(stream, item) =>
              \A kinds : item.kind \in kinds => Promise!Streamed(item.request, kinds)'
BY DEF Promise!Streamed, Typed, StreamTyped

\* A stop reason in the hands of the worker or of its caller has been streamed for
\* the turn.
Reported ==
  /\ worker.pc \in {"reset", "settle"} =>
       Promise!Streamed(worker.active, {TerminalKind(worker.outcome)})
  /\ \A p \in Prompts : oneshot[p] \in Reasons => Promise!Streamed(p, {oneshot[p]})

\* Nothing was reported when the session is created.
LEMMA ReportedStart ==
  ASSUME Init
  PROVE  Reported
BY DEF Init, Reported, Reasons, None

\* A step that keeps stream, turn and results keeps what was reported.
LEMMA ReportedCarries ==
  ASSUME Typed, Reported, NEW item, stream' \in {stream, Append(stream, item)},
         UNCHANGED oneshot,
         worker'.pc \in {"reset", "settle"} =>
           /\ worker.pc \in {"reset", "settle"}
           /\ worker'.active = worker.active /\ worker'.outcome = worker.outcome
  PROVE  Reported'
<1>1. \A i \in DOMAIN stream : i \in DOMAIN stream' /\ stream'[i] = stream[i]
  BY DEF Typed, StreamTyped
<1>2. TerminalKind(worker.outcome)' = TerminalKind(worker'.outcome)
  BY DEF TerminalKind
<1>3. ASSUME worker'.pc \in {"reset", "settle"}
      PROVE  Promise!Streamed(worker.active, {TerminalKind(worker.outcome)})'
  BY <1>1, <1>3 DEF Reported, Promise!Streamed, TerminalKind
<1>4. \A p \in Prompts : oneshot'[p] \in Reasons =>
        Promise!Streamed(p, {oneshot[p]})'
  BY <1>1 DEF Reported, Promise!Streamed
<1>5. QED
  BY <1>3, <1>4 DEF Reported

\* Each step keeps it so.
LEMMA ReportedKept ==
  ASSUME Typed, OneTurn, Reported, Next
  PROVE  Reported'
<1> USE SessionConstants
    DEF SessionConstants, None, handleVars, lifeVars, outVars, permVars, queueVars,
        callVars, connVars, agentVars, workerFrame, callFrame, appFrame, peerFrame,
        Reported, Promise!Streamed
<1>1. ASSUME WorkerTop
      PROVE  Reported'
  BY <1>1 DEF WorkerTop, Typed, WorkerTyped, QueuesTyped
<1>2. ASSUME PollClosed
      PROVE  Reported'
  <2> HIDE DEF Reported, Promise!Streamed
  <2>1. \/ worker' = [worker EXCEPT !.pc = "dead", !.outcome = None]
        \/ worker' = [worker EXCEPT !.pc = "failed",
                         !.outcome = IF lost # None THEN lost ELSE "closed"]
    BY <1>2 DEF PollClosed, Die
  <2>2. worker'.pc \notin {"reset", "settle"}
    BY <2>1 DEF Typed, WorkerTyped
  <2>3. QED
    BY <1>2, <2>2, ReportedCarries DEF PollClosed
<1>3. ASSUME PollUpdate
      PROVE  Reported'
  <2> HIDE DEF Reported, Promise!Streamed
  <2>1. worker' = [worker EXCEPT
                    !.pc = IF Sendable THEN "top" ELSE "failed",
                    !.outcome = IF Sendable THEN @ ELSE "internal"]
    BY <1>3 DEF PollUpdate, Emitted
  <2>2. worker'.pc \notin {"reset", "settle"}
    BY <2>1 DEF Typed, WorkerTyped
  <2>3. stream' \in {stream, Append(stream, 
                       Item(turn.current, "update", owner[Head(inbox).id], 0))}
    BY <1>3, EmitShows DEF PollUpdate
  <2>4. QED
    BY <1>3, <2>2, <2>3, ReportedCarries DEF PollUpdate
<1>4. ASSUME PollPermission
      PROVE  Reported'
  <2> HIDE DEF Reported, Promise!Streamed
  <2>1. \/ worker' = [worker EXCEPT !.pc = "top"]
        \/ worker' = [worker EXCEPT !.pc = "insert", !.ask = Head(inbox).id]
    BY <1>4 DEF PollPermission
  <2>2. worker'.pc \notin {"reset", "settle"}
    BY <2>1 DEF Typed, WorkerTyped
  <2>3. QED
    BY <1>4, <2>2, ReportedCarries DEF PollPermission
<1>5. ASSUME InsertPermission
      PROVE  Reported'
  BY <1>5 DEF InsertPermission, Typed, WorkerTyped
<1>6. ASSUME AskPermission
      PROVE  Reported'
  <2> HIDE DEF Reported, Promise!Streamed
  <2>1. worker' = [worker EXCEPT
                    !.pc = IF Sendable THEN "top" ELSE "failed",
                    !.outcome = IF Sendable THEN @ ELSE "internal",
                    !.ask = 0]
    BY <1>6 DEF AskPermission
  <2>2. worker'.pc \notin {"reset", "settle"}
    BY <2>1 DEF Typed, WorkerTyped
  <2>3. stream' \in {stream, Append(stream, 
                       Item(turn.current, "permission", owner[worker.ask],
                            worker.ask))}
    BY <1>6, EmitShows DEF AskPermission
  <2>4. QED
    BY <1>6, <2>2, <2>3, ReportedCarries DEF AskPermission
<1>7. ASSUME PollEmpty
      PROVE  Reported'
  BY <1>7 DEF PollEmpty, Typed, WorkerTyped, QueuesTyped
<1>8. ASSUME PollCompletion
      PROVE  Reported'
  BY <1>8 DEF PollCompletion, Typed, WorkerTyped, QueuesTyped
<1>9. ASSUME PollCommand
      PROVE  Reported'
  BY <1>9 DEF PollCommand, Typed, WorkerTyped, QueuesTyped
<1>10. ASSUME SendPrompt
       PROVE  Reported'
  <2> HIDE DEF Reported, Promise!Streamed
  <2>1. \/ worker' = [worker EXCEPT !.pc = "failed", !.outcome = "agent"]
        \/ worker' = [worker EXCEPT !.pc = "top"]
    BY <1>10 DEF SendPrompt
  <2>2. worker'.pc \notin {"reset", "settle"}
    BY <2>1 DEF Typed, WorkerTyped
  <2>3. QED
    BY <1>10, <2>2, ReportedCarries DEF SendPrompt
<1>11. ASSUME Park
       PROVE  Reported'
  BY <1>11 DEF Park, Typed, WorkerTyped, QueuesTyped
<1>12. ASSUME Finish
       PROVE  Reported'
  <2> HIDE DEF Reported, Promise!Streamed
  <2> DEFINE item == Item(turn.current, TerminalKind(worker.outcome), worker.active, 0)
  <2>1. worker' = [worker EXCEPT !.pc = IF Sendable THEN "reset" ELSE "failed",
                                 !.outcome = IF Sendable THEN @ ELSE "closed"]
    BY <1>12 DEF Finish, Emitted
  <2>2. turn.current = worker.active /\ UNCHANGED oneshot
    BY <1>12 DEF Finish, OneTurn
  <2>3. CASE Sendable
    <3>1. worker'.active = worker.active /\ worker'.outcome = worker.outcome
      BY <2>1, <2>3 DEF Typed, WorkerTyped
    <3>2. stream' = Append(stream, item)
      BY <1>12, <2>3, EmitShows DEF Finish
    <3>3. item.request = worker.active /\ item.kind = TerminalKind(worker.outcome)
      BY <2>2 DEF Item
    <3>4. Promise!Streamed(worker.active, {TerminalKind(worker.outcome)})'
      BY <3>1, <3>2, <3>3, StreamedStays
    <3>5. QED
      BY <2>2, <3>2, <3>4, StreamedStays DEF Reported
  <2>4. CASE ~Sendable
    <3>1. worker'.pc = "failed"
      BY <2>1, <2>4 DEF Typed, WorkerTyped
    <3>2. stream' = stream
      BY <1>12, <2>4, EmitShows DEF Finish
    <3>3. QED
      BY <2>2, <3>1, <3>2, ReportedCarries
  <2>5. QED BY <2>3, <2>4
<1>13. ASSUME FreeTurn
       PROVE  Reported'
  <2> HIDE DEF Reported, Promise!Streamed
  <2>1. worker.pc = "reset" /\ worker' = [worker EXCEPT !.pc = "settle"]
    BY <1>13 DEF FreeTurn
  <2>2. worker'.active = worker.active /\ worker'.outcome = worker.outcome
    BY <2>1 DEF Typed, WorkerTyped
  <2>3. QED
    BY <1>13, <2>1, <2>2, ReportedCarries DEF FreeTurn
<1>14. ASSUME Settle
       PROVE  Reported'
  <2> HIDE DEF Reported, Promise!Streamed
  <2>1. /\ worker.pc = "settle" /\ UNCHANGED stream
        /\ oneshot' = [oneshot EXCEPT ![worker.active] = worker.outcome]
    BY <1>14 DEF Settle
  <2>2. worker'.pc = "top"
    BY <1>14 DEF Settle, Typed, WorkerTyped
  <2>3. \A r, kinds : Promise!Streamed(r, kinds)' <=> Promise!Streamed(r, kinds)
    BY <2>1 DEF Promise!Streamed
  <2>4. ASSUME NEW p \in Prompts, oneshot'[p] \in Reasons
        PROVE  Promise!Streamed(p, {oneshot'[p]})
    <3>1. CASE p = worker.active
      BY <2>1, <2>4, <3>1 DEF Typed, CallsTyped, Reported, TerminalKind
    <3>2. CASE p # worker.active
      BY <2>1, <2>4, <3>2 DEF Typed, CallsTyped, Reported
    <3>3. QED BY <3>1, <3>2
  <2>5. QED
    BY <2>2, <2>3, <2>4 DEF Reported
<1>15. ASSUME WorkerFails
       PROVE  Reported'
  BY <1>15 DEF WorkerFails, Typed, WorkerTyped, QueuesTyped, Die
<1>16. ASSUME NEW n \in Ids, PollExpiry(n)
       PROVE  Reported'
  BY <1>16 DEF PollExpiry, Typed, WorkerTyped, QueuesTyped
<1>17. ASSUME NEW p \in Procs, CloseEnter(p)
       PROVE  Reported'
  BY <1>17 DEF CloseEnter
<1>18. ASSUME NEW p \in Procs, CloseReadTurn(p)
       PROVE  Reported'
  BY <1>18 DEF CloseReadTurn
<1>19. ASSUME NEW p \in Procs, CloseTakeEvents(p)
       PROVE  Reported'
  <2> HIDE DEF Reported, Promise!Streamed
  <2>1. stream' \in {stream, Append(stream,
                       Item(closing[p].request, "error", closing[p].request, 0))}
    BY <1>19 DEF CloseTakeEvents
  <2>2. QED
    BY <1>19, <2>1, ReportedCarries DEF CloseTakeEvents
<1>20. ASSUME NEW p \in Procs, CloseSettle(p)
       PROVE  Reported'
  BY <1>20 DEF CloseSettle
<1>21. ASSUME NEW p \in Prompts, PromptStart(p)
       PROVE  Reported'
  BY <1>21 DEF PromptStart
<1>22. ASSUME NEW p \in Prompts, PromptReserve(p)
       PROVE  Reported'
  BY <1>22 DEF PromptReserve
<1>23. ASSUME NEW p \in Prompts, PromptSend(p)
       PROVE  Reported'
  BY <1>23 DEF PromptSend
<1>24. ASSUME NEW p \in Prompts, PromptReceive(p)
       PROVE  Reported'
  BY <1>24 DEF PromptReceive
<1>25. ASSUME NEW p \in Prompts, PromptGuard(p)
       PROVE  Reported'
  BY <1>25 DEF PromptGuard
<1>26. ASSUME NEW p \in Prompts, PromptTimeout(p)
       PROVE  Reported'
  BY <1>26 DEF PromptTimeout
<1>27. ASSUME NEW p \in Prompts, PromptDrop(p)
       PROVE  Reported'
  BY <1>27 DEF PromptDrop
<1>28. ASSUME NEW c \in Stoppers, CloseStart(c)
       PROVE  Reported'
  BY <1>28 DEF CloseStart
<1>29. ASSUME NEW c \in Stoppers, CancelStart(c)
       PROVE  Reported'
  BY <1>29 DEF CancelStart
<1>30. ASSUME NEW c \in Stoppers, CancelTurn(c)
       PROVE  Reported'
  BY <1>30 DEF CancelTurn
<1>31. ASSUME NEW c \in Stoppers, CancelNotify(c)
       PROVE  Reported'
  BY <1>31 DEF CancelNotify
<1>32. ASSUME NEW c \in Stoppers, CancelQuiet(c)
       PROVE  Reported'
  BY <1>32 DEF CancelQuiet
<1>33. ASSUME NEW c \in Stoppers, CloseAnswered(c)
       PROVE  Reported'
  BY <1>33 DEF CloseAnswered
<1>34. ASSUME NEW c \in Stoppers, CancelTimeout(c)
       PROVE  Reported'
  BY <1>34 DEF CancelTimeout
<1>35. ASSUME NEW c \in Configs, ConfigStart(c)
       PROVE  Reported'
  BY <1>35 DEF ConfigStart
<1>36. ASSUME NEW c \in Configs, ConfigAnswered(c)
       PROVE  Reported'
  BY <1>36 DEF ConfigAnswered
<1>37. ASSUME NEW c \in Configs, ConfigEmit(c)
       PROVE  Reported'
  <2> HIDE DEF Reported, Promise!Streamed
  <2>1. stream' \in {stream, Append(stream, Item(about[c], "config", None, 0))}
    BY <1>37, EmitShows DEF ConfigEmit
  <2>2. QED
    BY <1>37, <2>1, ReportedCarries DEF ConfigEmit
<1>38. ASSUME LeaseDrop
       PROVE  Reported'
  BY <1>38 DEF LeaseDrop
<1>39. ASSUME Consume
       PROVE  Reported'
  BY <1>39 DEF Consume
<1>40. ASSUME StopReading
       PROVE  Reported'
  BY <1>40 DEF StopReading
<1>41. ASSUME NEW n \in Ids, RespondPermission(n)
       PROVE  Reported'
  BY <1>41 DEF RespondPermission
<1>42. ASSUME NEW k \in {"update", "permission"}, AgentSends(k)
       PROVE  Reported'
  BY <1>42 DEF AgentSends
<1>43. ASSUME ConnectionLost
       PROVE  Reported'
  BY <1>43 DEF ConnectionLost
<1>44. ASSUME NEW o \in Reasons \cup {"agent"}, AgentAnswer(o)
       PROVE  Reported'
  BY <1>44 DEF AgentAnswer
<1>45. QED
  BY <1>1, <1>2, <1>3, <1>4, <1>5, <1>6, <1>7, <1>8, <1>9, <1>10, <1>11, <1>12,
     <1>13, <1>14, <1>15, <1>16, <1>17, <1>18, <1>19, <1>20, <1>21, <1>22, <1>23,
     <1>24, <1>25, <1>26, <1>27, <1>28, <1>29, <1>30, <1>31, <1>32, <1>33, <1>34,
     <1>35, <1>36, <1>37, <1>38, <1>39, <1>40, <1>41, <1>42, <1>43, <1>44
  DEF Next, WorkerNext, WorkerStep, CloseStep, CallNext, PromptStep, StopperStep,
      ConfigStep, AppNext, AgentNext

\* A stuttering step keeps what was reported.
LEMMA ReportedStands ==
  ASSUME Reported, UNCHANGED vars
  PROVE  Reported'
BY DEF Reported, Promise!Streamed, TerminalKind, vars, outVars, callVars

\* A stop reason is told to a caller after the stream (session.rs:169).
LEMMA SessionReports == Spec => []Reported
<1>1. Init => Reported
  BY ReportedStart
<1>2. Typed /\ OneTurn /\ Reported /\ [Next]_vars => Reported'
  BY ReportedKept, ReportedStands
<1>3. QED BY <1>1, <1>2, SessionTyped, SessionHasOneTurn, PTL DEF Spec

--------------------------------------------------------------------------------
(* Whose events were streamed *)

\* The request is of no turn, of the turn the session is in, or of one that has its
\* terminal event.
Accountable(r) ==
  r \in {None, turn.current} \/ Promise!Streamed(r, Promise!Terminals)

\* What was streamed, what a configuration change is about to stream and what a close
\* is about to tell is so as long as the stream is open.
Accounted ==
  open =>
    /\ \A i \in DOMAIN stream : Accountable(stream[i].request)
    /\ \A c \in Configs : pc[c] = "emit" => Accountable(about[c])
    /\ \A p \in Procs : closing[p].stage = 3 => Accountable(closing[p].request)

\* No turn was begun when the session is created.
LEMMA AccountedStart ==
  ASSUME Init
  PROVE  Accounted
BY Names DEF Init, Accounted, Calm

\* The worker begins a turn and ends it.
LEMMA WhatTurns ==
  ASSUME Typed, Next
  PROVE  turn'.current = turn.current \/ PollCommand \/ FreeTurn
<1> USE DEF handleVars, appFrame, peerFrame, callFrame
<1>1. WorkerNext => UNCHANGED turn \/ PollCommand \/ FreeTurn
  BY DEF WorkerNext, WorkerStep, WorkerTop, PollClosed, PollUpdate, PollPermission,
         InsertPermission, AskPermission, PollEmpty, PollCompletion, SendPrompt, Park,
         Finish, Settle, WorkerFails, PollExpiry
<1>2. \A p \in Procs : CloseStep(p) => UNCHANGED turn
  BY DEF CloseStep, CloseEnter, CloseReadTurn, CloseTakeEvents, CloseSettle
<1>3. CallNext =>
        \/ turn' = turn
        \/ turn' = [turn EXCEPT !.cancelled = TRUE]
        \/ \E p : turn' = [turn EXCEPT !.reserved = p, !.cancelled = FALSE]
  BY DEF CallNext, PromptStep, PromptStart, PromptReserve, PromptSend, PromptReceive,
         PromptGuard, PromptTimeout, PromptDrop, StopperStep, CloseStart, CancelStart,
         CancelTurn, CancelNotify, CancelQuiet, CloseAnswered, CancelTimeout, ConfigStep,
         ConfigStart, ConfigAnswered, ConfigEmit, LeaseDrop
<1>4. AppNext \/ AgentNext => UNCHANGED turn
  BY DEF AppNext, Consume, StopReading, RespondPermission, AgentNext, AgentSends,
         ConnectionLost, AgentAnswer
<1>5. CallNext => turn'.current = turn.current
  BY <1>3 DEF Typed, TurnTyped
<1>6. QED BY <1>1, <1>2, <1>4, <1>5 DEF Next

\* A close learns its turn once.
LEMMA WhoReads ==
  ASSUME Typed, Next, NEW c \in Procs, closing'[c].stage = 3
  PROVE  \/ closing[c].stage = 3 /\ closing'[c].request = closing[c].request
         \/ CloseReadTurn(c)
<1> USE DEF appFrame, peerFrame
<1>1. CASE UNCHANGED closing
  BY <1>1
<1>2. CASE \E p \in Procs : \E e, s : Close(p, e, s)
  BY <1>2 DEF Close, Typed, ClosingTyped, Closing
<1>3. CASE \E p \in Procs : CloseStep(p)
  BY <1>3
  DEF CloseStep, CloseEnter, CloseReadTurn, CloseTakeEvents, CloseSettle, Calm, Typed,
      ClosingTyped, Closing
<1>4. \A p, item : Emit(p, item) => UNCHANGED closing \/ \E e, s : Close(p, e, s)
  BY DEF Emit
<1>5. WorkerNext => UNCHANGED closing \/ \E e, s : Close("worker", e, s)
  BY <1>4
  DEF WorkerNext, WorkerStep, WorkerTop, PollClosed, PollUpdate, PollPermission,
      InsertPermission, AskPermission, PollEmpty, PollCompletion, PollCommand,
      SendPrompt, Park, Finish, FreeTurn, Settle, WorkerFails, PollExpiry
<1>6. CallNext => UNCHANGED closing \/ \E p \in Procs : \E e, s : Close(p, e, s)
  BY <1>4, CallsKeepOut, Names DEF ConfigEmit
<1>7. AppNext \/ AgentNext => UNCHANGED closing
  BY DEF AppNext, Consume, StopReading, RespondPermission, AgentNext, AgentSends,
         ConnectionLost, AgentAnswer
<1>8. QED BY <1>1, <1>2, <1>3, <1>5, <1>6, <1>7, Names DEF Next

\* A configuration change learns its turn once.
LEMMA WhoConfigures ==
  ASSUME Typed, Next, NEW c \in Configs, pc'[c] = "emit"
  PROVE  \/ pc[c] = "emit" /\ about'[c] = about[c]
         \/ about'[c] = turn.current /\ UNCHANGED <<turn, stream>>
<1> USE DEF callVars, handleVars, workerFrame, callFrame, outVars, appFrame, peerFrame
<1>1. CASE UNCHANGED <<pc, about>>
  BY <1>1
<1>2. WorkerNext \/ (\E p \in Procs : CloseStep(p)) \/ AppNext \/ AgentNext
        => UNCHANGED <<pc, about>>
  <2>1. WorkerNext => UNCHANGED <<pc, about>>
    BY DEF WorkerNext, WorkerStep, WorkerTop, PollClosed, PollUpdate, PollPermission,
           InsertPermission, AskPermission, PollEmpty, PollCompletion, PollCommand,
           SendPrompt, Park, Finish, FreeTurn, Settle, WorkerFails, PollExpiry
  <2>2. \A p \in Procs : CloseStep(p) => UNCHANGED <<pc, about>>
    BY DEF CloseStep, CloseEnter, CloseReadTurn, CloseTakeEvents, CloseSettle
  <2>3. AppNext \/ AgentNext => UNCHANGED <<pc, about>>
    BY DEF AppNext, Consume, StopReading, RespondPermission, AgentNext, AgentSends,
           ConnectionLost, AgentAnswer
  <2>4. QED BY <2>1, <2>2, <2>3
<1>3. ASSUME NEW d \in Callers, d # c,
             UNCHANGED pc \/ \E l : pc' = [pc EXCEPT ![d] = l],
             UNCHANGED about \/ \E r : about' = [about EXCEPT ![d] = r]
      PROVE  pc[c] = "emit" /\ about'[c] = about[c]
  BY <1>3, Names DEF Typed, CallsTyped
<1>4. ASSUME NEW p \in Prompts, PromptStep(p) \/ PromptTimeout(p) \/ PromptDrop(p)
      PROVE  pc[c] = "emit" /\ about'[c] = about[c]
  <2>1. UNCHANGED about /\ (UNCHANGED pc \/ \E l : pc' = [pc EXCEPT ![p] = l])
    BY <1>4
    DEF PromptStep, PromptStart, PromptReserve, PromptSend, PromptReceive, PromptGuard,
        PromptTimeout, PromptDrop, Return, Goto
  <2>2. QED BY <1>3, <2>1, Names, SessionConstants DEF SessionConstants
<1>5. ASSUME NEW d \in Stoppers, StopperStep(d) \/ CancelTimeout(d)
      PROVE  pc[c] = "emit" /\ about'[c] = about[c]
  <2>1. /\ UNCHANGED pc \/ \E l : pc' = [pc EXCEPT ![d] = l]
        /\ UNCHANGED about \/ \E r : about' = [about EXCEPT ![d] = r]
    BY <1>5
    DEF StopperStep, CloseStart, CancelStart, CancelTurn, CancelNotify, CancelQuiet,
        CloseAnswered, CancelTimeout, Return, Goto, Cancelled
  <2>2. d \in Callers /\ d # c
    BY Names, SessionConstants DEF SessionConstants, Stoppers
  <2>3. QED BY <1>3, <2>1, <2>2
<1>6. ASSUME NEW d \in Configs, ConfigStep(d)
      PROVE  \/ pc[c] = "emit" /\ about'[c] = about[c]
             \/ about'[c] = turn.current /\ UNCHANGED <<turn, stream>>
  <2>1. /\ UNCHANGED pc \/ \E l : pc' = [pc EXCEPT ![d] = l]
        /\ UNCHANGED about \/ about' = [about EXCEPT ![d] = turn.current]
    BY <1>6 DEF ConfigStep, ConfigStart, ConfigAnswered, ConfigEmit, Return, Goto
  <2>2. CASE d # c
    BY <1>3, <2>1, <2>2, Names
  <2>3. CASE d = c /\ ConfigAnswered(d)
    BY <2>1, <2>3, Names DEF ConfigAnswered, At, Return, Goto, Typed, CallsTyped
  <2>4. CASE d = c /\ (ConfigStart(d) \/ ConfigEmit(d))
    <3>1. pc'[c] # "emit"
      BY <2>4, Names DEF ConfigStart, ConfigEmit, Return, Goto, Typed, CallsTyped
    <3>2. QED BY <3>1
  <2>5. QED BY <1>6, <2>2, <2>3, <2>4 DEF ConfigStep
<1>7. ASSUME LeaseDrop
      PROVE  pc[c] = "emit" /\ about'[c] = about[c]
  <2>1. UNCHANGED about /\ \E l : pc' = [pc EXCEPT !["lease"] = l]
    BY <1>7 DEF LeaseDrop, Return
  <2>2. QED BY <1>3, <2>1, Names, SessionConstants DEF SessionConstants
<1>8. QED BY <1>1, <1>2, <1>4, <1>5, <1>6, <1>7 DEF Next, CallNext

\* A turn is not forgotten before the stream has its terminal event.
LEMMA AccountableStays ==
  ASSUME Typed, OneTurn, Reported, Next, NEW r, Accountable(r)
  PROVE  Accountable(r)'
<1>1. PICK item : stream' \in {stream, Append(stream, item)}
  BY WhatIsShown
<1>2. CASE Promise!Streamed(r, Promise!Terminals)
  BY <1>1, <1>2, StreamedStays DEF Accountable
<1>3. CASE r = None
  BY <1>3 DEF Accountable
<1>4. CASE r = turn.current /\ turn'.current = turn.current
  BY <1>4 DEF Accountable
<1>5. CASE r = turn.current /\ PollCommand
  <2>1. turn.current = None
    BY <1>5 DEF PollCommand, CanAccept, OneTurn
  <2>2. QED BY <1>3, <1>5, <2>1
<1>6. CASE r = turn.current /\ FreeTurn
  <2>1. Promise!Streamed(turn.current, {TerminalKind(worker.outcome)})
    BY <1>6 DEF FreeTurn, Reported, OneTurn
  <2>2. TerminalKind(worker.outcome) \in Promise!Terminals
    BY DEF TerminalKind, Promise!Terminals
  <2>3. Promise!Streamed(turn.current, Promise!Terminals)
    BY <2>1, <2>2 DEF Promise!Streamed
  <2>4. QED BY <1>2, <1>6, <2>3
<1>7. QED BY <1>2, <1>3, <1>4, <1>5, <1>6, WhatTurns DEF Accountable

\* Each step keeps the account.
LEMMA AccountedKept ==
  ASSUME Typed, OneTurn, Reported, Accounted, Next
  PROVE  Accounted'
<1> DEFINE Due(r) == \/ r \in {None, turn'.current}
                     \/ \E j \in DOMAIN stream' : /\ stream'[j].request = r
                                                  /\ stream'[j].kind \in Promise!Terminals
<1> SUFFICES ASSUME open'
             PROVE  /\ \A i \in DOMAIN stream' : Due(stream'[i].request)
                    /\ \A c \in Configs : pc'[c] = "emit" => Due(about'[c])
                    /\ \A p \in Procs : closing'[p].stage = 3 => Due(closing'[p].request)
  BY DEF Accounted, Accountable, Promise!Streamed
<1>1. open /\ Accounted
  BY OpenFalls
<1>2. \A r : Accountable(r) => Due(r)
  BY AccountableStays DEF Accountable, Promise!Streamed
<1> HIDE DEF Due
<1>3. ASSUME NEW i \in DOMAIN stream'
      PROVE  Due(stream'[i].request)
  <2>1. PICK item :
          \/ UNCHANGED stream
          \/ stream' = Append(stream, item) /\ Accountable(item.request)
    <3>1. \A r, k, o, n : Item(r, k, o, n).request = r
      BY DEF Item
    <3>2. Accountable(turn.current)
      BY DEF Accountable
    <3>3. \A c \in Configs : ConfigEmit(c) => Accountable(about[c])
      BY <1>1 DEF Accounted, ConfigEmit, At
    <3>4. \A p \in Procs : ~CloseTakeEvents(p)
      BY DEF CloseTakeEvents
    <3>5. QED BY <3>1, <3>2, <3>3, <3>4, WhatIsShown
  <2>2. Accountable(stream'[i].request)
    BY <1>1, <2>1 DEF Accounted, Typed, StreamTyped
  <2>3. QED BY <1>2, <2>2
<1>4. ASSUME NEW c \in Configs, pc'[c] = "emit"
      PROVE  Due(about'[c])
  BY <1>1, <1>2, <1>4, WhoConfigures DEF Accounted, Accountable
<1>5. ASSUME NEW p \in Procs, closing'[p].stage = 3
      PROVE  Due(closing'[p].request)
  <2>1. CASE closing[p].stage = 3 /\ closing'[p].request = closing[p].request
    BY <1>1, <1>2, <2>1 DEF Accounted
  <2>2. CASE CloseReadTurn(p)
    <3>1. closing'[p].request = turn.current
      BY <2>2 DEF CloseReadTurn, Typed, ClosingTyped, Closing
    <3>2. QED BY <1>2, <3>1 DEF Accountable
  <2>3. QED BY <1>5, <2>1, <2>2, WhoReads
<1>6. QED BY <1>3, <1>4, <1>5

\* A stuttering step keeps the account of the turns.
LEMMA AccountedStands ==
  ASSUME Accounted, UNCHANGED vars
  PROVE  Accounted'
BY DEF Accounted, Accountable, Promise!Streamed, vars, handleVars, lifeVars, outVars,
       callVars

\* Until the stream ends every turn in it is the current one or has ended.
LEMMA SessionAccounts == Spec => []Accounted
<1>1. Init => Accounted
  BY AccountedStart
<1>2. Typed /\ OneTurn /\ Reported /\ Accounted /\ [Next]_vars => Accounted'
  BY AccountedKept, AccountedStands
<1>3. QED
  BY <1>1, <1>2, SessionTyped, SessionHasOneTurn, SessionReports, PTL DEF Spec

--------------------------------------------------------------------------------
(* How the stream ends *)

\* Only taking the sender ends a close's business with the stream.
LEMMA WhoTakes ==
  ASSUME Typed, Next, NEW c \in Procs, closing[c].stage = 3, closing'[c].stage = 4
  PROVE  CloseTakeEvents(c)
<1> USE DEF appFrame, peerFrame
<1>1. CASE \E p \in Procs : CloseStep(p)
  BY <1>1
  DEF CloseStep, CloseEnter, CloseReadTurn, CloseTakeEvents, CloseSettle, Calm, Typed,
      ClosingTyped, Closing
<1>2. CASE \E p \in Procs : \E e, s : Close(p, e, s)
  BY <1>2 DEF Close, Typed, ClosingTyped, Closing
<1>3. \A p, item : Emit(p, item) => UNCHANGED closing \/ \E e, s : Close(p, e, s)
  BY DEF Emit
<1>4. WorkerNext => UNCHANGED closing \/ \E e, s : Close("worker", e, s)
  BY <1>3
  DEF WorkerNext, WorkerStep, WorkerTop, PollClosed, PollUpdate, PollPermission,
      InsertPermission, AskPermission, PollEmpty, PollCompletion, PollCommand,
      SendPrompt, Park, Finish, FreeTurn, Settle, WorkerFails, PollExpiry
<1>5. CallNext => UNCHANGED closing \/ \E p \in Procs : \E e, s : Close(p, e, s)
  BY <1>3, CallsKeepOut, Names DEF ConfigEmit
<1>6. AppNext \/ AgentNext => UNCHANGED closing
  BY DEF AppNext, Consume, StopReading, RespondPermission, AgentNext, AgentSends,
         ConnectionLost, AgentAnswer
<1>7. QED BY <1>1, <1>2, <1>4, <1>5, <1>6, Names DEF Next

\* The step that takes the sender leaves no turn open that its close had read.
LEMMA TakingConcludes ==
  ASSUME Typed, Accounted, NEW c \in Procs, CloseTakeEvents(c), Sendable,
         NEW r \in Prompts, Shown(r)
  PROVE  Concluded(r)' \/ (r = turn.current /\ r # closing[c].request)
<1> DEFINE item == Item(closing[c].request, "error", closing[c].request, 0)
<1>1. stream' \in {stream, Append(stream, item)} /\ r # None
  BY SessionConstants DEF SessionConstants, CloseTakeEvents, None
<1>2. \A q : Concluded(q) <=> Promise!Streamed(q, Promise!Terminals)
  BY DEF Concluded, Terminal, Promise!Streamed, Promise!Terminals, Typed, StreamTyped
<1>3. r = turn.current \/ Concluded(r)
  BY <1>1, <1>2 DEF Shown, Accounted, Accountable, Sendable, Typed, StreamTyped
<1>4. CASE Concluded(r)
  BY <1>1, <1>4, Appended DEF Concluded, Terminal
<1>5. CASE r = closing[c].request
  <2>1. stream' = Append(stream, item) /\ item.kind = "error" /\ item.request = r
    BY <1>1, <1>5 DEF CloseTakeEvents, Item
  <2>2. QED
    BY <2>1 DEF Concluded, Terminal, Typed, StreamTyped
<1>6. QED BY <1>3, <1>4, <1>5

\* When a close takes the sender and there is room to say so, every turn the stream has
\* shown is concluded there, by the worker or by the close, however the close interleaves
\* with the worker, the calls and the other closes, but for a turn begun after the close
\* had looked (session.rs:154-158).
THEOREM EveryTurnIsConcluded == Spec => TurnsAreConcluded
<1> DEFINE Ends == \A c \in Procs :
                     closing[c].stage = 3 /\ closing'[c].stage = 4 /\ Sendable =>
                       \A r \in Prompts :
                         Shown(r) => \/ Concluded(r)'
                                     \/ r = turn.current /\ r # closing[c].request
<1>1. Typed /\ Accounted /\ [Next]_vars => Ends
  <2>1. ASSUME Typed, Accounted, Next
        PROVE  Ends
    BY <2>1, WhoTakes, TakingConcludes
  <2>2. ASSUME UNCHANGED vars
        PROVE  Ends
    BY <2>2 DEF vars
  <2>3. QED BY <2>1, <2>2
<1>2. QED
  BY <1>1, SessionTyped, SessionAccounts, PTL DEF Spec, TurnsAreConcluded

--------------------------------------------------------------------------------
(* The promise *)

\* A prompt has a result only when its guard is all that is left of it.
Untold == \A p \in Prompts : pc[p] \in {"guard", "done"} \/ result[p] = None

\* No caller was told anything when the session is created.
LEMMA UntoldStart ==
  ASSUME Init
  PROVE  Untold
BY Names DEF Init, Untold

\* Each step keeps it so.
LEMMA UntoldKept ==
  ASSUME Typed, Untold, Next
  PROVE  Untold'
<1> USE SessionConstants
    DEF SessionConstants, None, handleVars, lifeVars, outVars, permVars, queueVars,
        callVars, connVars, agentVars, workerFrame, callFrame, appFrame, peerFrame,
        Untold, Typed, CallsTyped, Stoppers
<1>1. ASSUME WorkerTop
      PROVE  Untold'
  BY <1>1 DEF WorkerTop
<1>2. ASSUME PollClosed
      PROVE  Untold'
  BY <1>2 DEF PollClosed
<1>3. ASSUME PollUpdate
      PROVE  Untold'
  BY <1>3 DEF PollUpdate
<1>4. ASSUME PollPermission
      PROVE  Untold'
  BY <1>4 DEF PollPermission
<1>5. ASSUME InsertPermission
      PROVE  Untold'
  BY <1>5 DEF InsertPermission
<1>6. ASSUME AskPermission
      PROVE  Untold'
  BY <1>6 DEF AskPermission
<1>7. ASSUME PollEmpty
      PROVE  Untold'
  BY <1>7 DEF PollEmpty
<1>8. ASSUME PollCompletion
      PROVE  Untold'
  BY <1>8 DEF PollCompletion
<1>9. ASSUME PollCommand
      PROVE  Untold'
  BY <1>9 DEF PollCommand
<1>10. ASSUME SendPrompt
       PROVE  Untold'
  BY <1>10 DEF SendPrompt
<1>11. ASSUME Park
       PROVE  Untold'
  BY <1>11 DEF Park
<1>12. ASSUME Finish
       PROVE  Untold'
  BY <1>12 DEF Finish
<1>13. ASSUME FreeTurn
       PROVE  Untold'
  BY <1>13 DEF FreeTurn
<1>14. ASSUME Settle
       PROVE  Untold'
  BY <1>14 DEF Settle
<1>15. ASSUME WorkerFails
       PROVE  Untold'
  BY <1>15 DEF WorkerFails
<1>16. ASSUME NEW n \in Ids, PollExpiry(n)
       PROVE  Untold'
  BY <1>16 DEF PollExpiry
<1>17. ASSUME NEW p \in Procs, CloseEnter(p)
       PROVE  Untold'
  BY <1>17 DEF CloseEnter
<1>18. ASSUME NEW p \in Procs, CloseReadTurn(p)
       PROVE  Untold'
  BY <1>18 DEF CloseReadTurn
<1>19. ASSUME NEW p \in Procs, CloseTakeEvents(p)
       PROVE  Untold'
  BY <1>19 DEF CloseTakeEvents
<1>20. ASSUME NEW p \in Procs, CloseSettle(p)
       PROVE  Untold'
  BY <1>20 DEF CloseSettle
<1>21. ASSUME NEW p \in Prompts, PromptStart(p)
       PROVE  Untold'
  BY <1>21, Names DEF PromptStart, At, Return, Goto
<1>22. ASSUME NEW p \in Prompts, PromptReserve(p)
       PROVE  Untold'
  BY <1>22, Names DEF PromptReserve, At, Return, Goto
<1>23. ASSUME NEW p \in Prompts, PromptSend(p)
       PROVE  Untold'
  BY <1>23, Names DEF PromptSend, At, Return, Goto
<1>24. ASSUME NEW p \in Prompts, PromptReceive(p)
       PROVE  Untold'
  BY <1>24, Names DEF PromptReceive, At, Return, Goto
<1>25. ASSUME NEW p \in Prompts, PromptGuard(p)
       PROVE  Untold'
  BY <1>25, Names DEF PromptGuard, At, Return, Goto
<1>26. ASSUME NEW p \in Prompts, PromptTimeout(p)
       PROVE  Untold'
  BY <1>26, Names DEF PromptTimeout, At, Return, Goto
<1>27. ASSUME NEW p \in Prompts, PromptDrop(p)
       PROVE  Untold'
  BY <1>27, Names DEF PromptDrop, At, Return, Goto
<1>28. ASSUME NEW c \in Stoppers, CloseStart(c)
       PROVE  Untold'
  BY <1>28, Names DEF CloseStart, At, Return, Goto
<1>29. ASSUME NEW c \in Stoppers, CancelStart(c)
       PROVE  Untold'
  BY <1>29, Names DEF CancelStart, At, Return, Goto
<1>30. ASSUME NEW c \in Stoppers, CancelTurn(c)
       PROVE  Untold'
  BY <1>30, Names DEF CancelTurn, At, Return, Goto, Cancelled
<1>31. ASSUME NEW c \in Stoppers, CancelNotify(c)
       PROVE  Untold'
  BY <1>31, Names DEF CancelNotify, At, Return, Goto
<1>32. ASSUME NEW c \in Stoppers, CancelQuiet(c)
       PROVE  Untold'
  BY <1>32, Names DEF CancelQuiet, At, Return, Goto, Cancelled
<1>33. ASSUME NEW c \in Stoppers, CloseAnswered(c)
       PROVE  Untold'
  BY <1>33, Names DEF CloseAnswered, At, Return, Goto
<1>34. ASSUME NEW c \in Stoppers, CancelTimeout(c)
       PROVE  Untold'
  BY <1>34, Names DEF CancelTimeout, At, Return, Goto
<1>35. ASSUME NEW c \in Configs, ConfigStart(c)
       PROVE  Untold'
  BY <1>35, Names DEF ConfigStart, At, Return, Goto
<1>36. ASSUME NEW c \in Configs, ConfigAnswered(c)
       PROVE  Untold'
  BY <1>36, Names DEF ConfigAnswered, At, Return, Goto
<1>37. ASSUME NEW c \in Configs, ConfigEmit(c)
       PROVE  Untold'
  BY <1>37, Names DEF ConfigEmit, At, Return, Goto
<1>38. ASSUME LeaseDrop
       PROVE  Untold'
  BY <1>38, Names DEF LeaseDrop, At, Return, Goto
<1>39. ASSUME Consume
       PROVE  Untold'
  BY <1>39 DEF Consume
<1>40. ASSUME StopReading
       PROVE  Untold'
  BY <1>40 DEF StopReading
<1>41. ASSUME NEW n \in Ids, RespondPermission(n)
       PROVE  Untold'
  BY <1>41 DEF RespondPermission
<1>42. ASSUME NEW k \in {"update", "permission"}, AgentSends(k)
       PROVE  Untold'
  BY <1>42 DEF AgentSends
<1>43. ASSUME ConnectionLost
       PROVE  Untold'
  BY <1>43 DEF ConnectionLost
<1>44. ASSUME NEW o \in Reasons \cup {"agent"}, AgentAnswer(o)
       PROVE  Untold'
  BY <1>44 DEF AgentAnswer
<1>45. QED
  BY <1>1, <1>2, <1>3, <1>4, <1>5, <1>6, <1>7, <1>8, <1>9, <1>10, <1>11, <1>12,
     <1>13, <1>14, <1>15, <1>16, <1>17, <1>18, <1>19, <1>20, <1>21, <1>22, <1>23,
     <1>24, <1>25, <1>26, <1>27, <1>28, <1>29, <1>30, <1>31, <1>32, <1>33, <1>34,
     <1>35, <1>36, <1>37, <1>38, <1>39, <1>40, <1>41, <1>42, <1>43, <1>44
  DEF Next, WorkerNext, WorkerStep, CloseStep, CallNext, PromptStep, StopperStep,
      ConfigStep, AppNext, AgentNext

\* A stuttering step keeps the callers untold.
LEMMA UntoldStands ==
  ASSUME Untold, UNCHANGED vars
  PROVE  Untold'
BY DEF Untold, vars, callVars

\* Untold is an invariant of the session.
LEMMA SessionTellsOnce == Spec => []Untold
<1>1. Init => Untold
  BY UntoldStart
<1>2. Typed /\ Untold /\ [Next]_vars => Untold'
  BY UntoldKept, UntoldStands
<1>3. QED BY <1>1, <1>2, SessionTyped, PTL DEF Spec

\* All that the promise rests on.
Ground == Typed /\ OneTurn /\ Reported /\ Accounted /\ Untold

\* What the promise calls the phase and the turn.
LEMMA Phases ==
  /\ ~open => Phase = "closed" /\ Holder = None
  /\ open => Phase # "closed" /\ Holder = turn.reserved
  /\ open /\ worker.pc = "reset" => Phase = "finishing"
  /\ open /\ worker.pc # "reset" /\ turn.reserved # None => Phase = "running"
  /\ open /\ worker.pc # "reset" /\ turn.reserved = None => Phase = "idle"
BY DEF Phase, Holder

\* What a step of the session leaves alone of the promise.
Unseen ==
  /\ UNCHANGED open /\ turn'.reserved = turn.reserved
  /\ worker'.pc = "reset" <=> worker.pc = "reset"

\* Such a step leaves phase and holder as the promise sees them.
LEMMA UnseenKeeps ==
  ASSUME Unseen
  PROVE  UNCHANGED <<Phase, Holder>>
BY DEF Unseen, Phase, Holder

\* A step that leaves the results alone tells nobody anything.
LEMMA ResultsKept ==
  ASSUME \A p \in Prompts : result'[p] = result[p]
  PROVE  UNCHANGED Told
BY DEF Told

\* A step that none of it shows.
LEMMA Stutters ==
  ASSUME Unseen, UNCHANGED stream, \A p \in Prompts : result'[p] = result[p]
  PROVE  UNCHANGED Promise!promiseVars
BY UnseenKeeps, ResultsKept DEF Promise!promiseVars

\* A prompt returns.
LEMMA Tells ==
  ASSUME Ground, Unseen, UNCHANGED stream, NEW p \in Prompts, NEW v,
         result[p] = None, result' = [result EXCEPT ![p] = v],
         v \in Reasons => Promise!Streamed(p, {v})
  PROVE  Promise!Next
<1>1. Told[p] = "none" /\ Told' = [Told EXCEPT ![p] = v] /\ Told'[p] = v
  BY Names DEF Told, None, Ground, Typed, CallsTyped
<1>2. UNCHANGED <<Phase, Holder>>
  BY UnseenKeeps
<1>3. Promise!Tell(p, Told'[p])
  BY <1>1, <1>2 DEF Promise!Tell
<1>4. QED BY <1>3 DEF Promise!Next

\* The step adds an item to the stream.
LEMMA ShowsItem ==
  ASSUME Typed, NEW item, NEW kinds, stream' = Append(stream, item), item.kind \in kinds
  PROVE  Promise!Shows(item.request, kinds)
BY DEF Typed, StreamTyped, Promise!Shows

\* Progress, of no turn, of the one that runs, or belated.
LEMMA Reports ==
  ASSUME Ground, Unseen, open, \A p \in Prompts : result'[p] = result[p],
         NEW item, stream' = Append(stream, item), item.request \in Turns,
         item.kind \in Promise!Progress,
         \/ item.request = None
         \/ item.request = turn.reserved /\ worker.pc # "reset"
         \/ item.kind = "config" /\ Promise!Streamed(item.request, Promise!Terminals)
  PROVE  Promise!Next
<1> DEFINE kinds == IF \/ item.request = None
                       \/ item.request = Holder /\ Phase = "running"
                    THEN Promise!Progress
                    ELSE IF Promise!Streamed(item.request, Promise!Terminals)
                         THEN {"config"} ELSE {}
<1>1. UNCHANGED <<Phase, Holder, Told>> /\ Phase # "closed"
  BY UnseenKeeps, ResultsKept, Phases
<1>2. item.kind \in kinds
  BY Phases
<1>3. Promise!Shows(item.request, kinds)
  BY <1>2, ShowsItem DEF Ground
<1>4. Promise!Report(item.request)
  BY <1>1, <1>3 DEF Promise!Report, Promise!NoOne, None
<1>5. item.request \in Prompts \cup {Promise!NoOne}
  BY DEF Turns, Promise!NoOne, None
<1>6. QED BY <1>4, <1>5 DEF Promise!Next

\* A prompt takes the session.
LEMMA Reserves ==
  ASSUME Ground, open, UNCHANGED <<open, stream, worker>>, turn.reserved = None,
         NEW p \in Prompts, turn'.reserved = p,
         \A q \in Prompts : result'[q] = result[q]
  PROVE  Promise!Next
<1>1. worker.pc # "reset" /\ p # None
  BY SessionConstants DEF SessionConstants, Ground, OneTurn, Working, None
<1>2. Phase = "idle" /\ Phase' = "running" /\ Holder' = p
  BY <1>1, Phases DEF Phase, Holder
<1>3. Promise!Reserve(p)
  BY <1>2, ResultsKept DEF Promise!Reserve
<1>4. QED BY <1>3 DEF Promise!Next

\* The terminal event of the turn.
LEMMA Finishes ==
  ASSUME Ground, open, worker.pc = "finish", worker'.pc = "reset",
         UNCHANGED <<open, turn, result>>,
         NEW item, stream' = Append(stream, item), item.request = turn.current,
         item.kind \in Promise!Terminals
  PROVE  Promise!Next
<1>1. turn.current = turn.reserved /\ turn.reserved # None
  BY DEF Ground, OneTurn, Working
<1>2. Phase = "running" /\ Phase' = "finishing" /\ Holder = turn.reserved
      /\ Holder' = Holder
  BY <1>1, Phases DEF Phase, Holder
<1>3. Promise!Shows(Holder, Promise!Terminals)
  BY <1>1, <1>2, ShowsItem DEF Ground
<1>4. UNCHANGED Told
  BY DEF Told
<1>5. Promise!Finish
  BY <1>2, <1>3, <1>4 DEF Promise!Finish
<1>6. QED BY <1>5 DEF Promise!Next

\* The turn is given back.
LEMMA Releases ==
  ASSUME open, worker.pc = "reset", worker'.pc # "reset", turn'.reserved = None,
         UNCHANGED <<open, stream, result>>
  PROVE  Promise!Next
<1>1. Phase = "finishing" /\ Phase' = "idle" /\ Holder' = None
  BY DEF Phase, Holder
<1>2. UNCHANGED Told
  BY DEF Told
<1>3. Promise!Release
  BY <1>1, <1>2 DEF Promise!Release, Promise!NoOne, None
<1>4. QED BY <1>3 DEF Promise!Next

\* The stream ends.
LEMMA Ends ==
  ASSUME Ground, open, ~open', UNCHANGED result, NEW item, item.kind = "error",
         item.request \in Turns, Accountable(item.request),
         stream' \in {stream, Append(stream, item)}
  PROVE  Promise!Next
<1>1. Phase # "closed" /\ Phase' = "closed" /\ Holder' = None
      /\ turn.current \in {Holder, None}
  BY Phases DEF Phase, Holder, Ground, OneTurn
<1>2. UNCHANGED stream \/ Promise!Shows(item.request, {"error"})
  BY ShowsItem DEF Ground
<1>3. UNCHANGED Told
  BY DEF Told
<1>4. Promise!End
  <2>1. /\ item.request \in Prompts \cup {Promise!NoOne}
        /\ \/ item.request \in {Holder, Promise!NoOne}
           \/ Promise!Streamed(item.request, Promise!Terminals)
    BY <1>1 DEF Accountable, Turns, Promise!NoOne, None
  <2>2. QED
    BY <1>1, <1>2, <1>3, <2>1 DEF Promise!End, Promise!NoOne, None
<1>5. QED BY <1>4 DEF Promise!Next

\* Each step is one of the promise or shows nothing of it.
LEMMA PromiseKept ==
  ASSUME Ground, Next
  PROVE  Promise!Next \/ UNCHANGED Promise!promiseVars
<1> USE SessionConstants
    DEF SessionConstants, None, handleVars, lifeVars, outVars, permVars, queueVars,
        callVars, connVars, agentVars, workerFrame, callFrame, appFrame, peerFrame
<1>1. ASSUME WorkerTop
      PROVE  Promise!Next \/ UNCHANGED Promise!promiseVars
  <2>1. \/ worker' = [worker EXCEPT !.pc = "failed", !.outcome = Error]
        \/ worker' = [worker EXCEPT !.pc = "poll"]
    BY <1>1 DEF WorkerTop
  <2>2. worker.pc # "reset" /\ worker'.pc # "reset"
    BY <1>1, <2>1 DEF WorkerTop, Ground, Typed, WorkerTyped
  <2>3. UNCHANGED <<open, stream, result>> /\ turn'.reserved = turn.reserved
    BY <1>1 DEF WorkerTop, Ground, Typed, TurnTyped
  <2>4. QED
    BY <2>2, <2>3, Stutters DEF Unseen
<1>2. ASSUME PollClosed
      PROVE  Promise!Next \/ UNCHANGED Promise!promiseVars
  <2>1. \/ worker' = [worker EXCEPT !.pc = "dead", !.outcome = None]
        \/ worker' = [worker EXCEPT !.pc = "failed",
                         !.outcome = IF lost # None THEN lost ELSE "closed"]
    BY <1>2 DEF PollClosed, Die
  <2>2. worker.pc # "reset" /\ worker'.pc # "reset"
    BY <1>2, <2>1 DEF PollClosed, Die, Ground, Typed, WorkerTyped
  <2>3. UNCHANGED <<open, stream, result>> /\ turn'.reserved = turn.reserved
    BY <1>2 DEF PollClosed, Ground, Typed, TurnTyped
  <2>4. QED
    BY <2>2, <2>3, Stutters DEF Unseen
<1>3. ASSUME PollUpdate
      PROVE  Promise!Next \/ UNCHANGED Promise!promiseVars
  <2> DEFINE item == Item(turn.current, "update", owner[Head(inbox).id], 0)
  <2>1. UNCHANGED <<open, result, turn>> /\ worker.pc = "poll"
    BY <1>3 DEF PollUpdate, Reads
  <2>2. worker'.pc # "reset"
    BY <1>3 DEF PollUpdate, Emitted, Ground, Typed, WorkerTyped
  <2>3. Unseen
    BY <2>1, <2>2 DEF Unseen
  <2>4. CASE stream' = stream
    BY <2>1, <2>3, <2>4, Stutters
  <2>5. CASE stream' = Append(stream, item) /\ Sendable
    <3>1. /\ item.request \in {None, turn.reserved} /\ item.request \in Turns
          /\ item.kind \in Promise!Progress
      BY DEF Item, Promise!Progress, Ground, OneTurn, Typed, TurnTyped
    <3>2. QED
      BY <2>1, <2>3, <2>5, <3>1, Reports DEF Sendable
  <2>6. QED BY <1>3, <2>4, <2>5, EmitShows DEF PollUpdate
<1>4. ASSUME PollPermission
      PROVE  Promise!Next \/ UNCHANGED Promise!promiseVars
  <2>1. \/ worker' = [worker EXCEPT !.pc = "top"]
        \/ worker' = [worker EXCEPT !.pc = "insert", !.ask = Head(inbox).id]
    BY <1>4 DEF PollPermission, Reads
  <2>2. worker.pc # "reset" /\ worker'.pc # "reset"
    BY <1>4, <2>1 DEF PollPermission, Reads, Ground, Typed, WorkerTyped
  <2>3. UNCHANGED <<open, stream, result>> /\ turn'.reserved = turn.reserved
    BY <1>4 DEF PollPermission, Ground, Typed, TurnTyped
  <2>4. QED
    BY <2>2, <2>3, Stutters DEF Unseen
<1>5. ASSUME InsertPermission
      PROVE  Promise!Next \/ UNCHANGED Promise!promiseVars
  <2>1. worker' = [worker EXCEPT !.pc = "ask"]
    BY <1>5 DEF InsertPermission
  <2>2. worker.pc # "reset" /\ worker'.pc # "reset"
    BY <1>5, <2>1 DEF InsertPermission, Ground, Typed, WorkerTyped
  <2>3. UNCHANGED <<open, stream, result>> /\ turn'.reserved = turn.reserved
    BY <1>5 DEF InsertPermission, Ground, Typed, TurnTyped
  <2>4. QED
    BY <2>2, <2>3, Stutters DEF Unseen
<1>6. ASSUME AskPermission
      PROVE  Promise!Next \/ UNCHANGED Promise!promiseVars
  <2> DEFINE item == Item(turn.current, "permission", owner[worker.ask], worker.ask)
  <2>1. UNCHANGED <<open, result, turn>> /\ worker.pc = "ask"
    BY <1>6 DEF AskPermission, Reads
  <2>2. worker'.pc # "reset"
    BY <1>6 DEF AskPermission, Emitted, Ground, Typed, WorkerTyped
  <2>3. Unseen
    BY <2>1, <2>2 DEF Unseen
  <2>4. CASE stream' = stream
    BY <2>1, <2>3, <2>4, Stutters
  <2>5. CASE stream' = Append(stream, item) /\ Sendable
    <3>1. /\ item.request \in {None, turn.reserved} /\ item.request \in Turns
          /\ item.kind \in Promise!Progress
      BY DEF Item, Promise!Progress, Ground, OneTurn, Typed, TurnTyped
    <3>2. QED
      BY <2>1, <2>3, <2>5, <3>1, Reports DEF Sendable
  <2>6. QED BY <1>6, <2>4, <2>5, EmitShows DEF AskPermission
<1>7. ASSUME PollEmpty
      PROVE  Promise!Next \/ UNCHANGED Promise!promiseVars
  <2>1. worker' = [worker EXCEPT !.pc = "rest"]
    BY <1>7 DEF PollEmpty
  <2>2. worker.pc # "reset" /\ worker'.pc # "reset"
    BY <1>7, <2>1 DEF PollEmpty, Ground, Typed, WorkerTyped
  <2>3. UNCHANGED <<open, stream, result>> /\ turn'.reserved = turn.reserved
    BY <1>7 DEF PollEmpty, Ground, Typed, TurnTyped
  <2>4. QED
    BY <2>2, <2>3, Stutters DEF Unseen
<1>8. ASSUME PollCompletion
      PROVE  Promise!Next \/ UNCHANGED Promise!promiseVars
  <2>1. worker' = [worker EXCEPT !.pc = "finish",
                                 !.outcome = Head(completions).outcome]
    BY <1>8 DEF PollCompletion
  <2>2. worker.pc # "reset" /\ worker'.pc # "reset"
    BY <1>8, <2>1 DEF PollCompletion, Ground, Typed, WorkerTyped
  <2>3. UNCHANGED <<open, stream, result>> /\ turn'.reserved = turn.reserved
    BY <1>8 DEF PollCompletion, Ground, Typed, TurnTyped
  <2>4. QED
    BY <2>2, <2>3, Stutters DEF Unseen
<1>9. ASSUME PollCommand
      PROVE  Promise!Next \/ UNCHANGED Promise!promiseVars
  <2>1. worker' = [worker EXCEPT
                    !.active = Head(commands),
                    !.pc = IF turn.cancelled \/ result[Head(commands)] # None
                           THEN "finish" ELSE "begin",
                    !.outcome = "cancelled"]
    BY <1>9 DEF PollCommand
  <2>2. worker.pc # "reset" /\ worker'.pc # "reset"
    BY <1>9, <2>1 DEF PollCommand, Ground, Typed, WorkerTyped
  <2>3. UNCHANGED <<open, stream, result>> /\ turn'.reserved = turn.reserved
    BY <1>9 DEF PollCommand, Ground, Typed, TurnTyped
  <2>4. QED
    BY <2>2, <2>3, Stutters DEF Unseen
<1>10. ASSUME SendPrompt
       PROVE  Promise!Next \/ UNCHANGED Promise!promiseVars
  <2>1. \/ worker' = [worker EXCEPT !.pc = "failed", !.outcome = "agent"]
        \/ worker' = [worker EXCEPT !.pc = "top"]
    BY <1>10 DEF SendPrompt
  <2>2. worker.pc # "reset" /\ worker'.pc # "reset"
    BY <1>10, <2>1 DEF SendPrompt, Ground, Typed, WorkerTyped
  <2>3. UNCHANGED <<open, stream, result>> /\ turn'.reserved = turn.reserved
    BY <1>10 DEF SendPrompt, Ground, Typed, TurnTyped
  <2>4. QED
    BY <2>2, <2>3, Stutters DEF Unseen
<1>11. ASSUME Park
       PROVE  Promise!Next \/ UNCHANGED Promise!promiseVars
  <2>1. worker' = [worker EXCEPT !.pc = "poll"]
    BY <1>11 DEF Park
  <2>2. worker.pc # "reset" /\ worker'.pc # "reset"
    BY <1>11, <2>1 DEF Park, Ground, Typed, WorkerTyped
  <2>3. UNCHANGED <<open, stream, result>> /\ turn'.reserved = turn.reserved
    BY <1>11 DEF Park, Ground, Typed, TurnTyped
  <2>4. QED
    BY <2>2, <2>3, Stutters DEF Unseen
<1>12. ASSUME Finish
       PROVE  Promise!Next \/ UNCHANGED Promise!promiseVars
  <2> DEFINE item == Item(turn.current, TerminalKind(worker.outcome), worker.active, 0)
  <2>1. UNCHANGED <<open, result, turn>> /\ worker.pc = "finish"
    BY <1>12 DEF Finish
  <2>2. CASE Sendable
    <3>1. worker'.pc = "reset"
      BY <1>12, <2>2 DEF Finish, Emitted, Ground, Typed, WorkerTyped
    <3>2. stream' = Append(stream, item) /\ open
      BY <1>12, <2>2, EmitShows DEF Finish, Sendable
    <3>3. item.request = turn.current /\ item.kind \in Promise!Terminals
      BY DEF Item, TerminalKind, Promise!Terminals
    <3>4. QED
      BY <2>1, <3>1, <3>2, <3>3, Finishes
  <2>3. CASE ~Sendable
    <3>1. worker'.pc = "failed"
      BY <1>12, <2>3 DEF Finish, Emitted, Ground, Typed, WorkerTyped
    <3>2. stream' = stream
      BY <1>12, <2>3, EmitShows DEF Finish
    <3>3. QED
      BY <2>1, <3>1, <3>2, Stutters DEF Unseen
  <2>4. QED BY <2>2, <2>3
<1>13. ASSUME FreeTurn
       PROVE  Promise!Next \/ UNCHANGED Promise!promiseVars
  <2>1. /\ worker.pc = "reset" /\ worker' = [worker EXCEPT !.pc = "settle"]
        /\ turn' = Free /\ UNCHANGED <<open, stream, result>>
    BY <1>13 DEF FreeTurn
  <2>2. worker'.pc # "reset" /\ turn'.reserved = None
    BY <2>1 DEF Free, Ground, Typed, WorkerTyped
  <2>3. CASE open
    BY <2>1, <2>2, <2>3, Releases
  <2>4. CASE ~open
    BY <2>1, <2>4, Phases, ResultsKept DEF Phase, Holder, Promise!promiseVars
  <2>5. QED BY <2>3, <2>4
<1>14. ASSUME Settle
       PROVE  Promise!Next \/ UNCHANGED Promise!promiseVars
  <2>1. worker' = [worker EXCEPT !.pc = "top", !.active = None, !.outcome = None]
    BY <1>14 DEF Settle
  <2>2. worker.pc # "reset" /\ worker'.pc # "reset"
    BY <1>14, <2>1 DEF Settle, Ground, Typed, WorkerTyped
  <2>3. UNCHANGED <<open, stream, result>> /\ turn'.reserved = turn.reserved
    BY <1>14 DEF Settle, Ground, Typed, TurnTyped
  <2>4. QED
    BY <2>2, <2>3, Stutters DEF Unseen
<1>15. ASSUME WorkerFails
       PROVE  Promise!Next \/ UNCHANGED Promise!promiseVars
  <2>1. worker' = [worker EXCEPT !.pc = "dead", !.outcome = None]
    BY <1>15 DEF WorkerFails, Die
  <2>2. worker.pc # "reset" /\ worker'.pc # "reset"
    BY <1>15, <2>1 DEF WorkerFails, Die, Ground, Typed, WorkerTyped
  <2>3. UNCHANGED <<open, stream, result>> /\ turn'.reserved = turn.reserved
    BY <1>15 DEF WorkerFails, Ground, Typed, TurnTyped
  <2>4. QED
    BY <2>2, <2>3, Stutters DEF Unseen
<1>16. ASSUME NEW n \in Ids, PollExpiry(n)
       PROVE  Promise!Next \/ UNCHANGED Promise!promiseVars
  <2>1. worker' = [worker EXCEPT !.pc = "top"]
    BY <1>16 DEF PollExpiry
  <2>2. worker.pc # "reset" /\ worker'.pc # "reset"
    BY <1>16, <2>1 DEF PollExpiry, Ground, Typed, WorkerTyped
  <2>3. UNCHANGED <<open, stream, result>> /\ turn'.reserved = turn.reserved
    BY <1>16 DEF PollExpiry, Ground, Typed, TurnTyped
  <2>4. QED
    BY <2>2, <2>3, Stutters DEF Unseen
<1>17. ASSUME NEW p \in Procs, CloseEnter(p)
       PROVE  Promise!Next \/ UNCHANGED Promise!promiseVars
  <2>1. Unseen
    BY <1>17 DEF CloseEnter, Unseen
  <2>2. UNCHANGED stream /\ \A q \in Prompts : result'[q] = result[q]
    BY <1>17 DEF CloseEnter
  <2>3. QED
    BY <2>1, <2>2, Stutters
<1>18. ASSUME NEW p \in Procs, CloseReadTurn(p)
       PROVE  Promise!Next \/ UNCHANGED Promise!promiseVars
  <2>1. Unseen
    BY <1>18 DEF CloseReadTurn, Unseen
  <2>2. UNCHANGED stream /\ \A q \in Prompts : result'[q] = result[q]
    BY <1>18 DEF CloseReadTurn
  <2>3. QED
    BY <2>1, <2>2, Stutters
<1>19. ASSUME NEW p \in Procs, CloseTakeEvents(p)
       PROVE  Promise!Next \/ UNCHANGED Promise!promiseVars
  <2> DEFINE item == Item(closing[p].request, "error", closing[p].request, 0)
  <2>1. UNCHANGED <<worker, turn, result>> /\ ~open'
    BY <1>19 DEF CloseTakeEvents
  <2>2. CASE ~open
    <3>1. UNCHANGED <<open, stream>>
      BY <1>19, <2>2 DEF CloseTakeEvents, Sendable, Ground, Typed, LifeTyped
    <3>2. QED
      BY <2>1, <3>1, Stutters DEF Unseen
  <2>3. CASE open
    <3>1. stream' \in {stream, Append(stream, item)}
      BY <1>19 DEF CloseTakeEvents
    <3>2. /\ item.kind = "error" /\ item.request \in Turns
          /\ Accountable(item.request)
      BY <1>19, <2>3
      DEF CloseTakeEvents, Item, Ground, Accounted, Typed, ClosingTyped, Closing
    <3>3. QED
      BY <2>1, <2>3, <3>1, <3>2, Ends
  <2>4. QED BY <2>2, <2>3
<1>20. ASSUME NEW p \in Procs, CloseSettle(p)
       PROVE  Promise!Next \/ UNCHANGED Promise!promiseVars
  <2>1. Unseen
    BY <1>20 DEF CloseSettle, Unseen
  <2>2. UNCHANGED stream /\ \A q \in Prompts : result'[q] = result[q]
    BY <1>20 DEF CloseSettle
  <2>3. QED
    BY <2>1, <2>2, Stutters
<1>21. ASSUME NEW p \in Prompts, PromptStart(p)
       PROVE  Promise!Next \/ UNCHANGED Promise!promiseVars
  <2>1. UNCHANGED <<open, stream, worker, turn>> /\ result[p] = None
    BY <1>21 DEF PromptStart, At, Ground, Untold
  <2>2. CASE UNCHANGED result
    BY <2>1, <2>2, Stutters DEF Unseen
  <2>3. CASE result' = [result EXCEPT ![p] = Error]
    BY <2>1, <2>3, ErrorTyped, Tells DEF Unseen, Ground, Reasons, Errors
  <2>4. QED BY <1>21, <2>2, <2>3 DEF PromptStart, Return, Goto
<1>22. ASSUME NEW p \in Prompts, PromptReserve(p)
       PROVE  Promise!Next \/ UNCHANGED Promise!promiseVars
  <2>1. UNCHANGED <<open, stream, worker>>
    BY <1>22 DEF PromptReserve
  <2>2. CASE turn.reserved # None
    <3>1. result' = [result EXCEPT ![p] = "busy"] /\ UNCHANGED turn
      BY <1>22, <2>2 DEF PromptReserve, Return
    <3>2. result[p] = None
      BY <1>22 DEF PromptReserve, At, Ground, Untold
    <3>3. QED
      BY <2>1, <3>1, <3>2, Tells DEF Unseen, Reasons
  <2>3. CASE turn.reserved = None
    <3>1. turn' = [turn EXCEPT !.reserved = p, !.cancelled = FALSE] /\ UNCHANGED result
      BY <1>22, <2>3 DEF PromptReserve, Goto
    <3>2. turn'.reserved = p
      BY <3>1 DEF Ground, Typed, TurnTyped
    <3>3. CASE open
      BY <2>1, <2>3, <3>1, <3>2, <3>3, Reserves
    <3>4. CASE ~open
      BY <2>1, <3>1, <3>4, ResultsKept DEF Phase, Holder, Promise!promiseVars
    <3>5. QED BY <3>3, <3>4
  <2>4. QED BY <2>2, <2>3
<1>23. ASSUME NEW p \in Prompts, PromptSend(p)
       PROVE  Promise!Next \/ UNCHANGED Promise!promiseVars
  <2>1. UNCHANGED <<open, stream, worker, turn>> /\ result[p] = None
    BY <1>23 DEF PromptSend, At, Ground, Untold
  <2>2. CASE UNCHANGED result
    BY <2>1, <2>2, Stutters DEF Unseen
  <2>3. CASE result' = [result EXCEPT ![p] = Error]
    BY <2>1, <2>3, ErrorTyped, Tells DEF Unseen, Ground, Reasons, Errors
  <2>4. QED BY <1>23, <2>2, <2>3 DEF PromptSend, Return, Goto
<1>24. ASSUME NEW p \in Prompts, PromptReceive(p)
       PROVE  Promise!Next \/ UNCHANGED Promise!promiseVars
  <2>1. UNCHANGED <<open, stream, worker, turn>> /\ result[p] = None
    BY <1>24 DEF PromptReceive, At, Ground, Untold
  <2>2. PICK v : /\ result' = [result EXCEPT ![p] = v]
                 /\ v = oneshot[p] \/ v = Error
    BY <1>24 DEF PromptReceive, Return
  <2>3. v \in Reasons => Promise!Streamed(p, {v})
    BY <2>2, ErrorTyped DEF Ground, Reported, Reasons, Errors
  <2>4. QED
    BY <2>1, <2>2, <2>3, Tells DEF Unseen
<1>25. ASSUME NEW p \in Prompts, PromptGuard(p)
       PROVE  Promise!Next \/ UNCHANGED Promise!promiseVars
  <2>1. Unseen
    BY <1>25 DEF PromptGuard, Unseen
  <2>2. UNCHANGED stream /\ \A q \in Prompts : result'[q] = result[q]
    BY <1>25 DEF PromptGuard
  <2>3. QED
    BY <2>1, <2>2, Stutters
<1>26. ASSUME NEW p \in Prompts, PromptTimeout(p)
       PROVE  Promise!Next \/ UNCHANGED Promise!promiseVars
  <2>1. UNCHANGED <<open, stream, worker, turn>> /\ result[p] = None
    BY <1>26 DEF PromptTimeout, At, Ground, Untold
  <2>2. CASE UNCHANGED result
    BY <2>1, <2>2, Stutters DEF Unseen
  <2>3. CASE result' = [result EXCEPT ![p] = "timeout"]
    BY <2>1, <2>3, ErrorTyped, Tells DEF Unseen, Ground, Reasons, Errors
  <2>4. QED BY <1>26, <2>2, <2>3 DEF PromptTimeout, Return, Goto
<1>27. ASSUME NEW p \in Prompts, PromptDrop(p)
       PROVE  Promise!Next \/ UNCHANGED Promise!promiseVars
  <2>1. UNCHANGED <<open, stream, worker, turn>> /\ result[p] = None
    BY <1>27 DEF PromptDrop, At, Ground, Untold
  <2>2. CASE UNCHANGED result
    BY <2>1, <2>2, Stutters DEF Unseen
  <2>3. CASE result' = [result EXCEPT ![p] = "dropped"]
    BY <2>1, <2>3, ErrorTyped, Tells DEF Unseen, Ground, Reasons, Errors
  <2>4. QED BY <1>27, <2>2, <2>3 DEF PromptDrop, Return, Goto
<1>28. ASSUME NEW c \in Stoppers, CloseStart(c)
       PROVE  Promise!Next \/ UNCHANGED Promise!promiseVars
  <2>1. Unseen
    BY <1>28, Names
    DEF CloseStart, Unseen, Return, Goto, Stoppers, Ground, Typed, CallsTyped, TurnTyped
  <2>2. UNCHANGED stream /\ \A q \in Prompts : result'[q] = result[q]
    BY <1>28, Names
    DEF CloseStart, Return, Goto, Stoppers, Ground, Typed, CallsTyped, TurnTyped
  <2>3. QED
    BY <2>1, <2>2, Stutters
<1>29. ASSUME NEW c \in Stoppers, CancelStart(c)
       PROVE  Promise!Next \/ UNCHANGED Promise!promiseVars
  <2>1. Unseen
    BY <1>29, Names
    DEF CancelStart, Unseen, Return, Goto, Cancelled, Stoppers, Ground, Typed,
        CallsTyped, TurnTyped
  <2>2. UNCHANGED stream /\ \A q \in Prompts : result'[q] = result[q]
    BY <1>29, Names
    DEF CancelStart, Return, Goto, Cancelled, Stoppers, Ground, Typed, CallsTyped,
        TurnTyped
  <2>3. QED
    BY <2>1, <2>2, Stutters
<1>30. ASSUME NEW c \in Stoppers, CancelTurn(c)
       PROVE  Promise!Next \/ UNCHANGED Promise!promiseVars
  <2>1. Unseen
    BY <1>30, Names
    DEF CancelTurn, Unseen, Return, Goto, Cancelled, Stoppers, Ground, Typed,
        CallsTyped, TurnTyped
  <2>2. UNCHANGED stream /\ \A q \in Prompts : result'[q] = result[q]
    BY <1>30, Names
    DEF CancelTurn, Return, Goto, Cancelled, Stoppers, Ground, Typed, CallsTyped,
        TurnTyped
  <2>3. QED
    BY <2>1, <2>2, Stutters
<1>31. ASSUME NEW c \in Stoppers, CancelNotify(c)
       PROVE  Promise!Next \/ UNCHANGED Promise!promiseVars
  <2>1. Unseen
    BY <1>31, Names
    DEF CancelNotify, Unseen, Return, Goto, Stoppers, Ground, Typed, CallsTyped,
        TurnTyped
  <2>2. UNCHANGED stream /\ \A q \in Prompts : result'[q] = result[q]
    BY <1>31, Names
    DEF CancelNotify, Return, Goto, Stoppers, Ground, Typed, CallsTyped, TurnTyped
  <2>3. QED
    BY <2>1, <2>2, Stutters
<1>32. ASSUME NEW c \in Stoppers, CancelQuiet(c)
       PROVE  Promise!Next \/ UNCHANGED Promise!promiseVars
  <2>1. Unseen
    BY <1>32, Names
    DEF CancelQuiet, Unseen, Return, Goto, Cancelled, Stoppers, Ground, Typed,
        CallsTyped, TurnTyped
  <2>2. UNCHANGED stream /\ \A q \in Prompts : result'[q] = result[q]
    BY <1>32, Names
    DEF CancelQuiet, Return, Goto, Cancelled, Stoppers, Ground, Typed, CallsTyped,
        TurnTyped
  <2>3. QED
    BY <2>1, <2>2, Stutters
<1>33. ASSUME NEW c \in Stoppers, CloseAnswered(c)
       PROVE  Promise!Next \/ UNCHANGED Promise!promiseVars
  <2>1. Unseen
    BY <1>33, Names
    DEF CloseAnswered, Unseen, Return, Goto, Stoppers, Ground, Typed, CallsTyped,
        TurnTyped
  <2>2. UNCHANGED stream /\ \A q \in Prompts : result'[q] = result[q]
    <3>1. UNCHANGED stream /\ (result' = result \/ \E v : result' = [result EXCEPT ![c] = v])
      BY <1>33 DEF CloseAnswered, Return, Goto
    <3>2. \A q \in Prompts : q # c
      BY Names DEF Stoppers
    <3>3. QED
      BY <3>1, <3>2, Names DEF Ground, Typed, CallsTyped
  <2>3. QED
    BY <2>1, <2>2, Stutters
<1>34. ASSUME NEW c \in Stoppers, CancelTimeout(c)
       PROVE  Promise!Next \/ UNCHANGED Promise!promiseVars
  <2>1. Unseen
    BY <1>34, Names
    DEF CancelTimeout, Unseen, Return, Goto, Stoppers, Ground, Typed, CallsTyped,
        TurnTyped
  <2>2. UNCHANGED stream /\ \A q \in Prompts : result'[q] = result[q]
    BY <1>34, Names
    DEF CancelTimeout, Return, Goto, Stoppers, Ground, Typed, CallsTyped, TurnTyped
  <2>3. QED
    BY <2>1, <2>2, Stutters
<1>35. ASSUME NEW c \in Configs, ConfigStart(c)
       PROVE  Promise!Next \/ UNCHANGED Promise!promiseVars
  <2>1. Unseen
    BY <1>35, Names
    DEF ConfigStart, Unseen, Return, Goto, Stoppers, Ground, Typed, CallsTyped,
        TurnTyped
  <2>2. UNCHANGED stream /\ \A q \in Prompts : result'[q] = result[q]
    BY <1>35, Names
    DEF ConfigStart, Return, Goto, Stoppers, Ground, Typed, CallsTyped, TurnTyped
  <2>3. QED
    BY <2>1, <2>2, Stutters
<1>36. ASSUME NEW c \in Configs, ConfigAnswered(c)
       PROVE  Promise!Next \/ UNCHANGED Promise!promiseVars
  <2>1. Unseen
    BY <1>36, Names
    DEF ConfigAnswered, Unseen, Return, Goto, Stoppers, Ground, Typed, CallsTyped,
        TurnTyped
  <2>2. UNCHANGED stream /\ \A q \in Prompts : result'[q] = result[q]
    <3>1. UNCHANGED stream /\ (result' = result \/ \E v : result' = [result EXCEPT ![c] = v])
      BY <1>36 DEF ConfigAnswered, Return, Goto
    <3>2. \A q \in Prompts : q # c
      BY Names DEF Stoppers
    <3>3. QED
      BY <3>1, <3>2, Names DEF Ground, Typed, CallsTyped
  <2>3. QED
    BY <2>1, <2>2, Stutters
<1>37. ASSUME NEW c \in Configs, ConfigEmit(c)
       PROVE  Promise!Next \/ UNCHANGED Promise!promiseVars
  <2> DEFINE item == Item(about[c], "config", None, 0)
  <2>1. /\ UNCHANGED <<open, worker, turn>> /\ pc[c] = "emit"
        /\ \A p \in Prompts : result'[p] = result[p]
    BY <1>37, Names DEF ConfigEmit, At, Return, Ground, Typed, CallsTyped
  <2>2. Unseen
    BY <2>1 DEF Unseen
  <2>3. CASE stream' = stream
    BY <2>1, <2>2, <2>3, Stutters
  <2>4. CASE stream' = Append(stream, item) /\ Sendable
    <3>1. /\ item.request = about[c] /\ item.kind = "config" /\ about[c] \in Turns
          /\ item.kind \in Promise!Progress
      BY Names DEF Item, Promise!Progress, Ground, Typed, CallsTyped
    <3>2. Accountable(about[c]) /\ open
      BY <2>1, <2>4 DEF Ground, Accounted, Sendable
    <3>3. \/ about[c] = None
          \/ about[c] = turn.reserved /\ worker.pc # "reset"
          \/ Promise!Streamed(about[c], Promise!Terminals)
      <4>1. CASE worker.pc = "reset" /\ about[c] = turn.current
        <5>1. Promise!Streamed(turn.current, {TerminalKind(worker.outcome)})
          BY <4>1 DEF Ground, Reported, OneTurn
        <5>2. QED
          BY <4>1, <5>1 DEF Promise!Streamed, Promise!Terminals, TerminalKind
      <4>2. QED
        BY <3>2, <4>1 DEF Accountable, Ground, OneTurn
    <3>4. QED
      BY <2>1, <2>2, <2>4, <3>1, <3>2, <3>3, Reports
  <2>5. QED BY <1>37, <2>3, <2>4, EmitShows DEF ConfigEmit
<1>38. ASSUME LeaseDrop
       PROVE  Promise!Next \/ UNCHANGED Promise!promiseVars
  <2>1. Unseen
    BY <1>38, Names
    DEF LeaseDrop, Unseen, Return, Goto, Stoppers, Ground, Typed, CallsTyped,
        TurnTyped
  <2>2. UNCHANGED stream /\ \A q \in Prompts : result'[q] = result[q]
    BY <1>38, Names
    DEF LeaseDrop, Return, Goto, Stoppers, Ground, Typed, CallsTyped, TurnTyped
  <2>3. QED
    BY <2>1, <2>2, Stutters
<1>39. ASSUME Consume
       PROVE  Promise!Next \/ UNCHANGED Promise!promiseVars
  <2>1. Unseen
    BY <1>39 DEF Consume, Unseen
  <2>2. UNCHANGED stream /\ \A q \in Prompts : result'[q] = result[q]
    BY <1>39 DEF Consume
  <2>3. QED
    BY <2>1, <2>2, Stutters
<1>40. ASSUME StopReading
       PROVE  Promise!Next \/ UNCHANGED Promise!promiseVars
  <2>1. Unseen
    BY <1>40 DEF StopReading, Unseen
  <2>2. UNCHANGED stream /\ \A q \in Prompts : result'[q] = result[q]
    BY <1>40 DEF StopReading
  <2>3. QED
    BY <2>1, <2>2, Stutters
<1>41. ASSUME NEW n \in Ids, RespondPermission(n)
       PROVE  Promise!Next \/ UNCHANGED Promise!promiseVars
  <2>1. Unseen
    BY <1>41 DEF RespondPermission, Unseen
  <2>2. UNCHANGED stream /\ \A q \in Prompts : result'[q] = result[q]
    BY <1>41 DEF RespondPermission
  <2>3. QED
    BY <2>1, <2>2, Stutters
<1>42. ASSUME NEW k \in {"update", "permission"}, AgentSends(k)
       PROVE  Promise!Next \/ UNCHANGED Promise!promiseVars
  <2>1. Unseen
    BY <1>42 DEF AgentSends, Unseen
  <2>2. UNCHANGED stream /\ \A q \in Prompts : result'[q] = result[q]
    BY <1>42 DEF AgentSends
  <2>3. QED
    BY <2>1, <2>2, Stutters
<1>43. ASSUME ConnectionLost
       PROVE  Promise!Next \/ UNCHANGED Promise!promiseVars
  <2>1. Unseen
    BY <1>43 DEF ConnectionLost, Unseen
  <2>2. UNCHANGED stream /\ \A q \in Prompts : result'[q] = result[q]
    BY <1>43 DEF ConnectionLost
  <2>3. QED
    BY <2>1, <2>2, Stutters
<1>44. ASSUME NEW o \in Reasons \cup {"agent"}, AgentAnswer(o)
       PROVE  Promise!Next \/ UNCHANGED Promise!promiseVars
  <2>1. Unseen
    BY <1>44 DEF AgentAnswer, Unseen
  <2>2. UNCHANGED stream /\ \A q \in Prompts : result'[q] = result[q]
    BY <1>44 DEF AgentAnswer
  <2>3. QED
    BY <2>1, <2>2, Stutters
<1>45. QED
  BY <1>1, <1>2, <1>3, <1>4, <1>5, <1>6, <1>7, <1>8, <1>9, <1>10, <1>11, <1>12,
     <1>13, <1>14, <1>15, <1>16, <1>17, <1>18, <1>19, <1>20, <1>21, <1>22, <1>23,
     <1>24, <1>25, <1>26, <1>27, <1>28, <1>29, <1>30, <1>31, <1>32, <1>33, <1>34,
     <1>35, <1>36, <1>37, <1>38, <1>39, <1>40, <1>41, <1>42, <1>43, <1>44
  DEF Next, WorkerNext, WorkerStep, CloseStep, CallNext, PromptStep, StopperStep,
      ConfigStep, AppNext, AgentNext

\* The initial states of the session are initial states of the promise.
LEMMA PromiseStarts ==
  ASSUME Init
  PROVE  Promise!Init
BY Names DEF Init, Promise!Init, Phase, Holder, Told, Promise!NoOne, None, Free

\* A stutter of the session is a stutter of the promise.
LEMMA PromiseStands ==
  ASSUME UNCHANGED vars
  PROVE  UNCHANGED Promise!promiseVars
BY DEF vars, handleVars, lifeVars, outVars, callVars, Promise!promiseVars, Phase,
       Holder, Told

\* "One ordered event stream" (session.rs:1): whatever the worker, the calls, the
\* closes and the faults make of one another, for every set of calls and every
\* capacity, the session shows its turns one after the other, each within its
\* reservation and with one terminal event before the next, and tells a prompt a stop
\* reason only after the stream has it.
THEOREM SessionKeepsPromise == Spec => KeepsPromise
<1>1. Init => Promise!Init
  BY PromiseStarts
<1>2. Ground /\ [Next]_vars => [Promise!Next]_(Promise!promiseVars)
  BY PromiseKept, PromiseStands
<1>3. Spec => []Ground
  BY SessionTyped, SessionHasOneTurn, SessionReports, SessionAccounts, SessionTellsOnce,
     PTL DEF Ground
<1>4. QED
  BY <1>1, <1>2, <1>3, PTL DEF Spec, KeepsPromise, Promise!Spec

================================================================================
