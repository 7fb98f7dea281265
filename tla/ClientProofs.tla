------------------------------ MODULE ClientProofs ------------------------------
(***************************************************************************)
(* What Client promises of a shared connection, proved for every set of    *)
(* calls, of sessions and of faults.                                       *)
(***************************************************************************)
EXTENDS Client, TLAPS

--------------------------------------------------------------------------------
(* Types *)

Labels == {"start", "wait", "drain", "join", "request", "yield", "configure", "done"}
Values == Errors \cup {None, "ok"}

CallsTyped ==
  /\ pc \in [Calls -> Labels] /\ result \in [Calls -> Values]
  /\ \A c \in Calls : pc[c] = "done" <=> result[c] # None

\* TypeOK gives the types of what belongs to the calls.
LEMMA CallsAreTyped == TypeOK => CallsTyped
BY DEF TypeOK, CallsTyped, Labels, Values

\* A call that returns has a result, one that goes on has none.
LEMMA ReturnType ==
  ASSUME CallsTyped, NEW c \in Calls, NEW v \in Values \ {None}, Return(c, v)
  PROVE  CallsTyped'
BY DEF CallsTyped, Return, Labels, Values, Errors, None

\* A call that goes to a step of its program keeps its types.
LEMMA GotoType ==
  ASSUME CallsTyped, NEW c \in Calls, NEW l \in Labels \ {"done"}, pc[c] # "done",
         Goto(c, l)
  PROVE  CallsTyped'
BY DEF CallsTyped, Goto, Labels, Values, Errors, None

\* What a closed connection is told to be.
LEMMA ErrorType == TypeOK => Error \in Values \ {None}
BY DEF TypeOK, Error, Values, Errors, None

\* The first step of a session's close.
LEMMA CloseBeginsType ==
  ASSUME TypeOK, NEW s \in Opens, NEW stops \in BOOLEAN, CloseBegins(s, stops)
  PROVE  /\ session' \in [Opens -> {"absent", "open", "taken", "closed"}]
         /\ stop' \in [Opens -> BOOLEAN]
BY DEF TypeOK, CloseBegins

\* The types hold before connect is called.
LEMMA TypeStart ==
  ASSUME Init
  PROVE  TypeOK
BY DEF Init, TypeOK, None, Errors, Calls

\* Each step keeps the types.
LEMMA TypeKept ==
  ASSUME TypeOK, Next
  PROVE  TypeOK'
<1> USE ClientConstants
    DEF ClientConstants, None, Ops, Calls, clientVars,
        linkVars, callVars, sessionVars, callFrame, sessionFrame, workerFrame,
        taskFrame, Keep, Abort, AbortIf, Return, Goto, CloseBegins, TypeOK, Error,
        Errors
<1>1. ASSUME ConnectStart
      PROVE  TypeOK'
  BY <1>1 DEF ConnectStart
<1>2. ASSUME ConnectReady
      PROVE  TypeOK'
  BY <1>2 DEF ConnectReady
<1>3. ASSUME ConnectBroken
      PROVE  TypeOK'
  BY <1>3 DEF ConnectBroken
<1>4. ASSUME ConnectDrained
      PROVE  TypeOK'
  BY <1>4 DEF ConnectDrained
<1>5. ASSUME NEW why \in {"timeout", "drop"}, ConnectGivesUp(why)
      PROVE  TypeOK'
  BY <1>5 DEF ConnectGivesUp
<1>6. ASSUME TaskReady
      PROVE  TypeOK'
  BY <1>6 DEF TaskReady
<1>7. ASSUME TaskRefused
      PROVE  TypeOK'
  BY <1>7 DEF TaskRefused
<1>8. ASSUME TaskServed
      PROVE  TypeOK'
  BY <1>8 DEF TaskServed
<1>9. ASSUME TaskOver
      PROVE  TypeOK'
  BY <1>9 DEF TaskOver
<1>10. ASSUME TaskDropped
       PROVE  TypeOK'
  BY <1>10 DEF TaskDropped
<1>11. ASSUME NEW c \in Closes, CloseStart(c)
       PROVE  TypeOK'
  <2>1. CallsTyped'
    <3> HIDE DEF Return, Goto, Calls, TypeOK, Error, Errors, None
    <3>1. c \in Calls
      BY DEF Calls
    <3>2. CASE task = "held"
      BY <1>11, <3>1, <3>2, CallsAreTyped, GotoType DEF CloseStart, Labels
    <3>3. CASE task # "held"
      BY <1>11, <3>1, <3>3, CallsAreTyped, ReturnType DEF CloseStart, Values, None
    <3>4. QED BY <3>2, <3>3
  <2>2. shutdown' \in BOOLEAN /\ closed' \in BOOLEAN /\ task' \in {None, "held"} \cup Closes
    BY <1>11 DEF CloseStart
  <2>3. QED BY <1>11, <2>1, <2>2 DEF CloseStart, CallsTyped, Labels, Values
<1>12. ASSUME NEW c \in Closes, CloseJoined(c)
       PROVE  TypeOK'
  BY <1>12 DEF CloseJoined
<1>13. ASSUME NEW c \in Closes, CloseTimeout(c)
       PROVE  TypeOK'
  BY <1>13 DEF CloseTimeout
<1>14. ASSUME NEW c \in Closes, CloseDrop(c)
       PROVE  TypeOK'
  BY <1>14 DEF CloseDrop
<1>15. ASSUME NEW o \in Ops, OpStart(o)
       PROVE  TypeOK'
  BY <1>15 DEF OpStart
<1>16. ASSUME NEW o \in Ops, AgentReplies(o)
       PROVE  TypeOK'
  BY <1>16 DEF AgentReplies
<1>17. ASSUME NEW o \in Ops, OpGranted(o)
       PROVE  TypeOK'
  <2>1. CallsTyped'
    <3> HIDE DEF Return, Goto, Calls, TypeOK, Error, Errors, None
    <3>1. o \in Calls
      BY DEF Calls
    <3>3. CASE Return(o, "ok")
      BY <3>1, <3>3, CallsAreTyped, ReturnType DEF Values, None
    <3>4. CASE Goto(o, "configure")
      BY <1>17, <3>1, <3>4, CallsAreTyped, GotoType DEF OpGranted, Labels
    <3>5. QED BY <1>17, <3>3, <3>4 DEF OpGranted
  <2>2. /\ session' \in [Opens -> {"absent", "open", "taken", "closed"}]
        /\ held' \in [Opens -> BOOLEAN] /\ stop' \in [Opens -> BOOLEAN]
        /\ worker' \in [Opens -> {"absent", "top", "poll", "step", "failed", "broken",
                                 "dead"}]
    BY ZenonT(60), <1>17 DEF OpGranted
  <2>3. QED BY <1>17, <2>1, <2>2 DEF OpGranted, CallsTyped, Labels, Values
<1>18. ASSUME NEW o \in Ops, OpRefused(o)
       PROVE  TypeOK'
  BY <1>18 DEF OpRefused
<1>19. ASSUME NEW o \in Ops, OpYielded(o)
       PROVE  TypeOK'
  BY <1>19 DEF OpYielded
<1>20. ASSUME NEW o \in Ops, OpTimeout(o)
       PROVE  TypeOK'
  BY <1>20 DEF OpTimeout
<1>21. ASSUME NEW o \in Ops, OpDrop(o)
       PROVE  TypeOK'
  <2>1. CallsTyped'
    <3> HIDE DEF Return, Goto, Calls, TypeOK, Error, Errors, None
    <3>1. o \in Calls /\ "drop" \in Values \ {None}
      BY DEF Calls, Values, Errors, None
    <3>2. Return(o, "drop")
      BY <1>21 DEF OpDrop
    <3>3. QED BY <3>1, <3>2, CallsAreTyped, ReturnType
  <2>2. /\ session' \in [Opens -> {"absent", "open", "taken", "closed"}]
        /\ held' \in [Opens -> BOOLEAN] /\ stop' \in [Opens -> BOOLEAN]
        /\ UNCHANGED worker
    <3>1. CASE UNCHANGED sessionVars
      BY <3>1
    <3> HIDE DEF CloseBegins
    <3>2. CASE /\ o \in Opens /\ CloseBegins(o, FALSE)
               /\ held' = [held EXCEPT ![o] = FALSE] /\ UNCHANGED worker
      BY <3>2, CloseBeginsType
    <3>3. QED BY <1>21, <3>1, <3>2 DEF OpDrop
  <2>3. /\ shutdown' \in BOOLEAN /\ closed' \in BOOLEAN /\ aborted' \in BOOLEAN
        /\ UNCHANGED <<failure, task>>
    BY <1>21 DEF OpDrop
  <2>4. QED BY <1>21, <2>1, <2>2, <2>3 DEF OpDrop, CallsTyped, Labels, Values
<1>22. ASSUME NEW o \in Opens, OpConfigured(o)
       PROVE  TypeOK'
  <2>1. CallsTyped'
    <3> HIDE DEF Return, Goto, Calls, TypeOK, Error, Errors, None
    <3>1. o \in Calls /\ {"ok", "agent", "timeout"} \subseteq Values \ {None}
      BY DEF Calls, Values, Errors, None
    <3>2. PICK v \in Values \ {None} : Return(o, v)
      BY <1>22, <3>1, ErrorType DEF OpConfigured
    <3>3. QED BY <3>1, <3>2, CallsAreTyped, ReturnType
  <2>2. /\ session' \in [Opens -> {"absent", "open", "taken", "closed"}]
        /\ held' \in [Opens -> BOOLEAN] /\ stop' \in [Opens -> BOOLEAN]
        /\ UNCHANGED worker
    <3>1. CASE UNCHANGED sessionVars
      BY <3>1
    <3> HIDE DEF CloseBegins
    <3>2. CASE /\ CloseBegins(o, FALSE) \/ CloseBegins(o, TRUE)
               /\ held' = [held EXCEPT ![o] = FALSE] /\ UNCHANGED worker
      BY <3>2, CloseBeginsType
    <3>3. QED BY <1>22, <3>1, <3>2 DEF OpConfigured
  <2>3. /\ shutdown' \in BOOLEAN /\ closed' \in BOOLEAN /\ aborted' \in BOOLEAN
        /\ UNCHANGED <<failure, task>>
    BY <1>22 DEF OpConfigured
  <2>4. QED BY <1>22, <2>1, <2>2, <2>3 DEF OpConfigured, CallsTyped, Labels, Values
<1>23. ASSUME NEW s \in Opens, SessionClose(s)
       PROVE  TypeOK'
  BY <1>23 DEF SessionClose
<1>24. ASSUME NEW s \in Opens, SessionStops(s)
       PROVE  TypeOK'
  BY <1>24 DEF SessionStops
<1>25. ASSUME NEW s \in Opens, SessionSettles(s)
       PROVE  TypeOK'
  BY ZenonT(60), <1>25 DEF SessionSettles
<1>26. ASSUME NEW s \in Opens, SessionDrop(s)
       PROVE  TypeOK'
  BY ZenonT(60), <1>26 DEF SessionDrop
<1>27. ASSUME NEW s \in Opens, WorkerTop(s)
       PROVE  TypeOK'
  BY <1>27 DEF WorkerTop
<1>28. ASSUME NEW s \in Opens, WorkerSelect(s)
       PROVE  TypeOK'
  BY <1>28 DEF WorkerSelect
<1>29. ASSUME NEW s \in Opens, WorkerStep(s)
       PROVE  TypeOK'
  BY <1>29 DEF WorkerStep
<1>30. ASSUME NEW s \in Opens, WorkerFails(s)
       PROVE  TypeOK'
  BY <1>30 DEF WorkerFails
<1>31. ASSUME ClientDrop
       PROVE  TypeOK'
  BY <1>31 DEF ClientDrop
<1>32. QED
  BY <1>1, <1>2, <1>3, <1>4, <1>5, <1>6, <1>7, <1>8, <1>9, <1>10, <1>11,
     <1>12, <1>13, <1>14, <1>15, <1>16, <1>17, <1>18, <1>19, <1>20, <1>21, <1>22,
     <1>23, <1>24, <1>25, <1>26, <1>27, <1>28, <1>29, <1>30, <1>31
  DEF Next, ConnectNext, TaskNext, CloseNext, OpNext, OpRuns, SessionNext, WorkerNext

\* A stuttering step keeps the types.
LEMMA TypeStands ==
  ASSUME TypeOK, UNCHANGED vars
  PROVE  TypeOK'
BY DEF TypeOK, vars, clientVars, linkVars, callVars, sessionVars

\* Every variable keeps its type, and a call has a result exactly when it is done.
THEOREM ClientTypeCorrect == Spec => []TypeOK
<1>1. Init => TypeOK
  BY TypeStart
<1>2. TypeOK /\ [Next]_vars => TypeOK'
  BY TypeKept, TypeStands
<1>3. QED BY <1>1, <1>2, PTL DEF Spec

--------------------------------------------------------------------------------
(* The parts of a client *)

\* How the calls, the client and its connection hang together: the connection is
\* there once connect is, a client is there only once connect was handed a
\* connection, and a call under way keeps the client.
Wiring ==
  /\ pc["connect"] \in {"start", "wait", "drain", "done"}
  /\ pc["connect"] = "start" <=> link = "absent"
  /\ pc["connect"] = "start" => task = None
  /\ pc["connect"] = "drain" => link \in {"cleaning", "over"}
  /\ ready => link \notin {"absent", "init"}
  /\ result["connect"] = "ok" => ready
  /\ lease => result["connect"] = "ok"
  /\ \A c \in Ops \cup Closes :
       /\ pc[c] # "start" => result["connect"] = "ok"
       /\ pc[c] \notin {"start", "done"} => lease
  /\ \A s \in Opens :
       /\ held[s] => result["connect"] = "ok"
       /\ session[s] = "absent" <=> worker[s] = "absent"

\* Nothing is wired before connect is called.
LEMMA WiringStart ==
  ASSUME Init
  PROVE  Wiring
BY ClientConstants DEF ClientConstants, Init, Wiring, None, Calls, Ops

\* Each step keeps the parts together.
LEMMA WiringKept ==
  ASSUME TypeOK, Wiring, Next
  PROVE  Wiring'
<1> USE ClientConstants
    DEF ClientConstants, None, Ops, Calls, clientVars,
        linkVars, callVars, sessionVars, callFrame, sessionFrame, workerFrame,
        taskFrame, Keep, Abort, AbortIf, Return, Goto, CloseBegins, TypeOK, Wiring,
        Error, Undisturbed, IsClosed
<1>1. ASSUME ConnectStart
      PROVE  Wiring'
  BY <1>1 DEF ConnectStart
<1>2. ASSUME ConnectReady
      PROVE  Wiring'
  BY <1>2 DEF ConnectReady
<1>3. ASSUME ConnectBroken
      PROVE  Wiring'
  BY <1>3 DEF ConnectBroken
<1>4. ASSUME ConnectDrained
      PROVE  Wiring'
  BY <1>4 DEF ConnectDrained
<1>5. ASSUME NEW why \in {"timeout", "drop"}, ConnectGivesUp(why)
      PROVE  Wiring'
  BY <1>5 DEF ConnectGivesUp
<1>6. ASSUME TaskReady
      PROVE  Wiring'
  BY <1>6 DEF TaskReady
<1>7. ASSUME TaskRefused
      PROVE  Wiring'
  BY <1>7 DEF TaskRefused
<1>8. ASSUME TaskServed
      PROVE  Wiring'
  BY <1>8 DEF TaskServed
<1>9. ASSUME TaskOver
      PROVE  Wiring'
  BY <1>9 DEF TaskOver
<1>10. ASSUME TaskDropped
       PROVE  Wiring'
  BY <1>10 DEF TaskDropped, ChildRuns
<1>11. ASSUME NEW c \in Closes, CloseStart(c)
       PROVE  Wiring'
  BY <1>11 DEF CloseStart
<1>12. ASSUME NEW c \in Closes, CloseJoined(c)
       PROVE  Wiring'
  BY <1>12 DEF CloseJoined
<1>13. ASSUME NEW c \in Closes, CloseTimeout(c)
       PROVE  Wiring'
  BY <1>13 DEF CloseTimeout
<1>14. ASSUME NEW c \in Closes, CloseDrop(c)
       PROVE  Wiring'
  BY <1>14 DEF CloseDrop
<1>15. ASSUME NEW o \in Ops, OpStart(o)
       PROVE  Wiring'
  BY <1>15 DEF OpStart
<1>16. ASSUME NEW o \in Ops, AgentReplies(o)
       PROVE  Wiring'
  BY <1>16 DEF AgentReplies
<1>17. ASSUME NEW o \in Ops, OpGranted(o)
       PROVE  Wiring'
  BY <1>17 DEF OpGranted
<1>18. ASSUME NEW o \in Ops, OpRefused(o)
       PROVE  Wiring'
  BY <1>18 DEF OpRefused
<1>19. ASSUME NEW o \in Ops, OpYielded(o)
       PROVE  Wiring'
  BY <1>19 DEF OpYielded
<1>20. ASSUME NEW o \in Ops, OpTimeout(o)
       PROVE  Wiring'
  BY <1>20 DEF OpTimeout
<1>21. ASSUME NEW o \in Ops, OpDrop(o)
       PROVE  Wiring'
  BY <1>21 DEF OpDrop
<1>22. ASSUME NEW o \in Opens, OpConfigured(o)
       PROVE  Wiring'
  BY <1>22 DEF OpConfigured
<1>23. ASSUME NEW s \in Opens, SessionClose(s)
       PROVE  Wiring'
  BY <1>23 DEF SessionClose
<1>24. ASSUME NEW s \in Opens, SessionStops(s)
       PROVE  Wiring'
  BY <1>24 DEF SessionStops
<1>25. ASSUME NEW s \in Opens, SessionSettles(s)
       PROVE  Wiring'
  BY <1>25 DEF SessionSettles
<1>26. ASSUME NEW s \in Opens, SessionDrop(s)
       PROVE  Wiring'
  BY <1>26 DEF SessionDrop
<1>27. ASSUME NEW s \in Opens, WorkerTop(s)
       PROVE  Wiring'
  BY <1>27 DEF WorkerTop
<1>28. ASSUME NEW s \in Opens, WorkerSelect(s)
       PROVE  Wiring'
  BY <1>28 DEF WorkerSelect
<1>29. ASSUME NEW s \in Opens, WorkerStep(s)
       PROVE  Wiring'
  BY <1>29 DEF WorkerStep
<1>30. ASSUME NEW s \in Opens, WorkerFails(s)
       PROVE  Wiring'
  BY <1>30 DEF WorkerFails
<1>31. ASSUME ClientDrop
       PROVE  Wiring'
  BY <1>31 DEF ClientDrop
<1>32. QED
  BY <1>1, <1>2, <1>3, <1>4, <1>5, <1>6, <1>7, <1>8, <1>9, <1>10, <1>11,
     <1>12, <1>13, <1>14, <1>15, <1>16, <1>17, <1>18, <1>19, <1>20, <1>21, <1>22,
     <1>23, <1>24, <1>25, <1>26, <1>27, <1>28, <1>29, <1>30, <1>31
  DEF Next, ConnectNext, TaskNext, CloseNext, OpNext, OpRuns, SessionNext, WorkerNext

\* A stuttering step keeps the wiring.
LEMMA WiringStands ==
  ASSUME Wiring, UNCHANGED vars
  PROVE  Wiring'
BY DEF Wiring, vars, clientVars, linkVars, callVars, sessionVars

\* The parts of a client fit together (client.rs:26).
THEOREM ClientIsWired == Spec => []Wiring
<1>1. Init => Wiring
  BY WiringStart
<1>2. TypeOK /\ Wiring /\ [Next]_vars => Wiring'
  BY WiringKept, WiringStands
<1>3. QED BY <1>1, <1>2, ClientTypeCorrect, PTL DEF Spec

--------------------------------------------------------------------------------
(* The close that waits *)

\* The close that took the handle waits or has returned; it returns "ok" only
\* after the task is over, and a task that is over stays over.
Handle ==
  \A c \in Closes :
    task = c => /\ pc[c] \in {"join", "done"}
                /\ result[c] = "ok" => link = "over" /\ closed

\* No close has taken a handle before there is one.
LEMMA HandleStart ==
  ASSUME Init
  PROVE  Handle
BY ClientConstants DEF ClientConstants, Init, Handle, None

\* Each step keeps the handle with the close that took it.
LEMMA HandleKept ==
  ASSUME TypeOK, Wiring, Handle, Next
  PROVE  Handle'
<1> USE ClientConstants
    DEF ClientConstants, None, Ops, Calls, clientVars,
        linkVars, callVars, sessionVars, callFrame, sessionFrame, workerFrame,
        taskFrame, Keep, Abort, AbortIf, Return, Goto, CloseBegins, TypeOK, Wiring,
        Handle, Error
<1>1. ASSUME ConnectStart
      PROVE  Handle'
  BY <1>1 DEF ConnectStart
<1>2. ASSUME ConnectReady
      PROVE  Handle'
  BY <1>2 DEF ConnectReady
<1>3. ASSUME ConnectBroken
      PROVE  Handle'
  BY <1>3 DEF ConnectBroken
<1>4. ASSUME ConnectDrained
      PROVE  Handle'
  BY <1>4 DEF ConnectDrained
<1>5. ASSUME NEW why \in {"timeout", "drop"}, ConnectGivesUp(why)
      PROVE  Handle'
  BY <1>5 DEF ConnectGivesUp
<1>6. ASSUME TaskReady
      PROVE  Handle'
  BY <1>6 DEF TaskReady
<1>7. ASSUME TaskRefused
      PROVE  Handle'
  BY <1>7 DEF TaskRefused
<1>8. ASSUME TaskServed
      PROVE  Handle'
  BY <1>8 DEF TaskServed
<1>9. ASSUME TaskOver
      PROVE  Handle'
  BY <1>9 DEF TaskOver
<1>10. ASSUME TaskDropped
       PROVE  Handle'
  BY <1>10 DEF TaskDropped
<1>11. ASSUME NEW c \in Closes, CloseStart(c)
       PROVE  Handle'
  BY <1>11 DEF CloseStart
<1>12. ASSUME NEW c \in Closes, CloseJoined(c)
       PROVE  Handle'
  BY <1>12 DEF CloseJoined
<1>13. ASSUME NEW c \in Closes, CloseTimeout(c)
       PROVE  Handle'
  BY <1>13 DEF CloseTimeout
<1>14. ASSUME NEW c \in Closes, CloseDrop(c)
       PROVE  Handle'
  BY <1>14 DEF CloseDrop
<1>15. ASSUME NEW o \in Ops, OpStart(o)
       PROVE  Handle'
  BY <1>15 DEF OpStart
<1>16. ASSUME NEW o \in Ops, AgentReplies(o)
       PROVE  Handle'
  BY <1>16 DEF AgentReplies
<1>17. ASSUME NEW o \in Ops, OpGranted(o)
       PROVE  Handle'
  BY <1>17 DEF OpGranted
<1>18. ASSUME NEW o \in Ops, OpRefused(o)
       PROVE  Handle'
  BY <1>18 DEF OpRefused
<1>19. ASSUME NEW o \in Ops, OpYielded(o)
       PROVE  Handle'
  BY <1>19 DEF OpYielded
<1>20. ASSUME NEW o \in Ops, OpTimeout(o)
       PROVE  Handle'
  BY <1>20 DEF OpTimeout
<1>21. ASSUME NEW o \in Ops, OpDrop(o)
       PROVE  Handle'
  BY <1>21 DEF OpDrop
<1>22. ASSUME NEW o \in Opens, OpConfigured(o)
       PROVE  Handle'
  BY <1>22 DEF OpConfigured
<1>23. ASSUME NEW s \in Opens, SessionClose(s)
       PROVE  Handle'
  BY <1>23 DEF SessionClose
<1>24. ASSUME NEW s \in Opens, SessionStops(s)
       PROVE  Handle'
  BY <1>24 DEF SessionStops
<1>25. ASSUME NEW s \in Opens, SessionSettles(s)
       PROVE  Handle'
  BY <1>25 DEF SessionSettles
<1>26. ASSUME NEW s \in Opens, SessionDrop(s)
       PROVE  Handle'
  BY <1>26 DEF SessionDrop
<1>27. ASSUME NEW s \in Opens, WorkerTop(s)
       PROVE  Handle'
  BY <1>27 DEF WorkerTop
<1>28. ASSUME NEW s \in Opens, WorkerSelect(s)
       PROVE  Handle'
  BY <1>28 DEF WorkerSelect
<1>29. ASSUME NEW s \in Opens, WorkerStep(s)
       PROVE  Handle'
  BY <1>29 DEF WorkerStep
<1>30. ASSUME NEW s \in Opens, WorkerFails(s)
       PROVE  Handle'
  BY <1>30 DEF WorkerFails
<1>31. ASSUME ClientDrop
       PROVE  Handle'
  BY <1>31 DEF ClientDrop
<1>32. QED
  BY <1>1, <1>2, <1>3, <1>4, <1>5, <1>6, <1>7, <1>8, <1>9, <1>10, <1>11,
     <1>12, <1>13, <1>14, <1>15, <1>16, <1>17, <1>18, <1>19, <1>20, <1>21, <1>22,
     <1>23, <1>24, <1>25, <1>26, <1>27, <1>28, <1>29, <1>30, <1>31
  DEF Next, ConnectNext, TaskNext, CloseNext, OpNext, OpRuns, SessionNext, WorkerNext

\* A stuttering step keeps the handle with its holder.
LEMMA HandleStands ==
  ASSUME Handle, UNCHANGED vars
  PROVE  Handle'
BY DEF Handle, vars, clientVars, linkVars, callVars, sessionVars

\* A close that waited for the task and returned Ok left no child and a closed
\* client (client.rs:370), whatever the other calls and the sessions did meanwhile.
THEOREM CloseLeavesNothing == Spec => []CloseCleansUp
<1>1. Init => Handle
  BY HandleStart
<1>2. TypeOK /\ Wiring /\ Handle /\ [Next]_vars => Handle'
  BY HandleKept, HandleStands
<1>3. Handle => CloseCleansUp
  BY DEF Handle, CloseCleansUp, ChildRuns
<1>4. QED BY <1>1, <1>2, <1>3, ClientTypeCorrect, ClientIsWired, PTL DEF Spec

--------------------------------------------------------------------------------
(* What closes the connection *)

\* The causes, as they last: until connect has returned nobody owns the client,
\* and that alone closes nothing.
Cause ==
  \/ \E c \in Closes : pc[c] # "start"
  \/ result["connect"] \notin {None, "ok"}
  \/ \E o \in Ops : result[o] = "timeout"
  \/ exited
  \/ \E s \in Opens : stop[s]
  \/ result["connect"] = "ok" /\ LastOwner(lease, held)

\* A cause remains one: no call returns twice, and without an owner there is no call
\* under way that could make a new one.
LEMMA CauseStays ==
  ASSUME TypeOK, Wiring, Cause, Next
  PROVE  Cause'
<1> USE ClientConstants
    DEF ClientConstants, None, Ops, Calls, clientVars,
        linkVars, callVars, sessionVars, callFrame, sessionFrame, workerFrame,
        taskFrame, Keep, Abort, AbortIf, Return, Goto, CloseBegins, TypeOK, Wiring,
        Cause, LastOwner
<1>1. ASSUME ConnectStart
      PROVE  Cause'
  BY <1>1 DEF ConnectStart
<1>2. ASSUME ConnectReady
      PROVE  Cause'
  BY <1>2 DEF ConnectReady
<1>3. ASSUME ConnectBroken
      PROVE  Cause'
  BY <1>3 DEF ConnectBroken
<1>4. ASSUME ConnectDrained
      PROVE  Cause'
  BY <1>4 DEF ConnectDrained
<1>5. ASSUME NEW why \in {"timeout", "drop"}, ConnectGivesUp(why)
      PROVE  Cause'
  BY <1>5 DEF ConnectGivesUp
<1>6. ASSUME TaskReady
      PROVE  Cause'
  BY <1>6 DEF TaskReady
<1>7. ASSUME TaskRefused
      PROVE  Cause'
  BY <1>7 DEF TaskRefused
<1>8. ASSUME TaskServed
      PROVE  Cause'
  BY <1>8 DEF TaskServed
<1>9. ASSUME TaskOver
      PROVE  Cause'
  BY <1>9 DEF TaskOver
<1>10. ASSUME TaskDropped
       PROVE  Cause'
  BY <1>10 DEF TaskDropped
<1>11. ASSUME NEW c \in Closes, CloseStart(c)
       PROVE  Cause'
  BY <1>11 DEF CloseStart
<1>12. ASSUME NEW c \in Closes, CloseJoined(c)
       PROVE  Cause'
  BY <1>12 DEF CloseJoined
<1>13. ASSUME NEW c \in Closes, CloseTimeout(c)
       PROVE  Cause'
  BY <1>13 DEF CloseTimeout
<1>14. ASSUME NEW c \in Closes, CloseDrop(c)
       PROVE  Cause'
  BY <1>14 DEF CloseDrop
<1>15. ASSUME NEW o \in Ops, OpStart(o)
       PROVE  Cause'
  BY <1>15 DEF OpStart
<1>16. ASSUME NEW o \in Ops, AgentReplies(o)
       PROVE  Cause'
  BY <1>16 DEF AgentReplies
<1>17. ASSUME NEW o \in Ops, OpGranted(o)
       PROVE  Cause'
  BY <1>17 DEF OpGranted
<1>18. ASSUME NEW o \in Ops, OpRefused(o)
       PROVE  Cause'
  BY <1>18 DEF OpRefused
<1>19. ASSUME NEW o \in Ops, OpYielded(o)
       PROVE  Cause'
  BY <1>19 DEF OpYielded
<1>20. ASSUME NEW o \in Ops, OpTimeout(o)
       PROVE  Cause'
  BY <1>20 DEF OpTimeout
<1>21. ASSUME NEW o \in Ops, OpDrop(o)
       PROVE  Cause'
  BY <1>21 DEF OpDrop
<1>22. ASSUME NEW o \in Opens, OpConfigured(o)
       PROVE  Cause'
  BY <1>22 DEF OpConfigured
<1>23. ASSUME NEW s \in Opens, SessionClose(s)
       PROVE  Cause'
  BY <1>23 DEF SessionClose
<1>24. ASSUME NEW s \in Opens, SessionStops(s)
       PROVE  Cause'
  BY <1>24 DEF SessionStops
<1>25. ASSUME NEW s \in Opens, SessionSettles(s)
       PROVE  Cause'
  BY <1>25 DEF SessionSettles
<1>26. ASSUME NEW s \in Opens, SessionDrop(s)
       PROVE  Cause'
  BY <1>26 DEF SessionDrop
<1>27. ASSUME NEW s \in Opens, WorkerTop(s)
       PROVE  Cause'
  BY <1>27 DEF WorkerTop
<1>28. ASSUME NEW s \in Opens, WorkerSelect(s)
       PROVE  Cause'
  BY <1>28 DEF WorkerSelect
<1>29. ASSUME NEW s \in Opens, WorkerStep(s)
       PROVE  Cause'
  BY <1>29 DEF WorkerStep
<1>30. ASSUME NEW s \in Opens, WorkerFails(s)
       PROVE  Cause'
  BY <1>30 DEF WorkerFails
<1>31. ASSUME ClientDrop
       PROVE  Cause'
  BY <1>31 DEF ClientDrop
<1>32. QED
  <2> HIDE DEF Cause, TypeOK, Wiring
  <2> QED
    BY <1>1, <1>2, <1>3, <1>4, <1>5, <1>6, <1>7, <1>8, <1>9, <1>10, <1>11,
       <1>12, <1>13, <1>14, <1>15, <1>16, <1>17, <1>18, <1>19, <1>20, <1>21, <1>22,
       <1>23, <1>24, <1>25, <1>26, <1>27, <1>28, <1>29, <1>30, <1>31
    DEF Next, ConnectNext, TaskNext, CloseNext, OpNext, OpRuns, SessionNext, WorkerNext

\* On one thread a session is closed only while its worker waits: in the middle of
\* a run the worker finds it open.
Attached == \A s \in Opens : worker[s] \in {"top", "step"} => session[s] = "open"

\* Each step keeps that.
LEMMA AttachedKept ==
  ASSUME TypeOK, Wiring, Attached, Threads = "one", Next
  PROVE  Attached'
<1> USE ClientConstants
    DEF ClientConstants, None, Ops, Calls, clientVars,
        linkVars, callVars, sessionVars, callFrame, sessionFrame, workerFrame,
        taskFrame, Keep, Abort, AbortIf, Return, Goto, CloseBegins, TypeOK, Wiring,
        Attached, Undisturbed, IsClosed
<1>1. ASSUME ConnectStart
      PROVE  Attached'
  BY <1>1 DEF ConnectStart
<1>2. ASSUME ConnectReady
      PROVE  Attached'
  BY <1>2 DEF ConnectReady
<1>3. ASSUME ConnectBroken
      PROVE  Attached'
  BY <1>3 DEF ConnectBroken
<1>4. ASSUME ConnectDrained
      PROVE  Attached'
  BY <1>4 DEF ConnectDrained
<1>5. ASSUME NEW why \in {"timeout", "drop"}, ConnectGivesUp(why)
      PROVE  Attached'
  BY <1>5 DEF ConnectGivesUp
<1>6. ASSUME TaskReady
      PROVE  Attached'
  BY <1>6 DEF TaskReady
<1>7. ASSUME TaskRefused
      PROVE  Attached'
  BY <1>7 DEF TaskRefused
<1>8. ASSUME TaskServed
      PROVE  Attached'
  BY <1>8 DEF TaskServed
<1>9. ASSUME TaskOver
      PROVE  Attached'
  BY <1>9 DEF TaskOver
<1>10. ASSUME TaskDropped
       PROVE  Attached'
  BY <1>10 DEF TaskDropped
<1>11. ASSUME NEW c \in Closes, CloseStart(c)
       PROVE  Attached'
  BY <1>11 DEF CloseStart
<1>12. ASSUME NEW c \in Closes, CloseJoined(c)
       PROVE  Attached'
  BY <1>12 DEF CloseJoined
<1>13. ASSUME NEW c \in Closes, CloseTimeout(c)
       PROVE  Attached'
  BY <1>13 DEF CloseTimeout
<1>14. ASSUME NEW c \in Closes, CloseDrop(c)
       PROVE  Attached'
  BY <1>14 DEF CloseDrop
<1>15. ASSUME NEW o \in Ops, OpStart(o)
       PROVE  Attached'
  BY <1>15 DEF OpStart
<1>16. ASSUME NEW o \in Ops, AgentReplies(o)
       PROVE  Attached'
  BY <1>16 DEF AgentReplies
<1>17. ASSUME NEW o \in Ops, OpGranted(o)
       PROVE  Attached'
  BY <1>17 DEF OpGranted
<1>18. ASSUME NEW o \in Ops, OpRefused(o)
       PROVE  Attached'
  BY <1>18 DEF OpRefused
<1>19. ASSUME NEW o \in Ops, OpYielded(o)
       PROVE  Attached'
  BY <1>19 DEF OpYielded
<1>20. ASSUME NEW o \in Ops, OpTimeout(o)
       PROVE  Attached'
  BY <1>20 DEF OpTimeout
<1>21. ASSUME NEW o \in Ops, OpDrop(o)
       PROVE  Attached'
  BY <1>21 DEF OpDrop
<1>22. ASSUME NEW o \in Opens, OpConfigured(o)
       PROVE  Attached'
  BY <1>22 DEF OpConfigured
<1>23. ASSUME NEW s \in Opens, SessionClose(s)
       PROVE  Attached'
  BY <1>23 DEF SessionClose
<1>24. ASSUME NEW s \in Opens, SessionStops(s)
       PROVE  Attached'
  BY <1>24 DEF SessionStops
<1>25. ASSUME NEW s \in Opens, SessionSettles(s)
       PROVE  Attached'
  BY <1>25 DEF SessionSettles
<1>26. ASSUME NEW s \in Opens, SessionDrop(s)
       PROVE  Attached'
  BY <1>26 DEF SessionDrop
<1>27. ASSUME NEW s \in Opens, WorkerTop(s)
       PROVE  Attached'
  BY <1>27 DEF WorkerTop
<1>28. ASSUME NEW s \in Opens, WorkerSelect(s)
       PROVE  Attached'
  BY <1>28 DEF WorkerSelect
<1>29. ASSUME NEW s \in Opens, WorkerStep(s)
       PROVE  Attached'
  BY <1>29 DEF WorkerStep
<1>30. ASSUME NEW s \in Opens, WorkerFails(s)
       PROVE  Attached'
  BY <1>30 DEF WorkerFails
<1>31. ASSUME ClientDrop
       PROVE  Attached'
  BY <1>31 DEF ClientDrop
<1>32. QED
  BY <1>1, <1>2, <1>3, <1>4, <1>5, <1>6, <1>7, <1>8, <1>9, <1>10, <1>11,
     <1>12, <1>13, <1>14, <1>15, <1>16, <1>17, <1>18, <1>19, <1>20, <1>21, <1>22,
     <1>23, <1>24, <1>25, <1>26, <1>27, <1>28, <1>29, <1>30, <1>31
  DEF Next, ConnectNext, TaskNext, CloseNext, OpNext, OpRuns, SessionNext, WorkerNext

Stopping == shutdown \/ closed \/ aborted \/ link \in {"cleaning", "over"}

\* Whatever takes the connection down has a cause, and so has a worker that is
\* about to.
Caused ==
  /\ Stopping => Cause
  /\ \A s \in Opens : worker[s] = "failed" => Cause

\* A step that begins to stop a connection which nothing stopped before is a cause.
LEMMA NewCause ==
  ASSUME TypeOK, Wiring, Caused, Attached, Threads = "one", ~Cause, Next
  PROVE  Caused'
<1> USE ClientConstants
    DEF ClientConstants, None, Ops, Calls, clientVars,
        linkVars, callVars, sessionVars, callFrame, sessionFrame, workerFrame,
        taskFrame, Keep, Abort, AbortIf, Return, Goto, CloseBegins, TypeOK, Wiring,
        Stopping, Caused, Cause, Attached, Undisturbed, IsClosed, LastOwner, Error,
        Errors
<1>1. ASSUME ConnectStart
      PROVE  Caused'
  BY <1>1 DEF ConnectStart
<1>2. ASSUME ConnectReady
      PROVE  Caused'
  BY <1>2 DEF ConnectReady
<1>3. ASSUME ConnectBroken
      PROVE  Caused'
  BY <1>3 DEF ConnectBroken
<1>4. ASSUME ConnectDrained
      PROVE  Caused'
  BY <1>4 DEF ConnectDrained
<1>5. ASSUME NEW why \in {"timeout", "drop"}, ConnectGivesUp(why)
      PROVE  Caused'
  BY <1>5 DEF ConnectGivesUp
<1>6. ASSUME TaskReady
      PROVE  Caused'
  BY <1>6 DEF TaskReady
<1>7. ASSUME TaskRefused
      PROVE  Caused'
  BY <1>7 DEF TaskRefused
<1>8. ASSUME TaskServed
      PROVE  Caused'
  BY <1>8 DEF TaskServed
<1>9. ASSUME TaskOver
      PROVE  Caused'
  BY <1>9 DEF TaskOver
<1>10. ASSUME TaskDropped
       PROVE  Caused'
  BY <1>10 DEF TaskDropped
<1>11. ASSUME NEW c \in Closes, CloseStart(c)
       PROVE  Caused'
  BY <1>11 DEF CloseStart
<1>12. ASSUME NEW c \in Closes, CloseJoined(c)
       PROVE  Caused'
  BY <1>12 DEF CloseJoined
<1>13. ASSUME NEW c \in Closes, CloseTimeout(c)
       PROVE  Caused'
  BY <1>13 DEF CloseTimeout
<1>14. ASSUME NEW c \in Closes, CloseDrop(c)
       PROVE  Caused'
  BY <1>14 DEF CloseDrop
<1>15. ASSUME NEW o \in Ops, OpStart(o)
       PROVE  Caused'
  BY <1>15 DEF OpStart
<1>16. ASSUME NEW o \in Ops, AgentReplies(o)
       PROVE  Caused'
  BY <1>16 DEF AgentReplies
<1>17. ASSUME NEW o \in Ops, OpGranted(o)
       PROVE  Caused'
  BY <1>17 DEF OpGranted
<1>18. ASSUME NEW o \in Ops, OpRefused(o)
       PROVE  Caused'
  BY <1>18 DEF OpRefused
<1>19. ASSUME NEW o \in Ops, OpYielded(o)
       PROVE  Caused'
  BY <1>19 DEF OpYielded
<1>20. ASSUME NEW o \in Ops, OpTimeout(o)
       PROVE  Caused'
  BY <1>20 DEF OpTimeout
<1>21. ASSUME NEW o \in Ops, OpDrop(o)
       PROVE  Caused'
  BY <1>21 DEF OpDrop
<1>22. ASSUME NEW o \in Opens, OpConfigured(o)
       PROVE  Caused'
  BY <1>22 DEF OpConfigured
<1>23. ASSUME NEW s \in Opens, SessionClose(s)
       PROVE  Caused'
  BY <1>23 DEF SessionClose
<1>24. ASSUME NEW s \in Opens, SessionStops(s)
       PROVE  Caused'
  BY <1>24 DEF SessionStops
<1>25. ASSUME NEW s \in Opens, SessionSettles(s)
       PROVE  Caused'
  BY <1>25 DEF SessionSettles
<1>26. ASSUME NEW s \in Opens, SessionDrop(s)
       PROVE  Caused'
  BY <1>26 DEF SessionDrop
<1>27. ASSUME NEW s \in Opens, WorkerTop(s)
       PROVE  Caused'
  BY <1>27 DEF WorkerTop
<1>28. ASSUME NEW s \in Opens, WorkerSelect(s)
       PROVE  Caused'
  BY <1>28 DEF WorkerSelect
<1>29. ASSUME NEW s \in Opens, WorkerStep(s)
       PROVE  Caused'
  BY <1>29 DEF WorkerStep
<1>30. ASSUME NEW s \in Opens, WorkerFails(s)
       PROVE  Caused'
  <2>1. worker[s] = "broken"
    BY <1>30 DEF WorkerFails
  <2>2. stop' = [stop EXCEPT ![s] = TRUE] /\ s \in Opens /\ DOMAIN stop = Opens
    BY <1>30, <2>1 DEF WorkerFails
  <2> HIDE DEF TypeOK, Wiring, Caused, Attached, WorkerFails, Abort, Stopping
  <2>3. stop'[s]
    BY <2>2
  <2>4. Cause'
    BY <2>3
  <2>5. QED BY <2>4 DEF Caused
<1>31. ASSUME ClientDrop
       PROVE  Caused'
  BY <1>31 DEF ClientDrop
<1>32. QED
  <2> HIDE DEF Caused, Cause, Stopping, Attached, TypeOK, Wiring
  <2>1. CASE ConnectNext
    BY <1>1, <1>2, <1>3, <1>4, <1>5, <2>1, Zenon DEF ConnectNext
  <2>2. CASE TaskNext
    BY <1>6, <1>7, <1>8, <1>9, <1>10, <2>2, Zenon DEF TaskNext
  <2>3. CASE \E c \in Closes : CloseNext(c)
    BY <1>11, <1>12, <1>13, <1>14, <2>3, Zenon DEF CloseNext
  <2>4. CASE \E o \in Ops : OpNext(o)
    BY <1>15, <1>16, <1>17, <1>18, <1>19, <1>20, <1>21, <1>22, <2>4, Zenon
    DEF OpNext, OpRuns
  <2>5. CASE \E s \in Opens : SessionNext(s)
    BY <1>23, <1>24, <1>25, <1>26, <1>27, <1>28, <1>29, <1>30, <2>5, Zenon
    DEF SessionNext, WorkerNext
  <2>6. QED
    BY <1>31, <2>1, <2>2, <2>3, <2>4, <2>5, Zenon DEF Next

\* Nothing is closed at first, so no cause is owed.
LEMMA CausedStart ==
  ASSUME Init
  PROVE  Attached /\ Caused
BY DEF Init, Attached, Caused, Stopping

\* A stuttering step keeps every cause.
LEMMA CausedStands ==
  ASSUME Attached, Caused, UNCHANGED vars
  PROVE  Attached' /\ Caused'
BY DEF Attached, Caused, Stopping, Cause, LastOwner, vars, clientVars, linkVars, callVars,
       sessionVars

\* With one thread, the connection that all sessions share is closed for a cause:
\* closing one session, or an operation that the agent refuses, takes it from nobody
\* (session.rs:469, 508; README.md:136-138). With many threads ClientSpread refutes it.
THEOREM ClosingHasACause ==
  ASSUME Threads = "one"
  PROVE  Spec => []ClosesForACause
<1>1. Init => Attached /\ Caused
  BY CausedStart
<1>2. TypeOK /\ Wiring /\ Attached /\ Caused /\ [Next]_vars => Attached' /\ Caused'
  <2>1. ASSUME TypeOK, Wiring, Attached, Caused, Next
        PROVE  Attached' /\ Caused'
    <3>1. Attached'
      BY <2>1, AttachedKept
    <3>2. CASE Cause
      BY <2>1, <3>1, <3>2, CauseStays DEF Caused
    <3>3. CASE ~Cause
      BY <2>1, <3>1, <3>3, NewCause
    <3>4. QED BY <3>2, <3>3
  <2>2. QED BY <2>1, CausedStands
<1>3. TypeOK /\ Caused => ClosesForACause
  BY DEF Caused, Stopping, Cause, ClosesForACause
<1>4. QED BY <1>1, <1>2, <1>3, ClientTypeCorrect, ClientIsWired, PTL DEF Spec
================================================================================
