-------------------------------- MODULE Session --------------------------------
(***************************************************************************)
(* One native session (src/native/session.rs): the worker task that owns   *)
(* routing, the application's concurrent calls on its handle (prompt,      *)
(* cancel, close, set_config_option, respond_permission, dropping either a *)
(* prompt or the last handle), the consumer of the bounded event stream,   *)
(* and, as the environment, the agent behind the SDK.                      *)
(*                                                                         *)
(* A step is what runs under one lock or between two awaits. The runtime   *)
(* has several threads, so steps of the worker and of the calls interleave *)
(* freely: what one step read may be stale in the next.                    *)
(***************************************************************************)
EXTENDS Integers, Sequences, FiniteSets

CONSTANTS
  Prompts,         \* prompt calls; each is its own request id
  Cancels,         \* cancel calls
  Closers,         \* close calls
  Configs,         \* set_config_option calls
  Capacity,        \* options.event_capacity
  Policy,          \* options.permissions: "ask" or "deny"
  MaxMessages,     \* bound: updates and permission requests the agent sends
  Faults           \* which of FaultKinds may happen

FaultKinds == {"timeout", "drop", "lost", "deaf", "release"}

ASSUME SessionConstants ==
  /\ Capacity \in Nat \ {0}
  /\ Policy \in {"ask", "deny"}
  /\ MaxMessages \in Nat
  /\ Faults \subseteq FaultKinds
  /\ \A call \in {"none", "lease", "worker"} :
       call \notin Prompts \cup Cancels \cup Closers \cup Configs
  /\ Prompts \cap (Cancels \cup Closers \cup Configs) = {}
  /\ Cancels \cap (Closers \cup Configs) = {}
  /\ Closers \cap Configs = {}

None    == "none"
Reasons == {"end_turn", "cancelled"}
Errors  == {"closed", "timeout", "full", "agent", "internal", "lost"}

Stoppers == Cancels \cup Closers
Callers  == Prompts \cup Stoppers \cup Configs \cup {"lease"}
Procs    == Callers \cup {"worker"}
Ids      == 1..MaxMessages

VARIABLES
  \* SessionState
  turn,         \* the turn lock: reserved, current, cancelled
  activity, closed, failure,
  open,         \* the event sender is still in place
  permissions,  \* ids in the map of pending permissions
  \* the stream: all events sent so far, and how many the application took
  stream, taken, reading,
  \* the worker and what is queued for it
  worker, commands, inbox, completions,
  \* callers: where each call is, what it returned, the turn it is about
  pc, result, about,
  oneshot,      \* the result channel of each prompt
  closing,      \* SessionState::close in progress, per process
  \* the connection (ClientState) and the agent
  down, lost, agent, sent, owner, answer

handleVars == <<turn, activity>>
lifeVars   == <<closed, failure, open>>
outVars    == <<stream, taken, reading>>
permVars   == <<permissions, answer>>
queueVars  == <<commands, inbox, completions>>
callVars   == <<pc, result, about, oneshot>>
connVars   == <<down, lost>>
agentVars  == <<agent, sent, owner>>

vars == <<handleVars, lifeVars, outVars, permVars, worker, queueVars, callVars,
          closing, connVars, agentVars>>

Free == [reserved |-> None, current |-> None, cancelled |-> FALSE]
Calm == [stage |-> 0, error |-> None, stop |-> FALSE, request |-> None]

Init ==
  /\ turn = Free /\ activity = FALSE
  /\ closed = FALSE /\ failure = None /\ open = TRUE
  /\ stream = <<>> /\ taken = 0 /\ reading = TRUE
  /\ permissions = {} /\ answer = [n \in Ids |-> None]
  /\ worker = [pc |-> "top", active |-> None, outcome |-> None, ask |-> 0]
  /\ commands = <<>> /\ inbox = <<>> /\ completions = <<>>
  /\ pc = [c \in Callers |-> "start"]
  /\ result = [c \in Callers |-> None]
  /\ about = [c \in Callers |-> None]
  /\ oneshot = [p \in Prompts |-> None]
  /\ closing = [p \in Procs |-> Calm]
  /\ down = FALSE /\ lost = None
  /\ agent = [prompt |-> None, cancelled |-> FALSE]
  /\ sent = 0 /\ owner = [n \in Ids |-> None]

IsClosed == closed \/ down

\* SessionState::error, falling back on ClientState::error
Error == IF failure # None THEN failure
         ELSE IF lost # None THEN lost ELSE "closed"

\* run_session has returned: its receivers and result senders are dropped.
WorkerGone ==
  worker.pc = "dead" \/ (worker.pc = "failed" /\ closing["worker"] = Calm)

-----------------------------------------------------------------------------
(* Shared pieces *)

Deny ==
  /\ permissions' = {}
  /\ answer' = [n \in Ids |-> IF n \in permissions THEN "cancelled"
                              ELSE answer[n]]

\* try_send would succeed.
Sendable == open /\ reading /\ Len(stream) - taken < Capacity

Item(request, kind, of, id) ==
  [request |-> request, kind |-> kind, of |-> of, id |-> id]

Close(p, error, stop) ==
  closing' = [closing EXCEPT ![p] =
                [stage |-> 1, error |-> error, stop |-> stop, request |-> None]]

\* emit: send, or close the session when the buffer is full or the receiver
\* gone, or fail silently when the sender was taken already.
Emit(p, item) ==
  \/ /\ Sendable
     /\ stream' = Append(stream, item)
     /\ UNCHANGED closing
  \/ /\ open /\ ~Sendable
     /\ Close(p, IF reading THEN "full" ELSE "closed", TRUE)
     /\ UNCHANGED stream
  \/ /\ ~open
     /\ UNCHANGED <<stream, closing>>

Return(c, value) ==
  /\ pc' = [pc EXCEPT ![c] = "done"]
  /\ result' = [result EXCEPT ![c] = value]

Goto(c, label) ==
  /\ pc' = [pc EXCEPT ![c] = label]
  /\ UNCHANGED result

At(c, label) == pc[c] = label /\ closing[c] = Calm

-----------------------------------------------------------------------------
(* SessionState::close *)

\* When not closed yet: keep the error, tell the agent, deny what is pending.
\* When closed already only the connection is left to stop.
CloseEnter(p) ==
  /\ closing[p].stage = 1
  /\ \/ /\ ~closed
        /\ failure' = closing[p].error
        /\ agent' = [agent EXCEPT !.cancelled = @ \/ agent.prompt # None]
        /\ Deny
        /\ closing' = [closing EXCEPT ![p].stage = 2]
        /\ UNCHANGED down
     \/ /\ closed
        /\ down' = (down \/ closing[p].stop)
        /\ closing' = [closing EXCEPT ![p] = Calm]
        /\ UNCHANGED <<failure, agent, permVars>>
  /\ UNCHANGED <<handleVars, closed, open, outVars, worker, queueVars, callVars,
                 lost, sent, owner>>

\* Under the turn lock: the turn this close tells of.
CloseReadTurn(p) ==
  /\ closing[p].stage = 2
  /\ closing' = [closing EXCEPT ![p].stage = 3, ![p].request = turn.current]
  /\ UNCHANGED <<handleVars, lifeVars, outVars, permVars, worker, queueVars,
                 callVars, connVars, agentVars>>

\* Mutant: only a real error is told.
CloseTakeEventsQuiet(p) ==
  /\ closing[p].stage = 3
  /\ open' = FALSE
  /\ stream' = IF Sendable /\ closing[p].error # "closed"
               THEN Append(stream, Item(closing[p].request, "error",
                                        closing[p].request, 0))
               ELSE stream
  /\ closing' = [closing EXCEPT ![p].stage = 4]
  /\ UNCHANGED <<handleVars, closed, failure, taken, reading, permVars, worker,
                 queueVars, callVars, connVars, agentVars>>

\* Under the events lock: take the sender and try to tell the stream, of the turn
\* that was read and otherwise only of a real error. By now that turn may be over
\* and another one may have begun. A full buffer swallows it.
CloseTakeEvents(p) ==
  /\ closing[p].stage = 3
  /\ open' = FALSE
  /\ stream' =
       IF Sendable /\ (closing[p].request # None \/ closing[p].error # "closed")
       THEN Append(stream, Item(closing[p].request, "error", closing[p].request, 0))
       ELSE stream
  /\ closing' = [closing EXCEPT ![p].stage = 4]
  /\ UNCHANGED <<handleVars, closed, failure, taken, reading, permVars, worker,
                 queueVars, callVars, connVars, agentVars>>

CloseSettle(p) ==
  /\ closing[p].stage = 4
  /\ closed' = TRUE
  /\ activity' = FALSE
  /\ down' = (down \/ closing[p].stop)
  /\ closing' = [closing EXCEPT ![p] = Calm]
  /\ UNCHANGED <<turn, failure, open, outVars, permVars, worker, queueVars,
                 callVars, lost, agentVars>>

CloseStep(p) ==
  CloseEnter(p) \/ CloseReadTurn(p) \/ CloseTakeEvents(p) \/ CloseSettle(p)

-----------------------------------------------------------------------------
(* The worker: run_session *)

workerFrame == <<lifeVars, taken, reading, callVars, connVars, agentVars>>

\* The top of the loop.
WorkerTop ==
  /\ worker.pc = "top"
  /\ worker' = IF IsClosed
               THEN [worker EXCEPT !.pc = "failed", !.outcome = Error]
               ELSE [worker EXCEPT !.pc = "poll"]
  /\ UNCHANGED <<handleVars, permVars, stream, queueVars, closing, workerFrame>>

\* The worker ends; whatever is queued for it is dropped with its receivers.
Die ==
  /\ worker' = [worker EXCEPT !.pc = "dead", !.outcome = None]
  /\ commands' = <<>> /\ inbox' = <<>> /\ completions' = <<>>

\* First branches of the biased select: the session, then the connection.
PollClosed ==
  /\ worker.pc = "poll" /\ IsClosed
  /\ \/ closed /\ Die
     \/ /\ ~closed
        /\ worker' = [worker EXCEPT !.pc = "failed",
                        !.outcome = IF lost # None THEN lost ELSE "closed"]
        /\ UNCHANGED queueVars
  /\ UNCHANGED <<handleVars, permVars, stream, closing, workerFrame>>

\* The next message of the session is of this kind, and is taken.
Reads(kind) ==
  /\ worker.pc = "poll" /\ ~IsClosed
  /\ inbox # <<>> /\ Head(inbox).kind = kind
  /\ inbox' = Tail(inbox)
  /\ UNCHANGED <<commands, completions>>

\* Where an emit leaves the worker: a failed one ends run_session.
Emitted(success, error) ==
  worker' = [worker EXCEPT
               !.pc = IF Sendable THEN success ELSE "failed",
               !.outcome = IF Sendable THEN @ ELSE error]

PollUpdate ==
  /\ Reads("update")
  /\ Emit("worker", Item(turn.current, "update", owner[Head(inbox).id], 0))
  /\ Emitted("top", "internal")
  /\ UNCHANGED <<handleVars, permVars, workerFrame>>

\* A permission request: refused at once, or on its way into the map.
PollPermission ==
  /\ Reads("permission")
  /\ LET n == Head(inbox).id IN
     IF \/ Policy = "deny"
        \/ turn.cancelled
        \/ Cardinality(permissions) >= Capacity
     THEN /\ answer' = [answer EXCEPT ![n] = "cancelled"]
          /\ worker' = [worker EXCEPT !.pc = "top"]
     ELSE /\ worker' = [worker EXCEPT !.pc = "insert", !.ask = n]
          /\ UNCHANGED answer
  /\ UNCHANGED <<handleVars, permissions, stream, closing, workerFrame>>

\* Under the permissions lock: pending from here on.
InsertPermission ==
  /\ worker.pc = "insert"
  /\ permissions' = permissions \cup {worker.ask}
  /\ worker' = [worker EXCEPT !.pc = "ask"]
  /\ UNCHANGED <<handleVars, answer, stream, queueVars, closing, workerFrame>>

\* The application is asked; a cancel or close may have denied it meanwhile.
AskPermission ==
  /\ worker.pc = "ask"
  /\ Emit("worker", Item(turn.current, "permission", owner[worker.ask],
                         worker.ask))
  /\ worker' = [worker EXCEPT
                   !.pc = IF Sendable THEN "top" ELSE "failed",
                   !.outcome = IF Sendable THEN @ ELSE "internal",
                   !.ask = 0]
  /\ UNCHANGED <<handleVars, permVars, queueVars, workerFrame>>

\* No message was there when the reader was polled.
PollEmpty ==
  /\ worker.pc = "poll" /\ ~IsClosed /\ inbox = <<>>
  /\ worker' = [worker EXCEPT !.pc = "rest"]
  /\ UNCHANGED <<handleVars, permVars, stream, queueVars, closing, workerFrame>>

\* The other branches are polled after the reader: on another thread messages
\* and answers may have arrived since.
CanComplete == worker.active # None /\ completions # <<>>
CanAccept   == worker.active = None /\ commands # <<>>

PollCompletion ==
  /\ worker.pc = "rest" /\ CanComplete
  /\ completions' = Tail(completions)
  /\ worker' = [worker EXCEPT !.pc = "finish",
                              !.outcome = Head(completions).outcome]
  /\ UNCHANGED <<handleVars, permVars, stream, commands, inbox, closing,
                 workerFrame>>

\* Mutant: the turn is not marked as begun.
PollCommandUnmarked ==
  /\ worker.pc = "rest" /\ ~CanComplete /\ CanAccept
  /\ commands' = Tail(commands)
  /\ worker' =
       [worker EXCEPT
          !.active = Head(commands),
          !.pc = IF turn.cancelled \/ result[Head(commands)] # None
                 THEN "finish" ELSE "begin",
          !.outcome = "cancelled"]
  /\ UNCHANGED <<handleVars, permVars, stream, inbox, completions, closing,
                 workerFrame>>

\* A command starts its turn; one that was cancelled meanwhile, or whose caller no
\* longer waits for it, finishes without reaching the agent.
PollCommand ==
  /\ worker.pc = "rest" /\ ~CanComplete /\ CanAccept
  /\ commands' = Tail(commands)
  /\ turn' = [turn EXCEPT !.current = Head(commands)]
  /\ worker' =
       [worker EXCEPT
          !.active = Head(commands),
          !.pc = IF turn.cancelled \/ result[Head(commands)] # None
                 THEN "finish" ELSE "begin",
          !.outcome = "cancelled"]
  /\ UNCHANGED <<activity, permVars, stream, inbox, completions, closing,
                 workerFrame>>

\* The prompt goes to the agent (or the connection refuses it).
SendPrompt ==
  /\ worker.pc = "begin"
  /\ IF down
     THEN /\ worker' = [worker EXCEPT !.pc = "failed", !.outcome = "agent"]
          /\ UNCHANGED agent
     ELSE /\ worker' = [worker EXCEPT !.pc = "top"]
          /\ agent' = [prompt |-> worker.active, cancelled |-> FALSE]
  /\ UNCHANGED <<handleVars, permVars, stream, queueVars, closing, lifeVars,
                 taken, reading, callVars, connVars, sent, owner>>

\* Mutant: the timer forgets the request without answering it.
PollExpiryForgets(n) ==
  /\ worker.pc = "rest" /\ ~CanComplete /\ ~CanAccept
  /\ n \in permissions
  /\ permissions' = permissions \ {n}
  /\ worker' = [worker EXCEPT !.pc = "top"]
  /\ UNCHANGED <<handleVars, answer, stream, queueVars, closing, workerFrame>>

\* The expiry timer: one permission request has waited too long.
PollExpiry(n) ==
  /\ worker.pc = "rest" /\ ~CanComplete /\ ~CanAccept
  /\ n \in permissions
  /\ permissions' = permissions \ {n}
  /\ answer' = [answer EXCEPT ![n] = "cancelled"]
  /\ worker' = [worker EXCEPT !.pc = "top"]
  /\ UNCHANGED <<handleVars, stream, queueVars, closing, workerFrame>>

\* Nothing is ready: the worker sleeps until something is.
Park ==
  /\ worker.pc = "rest" /\ ~CanComplete /\ ~CanAccept
  /\ worker' = [worker EXCEPT !.pc = "poll"]
  /\ UNCHANGED <<handleVars, permVars, stream, queueVars, closing, workerFrame>>

\* How finish tells an outcome.
TerminalKind(outcome) == IF outcome \in Reasons THEN outcome ELSE "error"

\* Mutant: pending permissions are left alone.
FinishKeeps ==
  /\ worker.pc = "finish"
  /\ Emit("worker", Item(turn.current, TerminalKind(worker.outcome),
                         worker.active, 0))
  /\ Emitted("reset", "closed")
  /\ UNCHANGED <<handleVars, permVars, queueVars, workerFrame>>

\* Mutant: a terminal event that does not fit is ignored.
FinishAnyway ==
  /\ worker.pc = "finish"
  /\ Deny
  /\ stream' = IF Sendable
               THEN Append(stream, Item(turn.current, TerminalKind(worker.outcome),
                                        worker.active, 0))
               ELSE stream
  /\ worker' = [worker EXCEPT !.pc = "reset"]
  /\ UNCHANGED <<handleVars, queueVars, closing, workerFrame>>

\* SessionState::finish: deny what is pending and emit the terminal event,
\* then free the turn, then report that nothing is active.
Finish ==
  /\ worker.pc = "finish"
  /\ Deny
  /\ Emit("worker", Item(turn.current, TerminalKind(worker.outcome),
                         worker.active, 0))
  /\ Emitted("reset", "closed")
  /\ UNCHANGED <<handleVars, queueVars, workerFrame>>

\* Mutant: only the reservation is given back.
FreeTurnReservation ==
  /\ worker.pc = "reset"
  /\ turn' = [turn EXCEPT !.reserved = None, !.cancelled = FALSE]
  /\ worker' = [worker EXCEPT !.pc = "settle"]
  /\ UNCHANGED <<activity, permVars, stream, queueVars, closing, workerFrame>>

FreeTurn ==
  /\ worker.pc = "reset"
  /\ turn' = Free
  /\ worker' = [worker EXCEPT !.pc = "settle"]
  /\ UNCHANGED <<activity, permVars, stream, queueVars, closing, workerFrame>>

\* Mutant: the caller is told of success whatever the outcome.
SettleBlind ==
  /\ worker.pc = "settle"
  /\ activity' = FALSE
  /\ oneshot' = [oneshot EXCEPT ![worker.active] = "ok"]
  /\ worker' = [worker EXCEPT !.pc = "top", !.active = None, !.outcome = None]
  /\ UNCHANGED <<turn, permVars, stream, queueVars, closing, lifeVars, taken,
                 reading, pc, result, about, connVars, agentVars>>

\* The turn is over; its caller is told.
Settle ==
  /\ worker.pc = "settle"
  /\ activity' = FALSE
  /\ oneshot' = [oneshot EXCEPT ![worker.active] = worker.outcome]
  /\ worker' = [worker EXCEPT !.pc = "top", !.active = None, !.outcome = None]
  /\ UNCHANGED <<turn, permVars, stream, queueVars, closing, lifeVars, taken,
                 reading, pc, result, about, connVars, agentVars>>

\* run_session returned an error: close the session and its connection.
WorkerFails ==
  /\ worker.pc = "failed" /\ closing["worker"] = Calm
  /\ Die
  /\ Close("worker", worker.outcome, TRUE)
  /\ UNCHANGED <<handleVars, permVars, stream, workerFrame>>

WorkerStep ==
  \/ WorkerTop \/ PollClosed \/ PollUpdate \/ PollPermission
  \/ InsertPermission \/ AskPermission \/ PollEmpty \/ PollCompletion \/ PollCommand
  \/ SendPrompt \/ Park \/ Finish \/ FreeTurn \/ Settle \/ WorkerFails

WorkerNext == WorkerStep \/ \E n \in Ids : PollExpiry(n)

-----------------------------------------------------------------------------
(* SessionHandle::prompt *)

callFrame == <<open, outVars, worker, inbox, completions, lost, sent, owner>>

PromptStart(p) ==
  /\ At(p, "start")
  /\ IF IsClosed THEN Return(p, Error) ELSE Goto(p, "reserve")
  /\ UNCHANGED <<handleVars, closed, failure, permVars, commands, about, oneshot,
                 closing, down, agent, callFrame>>

\* Mutant: a second prompt is let in.
PromptReserveAlways(p) ==
  /\ At(p, "reserve")
  /\ Goto(p, "send")
  /\ turn' = [turn EXCEPT !.reserved = p, !.cancelled = FALSE]
  /\ activity' = TRUE
  /\ UNCHANGED <<closed, failure, permVars, commands, about, oneshot, closing,
                 down, agent, callFrame>>

\* Under the turn lock: one reservation at a time.
PromptReserve(p) ==
  /\ At(p, "reserve")
  /\ IF turn.reserved # None
     THEN Return(p, "busy") /\ UNCHANGED handleVars
     ELSE /\ Goto(p, "send")
          /\ turn' = [turn EXCEPT !.reserved = p, !.cancelled = FALSE]
          /\ activity' = TRUE
  /\ UNCHANGED <<closed, failure, permVars, commands, about, oneshot, closing,
                 down, agent, callFrame>>

\* Mutant: a worker that is gone is waited for.
PromptSendWaits(p) ==
  /\ At(p, "send")
  /\ ~WorkerGone /\ commands = <<>>
  /\ commands' = <<p>>
  /\ Goto(p, "wait")
  /\ UNCHANGED <<handleVars, closed, failure, permVars, about, oneshot, closing,
                 down, agent, callFrame>>

\* The command channel holds one command; it errs once the worker is gone.
PromptSend(p) ==
  /\ At(p, "send")
  /\ \/ /\ WorkerGone
        /\ pc' = [pc EXCEPT ![p] = "guard"]
        /\ result' = [result EXCEPT ![p] = Error]
        /\ UNCHANGED commands
     \/ /\ ~WorkerGone /\ commands = <<>>
        /\ commands' = <<p>>
        /\ Goto(p, "wait")
  /\ UNCHANGED <<handleVars, closed, failure, permVars, about, oneshot, closing,
                 down, agent, callFrame>>

\* The select of the waiting prompt takes any branch that is ready: the result,
\* a closed session or connection, a worker that is gone.
PromptReceive(p) ==
  /\ At(p, "wait")
  /\ \/ oneshot[p] # None /\ Return(p, oneshot[p])
     \/ IsClosed /\ Return(p, Error)
     \/ WorkerGone /\ oneshot[p] = None /\ Return(p, Error)
  /\ UNCHANGED <<handleVars, closed, failure, permVars, commands, about, oneshot,
                 closing, down, agent, callFrame>>

PromptTimeout(p) ==
  /\ "timeout" \in Faults
  /\ At(p, "wait")
  /\ Return(p, "timeout")
  /\ Close(p, "timeout", TRUE)
  /\ UNCHANGED <<handleVars, closed, failure, permVars, commands, about, oneshot,
                 down, agent, callFrame>>

\* The application drops the future.
PromptDrop(p) ==
  /\ "drop" \in Faults
  /\ At(p, "send") \/ At(p, "wait")
  /\ pc' = [pc EXCEPT ![p] = "guard"]
  /\ result' = [result EXCEPT ![p] = "dropped"]
  /\ UNCHANGED <<handleVars, closed, failure, permVars, commands, about, oneshot,
                 closing, down, agent, callFrame>>

\* Mutant: the guard is disarmed as soon as the worker has the command.
PromptGuardEarly(p) ==
  /\ At(p, "guard")
  /\ pc' = [pc EXCEPT ![p] = "done"]
  /\ IF turn.reserved = p /\ turn.current # p
     THEN Close(p, "closed", TRUE) ELSE UNCHANGED closing
  /\ UNCHANGED <<handleVars, closed, failure, permVars, commands, result, about,
                 oneshot, down, agent, callFrame>>

\* PromptGuard: a prompt that still holds the turn takes the session with it.
PromptGuard(p) ==
  /\ At(p, "guard")
  /\ pc' = [pc EXCEPT ![p] = "done"]
  /\ IF turn.reserved = p THEN Close(p, "closed", TRUE) ELSE UNCHANGED closing
  /\ UNCHANGED <<handleVars, closed, failure, permVars, commands, result, about,
                 oneshot, down, agent, callFrame>>

PromptStep(p) ==
  PromptStart(p) \/ PromptReserve(p) \/ PromptSend(p) \/ PromptReceive(p)
    \/ PromptGuard(p)

-----------------------------------------------------------------------------
(* SessionHandle::cancel, and SessionHandle::close which begins with it *)

\* cancel returned Ok: a close goes on to close the session at the agent.
Cancelled(c) == IF c \in Closers THEN Goto(c, "request") ELSE Return(c, "ok")

\* close looks first whether there is anything to do, then cancels.
CloseStart(c) ==
  /\ c \in Closers /\ At(c, "start")
  /\ IF IsClosed THEN Return(c, "ok") ELSE Goto(c, "check")
  /\ UNCHANGED <<handleVars, closed, failure, permVars, commands, about, oneshot,
                 closing, down, agent, callFrame>>

CancelStart(c) ==
  /\ At(c, IF c \in Closers THEN "check" ELSE "start")
  /\ IF IsClosed THEN Return(c, Error) ELSE Goto(c, "lock")
  /\ UNCHANGED <<handleVars, closed, failure, permVars, commands, about, oneshot,
                 closing, down, agent, callFrame>>

\* Under the turn lock: whoever holds the turn now is the one to be cancelled.
CancelTurn(c) ==
  /\ At(c, "lock")
  /\ IF turn.reserved = None
     THEN Cancelled(c) /\ UNCHANGED <<turn, about>>
     ELSE /\ Goto(c, "notify")
          /\ turn' = [turn EXCEPT !.cancelled = TRUE]
          /\ about' = [about EXCEPT ![c] = turn.reserved]
  /\ UNCHANGED <<activity, closed, failure, permVars, commands, oneshot, closing,
                 down, agent, callFrame>>

\* Without the turn lock: deny what is pending and notify the agent, which
\* cancels the turn it is then running, if any.
CancelNotify(c) ==
  /\ At(c, "notify")
  /\ Deny
  /\ IF down
     THEN Return(c, "closed") /\ UNCHANGED agent
     ELSE /\ Goto(c, "quiet")
          /\ agent' = [agent EXCEPT !.cancelled = @ \/ agent.prompt # None]
  /\ UNCHANGED <<handleVars, closed, failure, commands, about, oneshot, closing,
                 down, callFrame>>

CancelQuiet(c) ==
  /\ At(c, "quiet")
  /\ ~activity
  /\ IF IsClosed THEN Return(c, Error) ELSE Cancelled(c)
  /\ UNCHANGED <<handleVars, closed, failure, permVars, commands, about, oneshot,
                 closing, down, agent, callFrame>>

CancelTimeout(c) ==
  /\ "timeout" \in Faults
  /\ At(c, "quiet")
  /\ Return(c, "timeout")
  /\ Close(c, "timeout", TRUE)
  /\ UNCHANGED <<handleVars, closed, failure, permVars, commands, about, oneshot,
                 down, agent, callFrame>>

\* CloseSessionRequest, skipped when the agent has no such request: then, whatever
\* became of the connection, the close just ends.
CloseAnswered(c) ==
  /\ At(c, "request")
  /\ \/ Return(c, "ok") /\ Close(c, "closed", FALSE)
     \/ Return(c, "agent") /\ Close(c, "agent", FALSE)
     \/ /\ "timeout" \in Faults
        /\ Return(c, "timeout") /\ Close(c, "timeout", TRUE)
  /\ UNCHANGED <<handleVars, closed, failure, permVars, commands, about, oneshot,
                 down, agent, callFrame>>

StopperStep(c) ==
  CloseStart(c) \/ CancelStart(c) \/ CancelTurn(c) \/ CancelNotify(c)
    \/ CancelQuiet(c) \/ CloseAnswered(c)

-----------------------------------------------------------------------------
(* SessionHandle::set_config_option *)

\* Calls are serialized by the configuring lock, held across the request.
ConfigStart(c) ==
  /\ At(c, "start")
  /\ \A d \in Configs : pc[d] \in {"start", "done"} /\ closing[d] = Calm
  /\ IF IsClosed THEN Return(c, Error) ELSE Goto(c, "asked")
  /\ UNCHANGED <<handleVars, closed, failure, permVars, commands, about, oneshot,
                 closing, down, agent, callFrame>>

\* The agent answers; emit reads the current turn in this task.
ConfigAnswered(c) ==
  /\ At(c, "asked")
  /\ \/ /\ ~down
        /\ Goto(c, "emit")
        /\ about' = [about EXCEPT ![c] = turn.current]
        /\ UNCHANGED closing
     \/ /\ Return(c, "agent")
        /\ UNCHANGED <<about, closing>>
     \/ /\ "timeout" \in Faults
        /\ Return(c, "timeout") /\ Close(c, "timeout", TRUE)
        /\ UNCHANGED about
  /\ UNCHANGED <<handleVars, closed, failure, permVars, commands, oneshot,
                 down, agent, callFrame>>

\* The rest of emit: what it read may be stale by now.
ConfigEmit(c) ==
  /\ At(c, "emit")
  /\ Emit(c, Item(about[c], "config", None, 0))
  /\ Return(c, IF Sendable THEN "ok"
               ELSE IF open /\ reading THEN "full" ELSE "closed")
  /\ UNCHANGED <<handleVars, lifeVars, taken, reading, permVars, worker,
                 queueVars, about, oneshot, connVars, agentVars>>

ConfigStep(c) == ConfigStart(c) \/ ConfigAnswered(c) \/ ConfigEmit(c)

\* The last handle is dropped, after every call on it returned.
LeaseDrop ==
  /\ "release" \in Faults
  /\ At("lease", "start")
  /\ \A c \in Callers \ {"lease"} : pc[c] = "done" /\ closing[c] = Calm
  /\ Return("lease", "ok")
  /\ Close("lease", "closed", turn.reserved # None)
  /\ UNCHANGED <<handleVars, closed, failure, permVars, commands, about, oneshot,
                 down, agent, callFrame>>

-----------------------------------------------------------------------------
(* The application that consumes the stream and answers permissions *)

appFrame == <<handleVars, lifeVars, stream, worker, queueVars, callVars, closing,
              connVars, agentVars>>

Consume ==
  /\ reading /\ taken < Len(stream)
  /\ taken' = taken + 1
  /\ UNCHANGED <<reading, permVars, appFrame>>

StopReading ==
  /\ "deaf" \in Faults
  /\ reading
  /\ reading' = FALSE
  /\ UNCHANGED <<taken, permVars, appFrame>>

\* respond_permission with an option the agent offered, for a request the
\* application read from the stream and the session still holds.
RespondPermission(n) ==
  /\ ~IsClosed
  /\ n \in permissions
  /\ \E i \in 1..taken : stream[i].kind = "permission" /\ stream[i].id = n
  /\ permissions' = permissions \ {n}
  /\ answer' = [answer EXCEPT ![n] = "granted"]
  /\ UNCHANGED <<taken, reading, appFrame>>

-----------------------------------------------------------------------------
(* The agent, and the SDK that dispatches what it sends in order *)

peerFrame == <<handleVars, lifeVars, outVars, permVars, worker, commands, callVars,
               closing>>

\* What the SDK hands to the worker, as long as there is one.
Queued(queue, message) ==
  IF worker.pc = "dead" THEN queue ELSE Append(queue, message)

\* An update or a permission request: neither carries the prompt it is about.
AgentSends(kind) ==
  /\ ~down /\ sent < MaxMessages
  /\ sent' = sent + 1
  /\ owner' = [owner EXCEPT ![sent + 1] = agent.prompt]
  /\ inbox' = Queued(inbox, [kind |-> kind, id |-> sent + 1])
  /\ UNCHANGED <<completions, agent, connVars, peerFrame>>

\* The agent answers the prompt: it may finish, fail, or obey a cancellation.
AgentAnswer(outcome) ==
  /\ ~down /\ agent.prompt # None
  /\ outcome = "cancelled" => agent.cancelled
  /\ completions' = Queued(completions,
                           [prompt |-> agent.prompt, outcome |-> outcome])
  /\ agent' = [prompt |-> None, cancelled |-> FALSE]
  /\ UNCHANGED <<inbox, sent, owner, connVars, peerFrame>>

ConnectionLost ==
  /\ "lost" \in Faults
  /\ ~down
  /\ down' = TRUE
  /\ lost' = "lost"
  /\ UNCHANGED <<agentVars, inbox, completions, peerFrame>>

AgentNext ==
  \/ \E k \in {"update", "permission"} : AgentSends(k)
  \/ ConnectionLost
  \/ \E o \in Reasons \cup {"agent"} : AgentAnswer(o)

-----------------------------------------------------------------------------

CallNext ==
  \/ \E p \in Prompts : PromptStep(p) \/ PromptTimeout(p) \/ PromptDrop(p)
  \/ \E c \in Stoppers : StopperStep(c) \/ CancelTimeout(c)
  \/ \E c \in Configs : ConfigStep(c)
  \/ LeaseDrop

AppNext == Consume \/ StopReading \/ \E n \in Ids : RespondPermission(n)

Next ==
  \/ WorkerNext
  \/ \E p \in Procs : CloseStep(p)
  \/ CallNext
  \/ AppNext
  \/ AgentNext

Spec == Init /\ [][Next]_vars

\* What the task of a call, a dropped handle or the worker may do next. Each does
\* one thing at a time, the steps of a close it is in included.
PromptRuns(p)  == PromptStep(p) \/ PromptTimeout(p) \/ CloseStep(p)
StopperRuns(c) == StopperStep(c) \/ CancelTimeout(c) \/ CloseStep(c)
ConfigRuns(c)  == ConfigStep(c) \/ CloseStep(c)
WorkerRuns     == WorkerStep \/ CloseStep("worker")

\* The runtime runs every task that is ready and fires every timer; the select
\* reaches its expiry branch only when it is polled with nothing else ready.
\* Nothing is assumed of the agent, the connection or the application.
Fairness ==
  /\ WF_vars(WorkerRuns) /\ WF_vars(CloseStep("lease"))
  /\ \A p \in Prompts  : WF_vars(PromptRuns(p))
  /\ \A c \in Stoppers : WF_vars(StopperRuns(c))
  /\ \A c \in Configs  : WF_vars(ConfigRuns(c))
  /\ \A n \in Ids      : SF_vars(PollExpiry(n))

LiveSpec == Spec /\ Fairness

-----------------------------------------------------------------------------
(* Properties *)

WorkerPcs == {"top", "poll", "insert", "ask", "rest", "begin", "finish", "reset",
              "settle", "failed", "dead"}
CallPcs   == {"start", "reserve", "send", "wait", "guard", "check", "lock",
              "notify", "quiet", "request", "asked", "emit", "done"}
Outcomes  == Reasons \cup Errors
Turns     == Prompts \cup {None}

TypeOK ==
  /\ turn \in [reserved : Turns, current : Turns, cancelled : BOOLEAN]
  /\ activity \in BOOLEAN /\ closed \in BOOLEAN /\ open \in BOOLEAN
  /\ failure \in Errors \cup {None}
  /\ permissions \subseteq Ids
  /\ stream \in Seq([request : Turns, of : Turns, id : 0..MaxMessages,
                     kind : {"update", "permission", "config", "error"}
                              \cup Reasons])
  /\ taken \in 0..Len(stream) /\ reading \in BOOLEAN
  /\ worker \in [pc : WorkerPcs, active : Turns, outcome : Outcomes \cup {None},
                 ask : 0..MaxMessages]
  /\ commands \in Seq(Prompts)
  /\ inbox \in Seq([kind : {"update", "permission"}, id : Ids])
  /\ completions \in Seq([prompt : Prompts, outcome : Outcomes])
  /\ pc \in [Callers -> CallPcs]
  /\ result \in [Callers -> Outcomes \cup {None, "ok", "busy", "dropped"}]
  /\ about \in [Callers -> Turns]
  /\ oneshot \in [Prompts -> Outcomes \cup {None}]
  /\ closing \in [Procs -> [stage : 0..4, error : Errors \cup {None},
                            stop : BOOLEAN, request : Turns]]
  /\ down \in BOOLEAN /\ lost \in {None, "lost"}
  /\ agent \in [prompt : Turns, cancelled : BOOLEAN]
  /\ sent \in 0..MaxMessages
  /\ owner \in [Ids -> Turns]
  /\ answer \in [Ids -> {None, "granted", "cancelled"}]

Terminal(item) == item.kind \in Reasons \cup {"error"}

\* The turn the worker routes for is the one that is reserved, and completions,
\* which carry no identity, always answer it: the agent is never given a prompt
\* while it owes an answer to another (Busy keeps the turns apart).
OneTurnAtTheAgent ==
  /\ turn.current \in {None, turn.reserved}
  /\ worker.pc = "begin" => agent.prompt = None /\ completions = <<>>
  /\ agent.prompt # None => agent.prompt = worker.active /\ completions = <<>>
  /\ Len(completions) <= 1
  /\ completions # <<>> => Head(completions).prompt = worker.active

\* Everything the agent sends in a turn is tagged with the request of the turn:
\* "Earlier notifications are already on ActiveSession's queue. The biased reader
\* drains them before publishing completion" (session.rs:591-592). The code does
\* not keep this where the runtime has several threads.
UpdatesBeforeCompletion ==
  \A i \in 1..Len(stream) :
    stream[i].kind \in {"update", "permission"} /\ stream[i].of # None =>
      stream[i].request = stream[i].of

\* What it keeps there: a message is tagged with another turn than its own only
\* when it is late, its own turn's terminal event being in the stream already.
\* Nothing strays into a turn while its own goes on, although neither updates nor
\* permission requests carry a request id.
OnlyLateOnesStray ==
  \A j \in 1..Len(stream) :
    stream[j].kind \in {"update", "permission"} /\ stream[j].of # None =>
      \/ stream[j].request = stream[j].of
      \/ \E i \in 1..j-1 :
           Terminal(stream[i]) /\ stream[i].request = stream[j].of

\* A question the stream put before a turn ended is dead after it, however the end
\* races the question's insertion, its expiry and the application's answer: an answer
\* given late can authorize nothing (session.rs:178). While the session is open; a
\* close may let one more question in behind its own denial.
QuestionsEndWithTheTurn ==
  open =>
    \A i, j \in 1..Len(stream) :
      i < j /\ stream[i].kind = "permission" /\ Terminal(stream[j]) =>
        stream[i].id \notin permissions

\* The session as its callers and the reader of its stream see it. The stream
\* ends when the sender is taken; a turn begins with its reservation.
Phase ==
  CASE ~open                                              -> "closed"
    [] open /\ worker.pc = "reset"                        -> "finishing"
    [] open /\ worker.pc # "reset" /\ turn.reserved # None -> "running"
    [] OTHER                                              -> "idle"
Holder == IF open THEN turn.reserved ELSE None
Told   == [p \in Prompts |-> result[p]]

Promise == INSTANCE SessionPromise WITH phase <- Phase, turn <- Holder, told <- Told

\* "One ordered event stream" (session.rs:1): whatever the worker, the calls, the
\* closes and the faults make of one another, a turn is shown within its
\* reservation, has one terminal event ("The prompt finished", conversation.rs:61)
\* before another begins, and a prompt reports a stop reason only after the
\* stream carried it for its request. Three races of the code are part of the
\* promise: a close between finish's emit and its reset adds one last error, so does
\* a close that read a turn which is over when it takes the sender, and a
\* configuration change that read the turn before its end is tagged with it.
KeepsPromise == Promise!Spec

\* cancel waits "for the active turn to finish" (session.rs:386): once it
\* returned Ok the turn it cancelled no longer holds the session.
CancelWaits ==
  \A c \in Cancels : result[c] = "ok" /\ about[c] # None =>
    turn.reserved # about[c]

Shown(r)     == \E i \in 1..Len(stream) : stream[i].request = r
Concluded(r) == \E i \in 1..Len(stream) :
                  Terminal(stream[i]) /\ stream[i].request = r

\* The close that ends the stream leaves no turn it could know of open: when it takes
\* the sender and there is room to say so, every turn the stream has shown is
\* concluded there, by the worker or by the close itself. Only a turn that began
\* after the close had read the turn (session.rs:154) goes without.
TurnsAreConcluded ==
  [][\A c \in Procs :
       closing[c].stage = 3 /\ closing'[c].stage = 4 /\ Sendable =>
         \A r \in Prompts :
           Shown(r) => \/ Concluded(r)'
                       \/ r = turn.current /\ r # closing[c].request]_vars

\* Every call returns, whatever the agent and the application do: there are
\* finitely many, and in the end none is under way.
EveryCallReturns ==
  <>[](\A c \in Callers : pc[c] \in {"start", "done"} /\ closing[c] = Calm)

\* Every permission request that became pending is answered, by the application,
\* a cancellation, its expiry or the end of the turn: permission_timeout is the
\* "maximum time an unanswered permission request may remain pending"
\* (mod.rs:173). Not once the connection is gone.
PermissionExpires ==
  \A n \in Ids : n \in permissions ~> (answer[n] # None \/ down)

\* "Dropping an active prompt also closes its connection" (README.md:138): once
\* the drop is over no agent works on the prompt unattended, and none ever will.
DropStopsTheAgent ==
  \A p \in Prompts :
    result[p] = "dropped" /\ pc[p] = "done" /\ closing[p] = Calm =>
      agent.prompt # p \/ down
=============================================================================
