-------------------------------- MODULE Client --------------------------------
(***************************************************************************)
(* One native client (src/native/client.rs): the task that runs the SDK's  *)
(* connection to the agent's process, connect, the operations that create  *)
(* sessions or authenticate, overlapping closes, and the sessions that     *)
(* share the connection and may each take it down. A session is reduced to *)
(* what the others can see of it: its worker between two looks at the      *)
(* closed flags, and the two steps of SessionState::close.                 *)
(***************************************************************************)
EXTENDS FiniteSets

CONSTANTS
  Opens,           \* calls of new_session, load_session, resume_session
  Auths,           \* calls of authenticate; a call in both is either
  Closes,          \* calls of close
  Configured,      \* the Opens whose options ask for a model or a control
  Faults,          \* which of FaultKinds may happen
  Threads          \* the caller's runtime: "one" thread, or "many"

FaultKinds == {"timeout", "drop", "exit", "stuck", "stop", "error"}

ASSUME ClientConstants ==
  /\ Configured \subseteq Opens
  /\ Faults \subseteq FaultKinds
  /\ Threads \in {"one", "many"}
  /\ "connect" \notin Opens \cup Auths \cup Closes
  /\ Closes \cap {"none", "held"} = {}      \* a close is no state of the handle

None  == "none"
Ops   == Opens \cup Auths
Calls == Ops \cup Closes \cup {"connect"}

VARIABLES
  \* ClientState
  shutdown, closed, failure,
  task,         \* who has the handle of the connection's task
  aborted,      \* the task was told to stop where it stands
  link,         \* what that task is doing
  ready,        \* the connection was handed to the waiting connect
  exited,       \* the agent ended the connection of itself
  lease,        \* the application holds the client
  \* calls: where each is, what it returned, what the agent answered
  pc, result, reply,
  \* sessions, by the call that created them
  session,      \* the progress of SessionState::close
  held,         \* a handle of the session is alive
  stop,         \* the session meant to stop the connection: a close, or an error
  worker        \* run_session

clientVars  == <<shutdown, closed, failure, task, aborted>>
linkVars    == <<link, ready, exited>>
callVars    == <<pc, result, reply>>
sessionVars == <<session, held, stop, worker>>

vars == <<clientVars, linkVars, lease, callVars, sessionVars>>

Init ==
  /\ shutdown = FALSE /\ closed = FALSE /\ failure = None
  /\ task = None /\ aborted = FALSE
  /\ link = "absent" /\ ready = FALSE /\ exited = FALSE
  /\ lease = FALSE
  /\ pc = [c \in Calls |-> "start"]
  /\ result = [c \in Calls |-> None]
  /\ reply = [o \in Ops |-> None]
  /\ session = [s \in Opens |-> "absent"]
  /\ held = [s \in Opens |-> FALSE]
  /\ stop = [s \in Opens |-> FALSE]
  /\ worker = [s \in Opens |-> "absent"]

\* Mutant: a closed connection has no error unless its task left one.
ErrorRaw == failure

\* ClientState::error
Error == IF failure # None THEN failure ELSE "closed"

\* The agent's process lives as long as the task that owns it.
ChildRuns == link \in {"init", "serving", "cleaning"}

-----------------------------------------------------------------------------
(* Shared pieces *)

Return(c, value) ==
  /\ pc' = [pc EXCEPT ![c] = "done"]
  /\ result' = [result EXCEPT ![c] = value]

Goto(c, label) ==
  /\ pc' = [pc EXCEPT ![c] = label]
  /\ UNCHANGED result

\* ClientState::abort: the task is told only while its handle is in place.
Abort ==
  /\ shutdown' = TRUE
  /\ closed' = TRUE
  /\ aborted' = (aborted \/ task = "held")
  /\ UNCHANGED <<failure, task>>

Keep == UNCHANGED clientVars

AbortIf(condition) == IF condition THEN Abort ELSE Keep

\* No client value and no session handle is left: ClientLease is dropped.
LastOwner(client, sessions) == ~client /\ \A s \in Opens : ~sessions[s]

-----------------------------------------------------------------------------
(* NativeClient::connect *)

ConnectStart ==
  /\ pc["connect"] = "start"
  /\ Goto("connect", "wait")
  /\ link' = "init" /\ task' = "held"
  /\ UNCHANGED <<shutdown, closed, failure, aborted, ready, exited, lease, reply,
                 sessionVars>>

ConnectReady ==
  /\ pc["connect"] = "wait" /\ ready
  /\ Return("connect", "ok")
  /\ lease' = TRUE
  /\ UNCHANGED <<clientVars, linkVars, reply, sessionVars>>

\* The task ended without handing over a connection: wait for its reason.
ConnectBroken ==
  /\ pc["connect"] = "wait" /\ ~ready /\ link \in {"cleaning", "over"}
  /\ Goto("connect", "drain")
  /\ UNCHANGED <<clientVars, linkVars, lease, reply, sessionVars>>

\* Mutant: the wait for the reason has no limit.
ConnectDrainedPatient ==
  /\ pc["connect"] = "drain"
  /\ closed
  /\ Return("connect", Error)
  /\ Abort
  /\ UNCHANGED <<linkVars, lease, reply, sessionVars>>

\* The reason is there, or shutdown_timeout is over. The guard Connecting aborts.
ConnectDrained ==
  /\ pc["connect"] = "drain"
  /\ closed \/ "timeout" \in Faults
  /\ Return("connect", Error)
  /\ Abort
  /\ UNCHANGED <<linkVars, lease, reply, sessionVars>>

\* operation_timeout, or the application drops the future: the guard aborts.
ConnectGivesUp(why) ==
  /\ why \in Faults /\ why \in {"timeout", "drop"}
  /\ pc["connect"] \in IF why = "drop" THEN {"wait", "drain"} ELSE {"wait"}
  /\ Return("connect", why)
  /\ Abort
  /\ UNCHANGED <<linkVars, lease, reply, sessionVars>>

-----------------------------------------------------------------------------
(* The connection's task, and the SDK and the agent inside it *)

taskFrame == <<shutdown, task, aborted, lease, callVars, sessionVars>>

\* initialize succeeded. The connection serves if connect still waits for it.
TaskReady ==
  /\ link = "init" /\ ~aborted
  /\ IF pc["connect"] = "wait"
     THEN link' = "serving" /\ ready' = TRUE
     ELSE link' = "cleaning" /\ UNCHANGED ready
  /\ UNCHANGED <<closed, failure, exited, taskFrame>>

\* initialize failed, or the agent speaks another version.
TaskRefused ==
  /\ link = "init" /\ ~aborted
  /\ link' = "cleaning" /\ exited' = TRUE
  /\ UNCHANGED <<closed, failure, ready, taskFrame>>

\* The select of the task: shutdown, or the agent hung up.
TaskServed ==
  /\ link = "serving"
  /\ \/ shutdown /\ UNCHANGED exited
     \/ "exit" \in Faults /\ exited' = TRUE
  /\ link' = "cleaning"
  /\ UNCHANGED <<closed, failure, ready, taskFrame>>

\* connect_with returned: its error is kept, then the connection is closed.
TaskOver ==
  /\ link = "cleaning"
  /\ link' = "over"
  /\ failure' \in IF exited THEN {failure, "agent"} ELSE {failure}
  /\ closed' = TRUE
  /\ UNCHANGED <<ready, exited, taskFrame>>

\* An aborted task is dropped at its next await; nothing after it runs.
TaskDropped ==
  /\ aborted /\ ChildRuns
  /\ link' = "over"
  /\ UNCHANGED <<closed, failure, ready, exited, taskFrame>>

\* The SDK's cleanup ends by itself, unless "stuck" says that it may not.
TaskStep == TaskDropped \/ (TaskServed /\ shutdown) \/ ("stuck" \notin Faults /\ TaskOver)

-----------------------------------------------------------------------------
(* NativeClient::close *)

callFrame == <<linkVars, lease, reply, sessionVars>>

\* Ask for the shutdown and take the task's handle; without one there is
\* nothing to wait for.
CloseStart(c) ==
  /\ pc[c] = "start" /\ lease
  /\ shutdown' = TRUE
  /\ IF task = "held"
     THEN Goto(c, "join") /\ task' = c /\ UNCHANGED closed
     ELSE Return(c, "ok") /\ closed' = TRUE /\ UNCHANGED task
  /\ UNCHANGED <<failure, aborted, callFrame>>

\* Mutant: the close waits for the end of the service, not of the task.
CloseJoinedEarly(c) ==
  /\ pc[c] = "join" /\ link \in {"cleaning", "over"}
  /\ Return(c, "ok")
  /\ closed' = TRUE
  /\ UNCHANGED <<shutdown, failure, task, aborted, callFrame>>

CloseJoined(c) ==
  /\ pc[c] = "join" /\ link = "over"
  /\ Return(c, "ok")
  /\ closed' = TRUE
  /\ UNCHANGED <<shutdown, failure, task, aborted, callFrame>>

\* Mutant: a close that gives up leaves the task alone.
CloseTimeoutKeeps(c) ==
  /\ "timeout" \in Faults
  /\ pc[c] = "join" /\ link # "over"
  /\ Return(c, "timeout")
  /\ closed' = TRUE
  /\ UNCHANGED <<shutdown, failure, task, aborted, callFrame>>

CloseTimeout(c) ==
  /\ "timeout" \in Faults
  /\ pc[c] = "join" /\ link # "over"
  /\ Return(c, "timeout")
  /\ aborted' = TRUE
  /\ closed' = TRUE
  /\ UNCHANGED <<shutdown, failure, task, callFrame>>

\* The application drops the future: the task's handle is dropped with it, which
\* detaches the task, and no later abort finds it.
CloseDrop(c) ==
  /\ "drop" \in Faults
  /\ pc[c] = "join"
  /\ Return(c, "drop")
  /\ UNCHANGED <<clientVars, callFrame>>

-----------------------------------------------------------------------------
(* operation, and new_session, load_session, resume_session, authenticate *)

OpStart(o) ==
  /\ pc[o] = "start" /\ lease
  /\ IF closed THEN Return(o, Error) ELSE Goto(o, "request")
  /\ UNCHANGED <<clientVars, callFrame>>

AgentReplies(o) ==
  /\ pc[o] = "request" /\ link = "serving" /\ reply[o] = None
  /\ \E r \in {"granted", "refused"} : reply' = [reply EXCEPT ![o] = r]
  /\ UNCHANGED <<clientVars, linkVars, lease, pc, result, sessionVars>>

\* NativeSession::start: the session runs, though the connection may be closed
\* by now; an answer that was there is taken.
OpGranted(o) ==
  /\ pc[o] = "request" /\ reply[o] = "granted"
  /\ \/ o \in Auths /\ Return(o, "ok") /\ UNCHANGED sessionVars
     \/ /\ o \in Opens
        /\ IF o \in Configured THEN Goto(o, "configure") ELSE Return(o, "ok")
        /\ session' = [session EXCEPT ![o] = "open"]
        /\ held' = [held EXCEPT ![o] = TRUE]
        /\ worker' = [worker EXCEPT ![o] = "top"]
        /\ UNCHANGED stop
  /\ UNCHANGED <<clientVars, linkVars, lease, reply>>

\* Refused by the agent, or by a connection that ended: then the task is given
\* one chance to say why.
OpRefused(o) ==
  /\ pc[o] = "request"
  /\ \/ reply[o] = "refused" /\ Return(o, IF closed THEN Error ELSE "agent")
     \/ reply[o] = None /\ link \in {"cleaning", "over"} /\ Goto(o, "yield")
  /\ UNCHANGED <<clientVars, callFrame>>

OpYielded(o) ==
  /\ pc[o] = "yield"
  /\ Return(o, IF closed THEN Error ELSE "internal")
  /\ UNCHANGED <<clientVars, callFrame>>

OpTimeout(o) ==
  /\ "timeout" \in Faults
  /\ pc[o] = "request"
  /\ Return(o, "timeout")
  /\ Abort
  /\ UNCHANGED callFrame

-----------------------------------------------------------------------------
(* Sessions: SessionState::close, and what its callers make of it *)

sessionFrame == <<linkVars, lease, reply>>

IsClosed(s) == session[s] = "closed" \/ closed

\* With one thread no task is in the middle of a run when another one runs.
Undisturbed(s) == Threads = "one" => worker[s] \notin {"top", "step", "failed", "broken"}

\* A close takes the events (and tells the agent, denies, tells the stream).
CloseBegins(s, stops) ==
  /\ session' = [session EXCEPT ![s] = IF @ = "open" THEN "taken" ELSE @]
  /\ stop' = [stop EXCEPT ![s] = @ \/ stops]

\* finish_session: the model and the controls that the options ask for. When
\* that fails the session, still unknown to the application, is dropped.
OpConfigured(o) ==
  /\ pc[o] = "configure" /\ Undisturbed(o) /\ session[o] # "taken"
  /\ \/ /\ ~IsClosed(o)
        /\ Return(o, "ok")
        /\ UNCHANGED <<sessionVars, clientVars>>
     \/ /\ Return(o, IF IsClosed(o) THEN Error ELSE "agent")
        /\ CloseBegins(o, FALSE)
        /\ held' = [held EXCEPT ![o] = FALSE]
        /\ UNCHANGED worker
        /\ AbortIf(LastOwner(lease, held'))
     \/ /\ "timeout" \in Faults
        /\ Return(o, "timeout")
        /\ CloseBegins(o, TRUE)
        /\ held' = [held EXCEPT ![o] = FALSE]
        /\ UNCHANGED worker
        /\ AbortIf(session[o] = "closed" \/ LastOwner(lease, held'))
  /\ UNCHANGED sessionFrame

\* The application drops the future: a request is forgotten, whatever the agent
\* makes of it, and a session that is being set up is dropped.
OpDrop(o) ==
  /\ "drop" \in Faults
  /\ Return(o, "drop")
  /\ \/ /\ pc[o] = "request"
        /\ UNCHANGED <<sessionVars, clientVars>>
     \/ /\ o \in Opens /\ pc[o] = "configure"
        /\ Undisturbed(o) /\ session[o] # "taken"
        /\ CloseBegins(o, FALSE)
        /\ held' = [held EXCEPT ![o] = FALSE]
        /\ UNCHANGED worker
        /\ AbortIf(LastOwner(lease, held'))
  /\ UNCHANGED sessionFrame

\* The application closes a session: SessionHandle::close after its cancel.
SessionClose(s) ==
  /\ held[s] /\ pc[s] = "done" /\ session[s] = "open" /\ ~closed
  /\ Undisturbed(s)
  /\ CloseBegins(s, FALSE)
  /\ UNCHANGED <<held, worker, clientVars, pc, result, sessionFrame>>

\* What stops the connection on purpose: a prompt that timed out or was
\* dropped, a cancel or a close the agent ignores, a stream nobody empties.
SessionStops(s) ==
  /\ "stop" \in Faults
  /\ held[s] /\ pc[s] = "done" /\ session[s] = "open"
  /\ Undisturbed(s)
  /\ CloseBegins(s, TRUE)
  /\ UNCHANGED <<held, worker, clientVars, pc, result, sessionFrame>>

\* The rest of SessionState::close.
SessionSettles(s) ==
  /\ session[s] = "taken"
  /\ session' = [session EXCEPT ![s] = "closed"]
  /\ AbortIf(stop[s])
  /\ UNCHANGED <<held, stop, worker, pc, result, sessionFrame>>

\* The last handle of the session is dropped; ClientLease with the last of all.
SessionDrop(s) ==
  /\ held[s] /\ pc[s] = "done" /\ session[s] # "taken"
  /\ Undisturbed(s)
  /\ held' = [held EXCEPT ![s] = FALSE]
  /\ CloseBegins(s, FALSE)
  /\ AbortIf(LastOwner(lease, held'))
  /\ UNCHANGED <<worker, pc, result, sessionFrame>>

\* Mutant: sessions do not count as owners.
ClientDropAlone ==
  /\ lease
  /\ \A c \in Calls : pc[c] \in {"start", "done"}
  /\ lease' = FALSE
  /\ Abort
  /\ UNCHANGED <<linkVars, callVars, sessionVars>>

\* The application drops the client, after every call on it returned.
ClientDrop ==
  /\ lease
  /\ \A c \in Calls : pc[c] \in {"start", "done"}
  /\ lease' = FALSE
  /\ AbortIf(LastOwner(FALSE, held))
  /\ UNCHANGED <<linkVars, callVars, sessionVars>>

-----------------------------------------------------------------------------
(* run_session, as far as the connection is concerned *)

workerFrame == <<linkVars, lease, callVars, held>>

\* The top of the loop: a session or connection closed meanwhile is an error.
WorkerTop(s) ==
  /\ worker[s] = "top"
  /\ worker' = [worker EXCEPT ![s] = IF IsClosed(s) THEN "failed" ELSE "poll"]
  /\ UNCHANGED <<session, stop, clientVars, workerFrame>>

\* The biased select. Only a session closed while the worker waits ends it
\* quietly. A message, a command or the timer is handled in "step".
WorkerSelect(s) ==
  /\ worker[s] = "poll"
  /\ Threads = "one" => session[s] # "taken"
  /\ \/ /\ session[s] = "closed"
        /\ worker' = [worker EXCEPT ![s] = "dead"]
     \/ /\ session[s] # "closed" /\ (closed \/ link \in {"cleaning", "over"})
        /\ worker' = [worker EXCEPT ![s] = "failed"]
     \/ /\ ~IsClosed(s) /\ link = "serving"
        /\ worker' = [worker EXCEPT ![s] = "step"]
  /\ UNCHANGED <<session, stop, clientVars, workerFrame>>

\* A branch ran. One that emits fails once the sender is taken; one that reads,
\* answers or sends fails by itself, on a message of the agent that the SDK
\* cannot make sense of or an error of its own.
WorkerStep(s) ==
  /\ worker[s] = "step"
  /\ \/ worker' = [worker EXCEPT ![s] = "top"]
     \/ session[s] # "open" /\ worker' = [worker EXCEPT ![s] = "failed"]
     \/ "error" \in Faults /\ worker' = [worker EXCEPT ![s] = "broken"]
  /\ UNCHANGED <<session, stop, clientVars, workerFrame>>

\* run_session returned an error: close the session, and the connection with it.
WorkerFails(s) ==
  /\ worker[s] \in {"failed", "broken"}
  /\ worker' = [worker EXCEPT ![s] = "dead"]
  /\ session' = [session EXCEPT ![s] = "closed"]
  /\ stop' = [stop EXCEPT ![s] = @ \/ worker[s] = "broken"]
  /\ Abort
  /\ UNCHANGED workerFrame

-----------------------------------------------------------------------------

ConnectNext ==
  \/ ConnectStart \/ ConnectReady \/ ConnectBroken \/ ConnectDrained
  \/ \E why \in {"timeout", "drop"} : ConnectGivesUp(why)

TaskNext == TaskReady \/ TaskRefused \/ TaskServed \/ TaskOver \/ TaskDropped

CloseNext(c) == CloseStart(c) \/ CloseJoined(c) \/ CloseTimeout(c) \/ CloseDrop(c)

OpRuns(o) ==
  OpGranted(o) \/ OpRefused(o) \/ OpYielded(o) \/ OpTimeout(o)
    \/ (o \in Opens /\ OpConfigured(o))

OpNext(o) == OpStart(o) \/ AgentReplies(o) \/ OpRuns(o) \/ OpDrop(o)

WorkerNext(s) == WorkerTop(s) \/ WorkerSelect(s) \/ WorkerStep(s) \/ WorkerFails(s)

SessionNext(s) ==
  SessionClose(s) \/ SessionStops(s) \/ SessionSettles(s) \/ SessionDrop(s)
    \/ WorkerNext(s)

Next ==
  \/ ConnectNext
  \/ TaskNext
  \/ \E c \in Closes : CloseNext(c)
  \/ \E o \in Ops : OpNext(o)
  \/ \E s \in Opens : SessionNext(s)
  \/ ClientDrop

Spec == Init /\ [][Next]_vars

\* The runtime runs every task that is ready and fires every timer; strongly
\* for a call whose task waits until the worker lets go of the one thread.
\* Nothing is assumed of the agent, of the application, or of a cleanup that may
\* be stuck.
Fairness ==
  /\ WF_vars(ConnectReady \/ ConnectBroken \/ ConnectDrained
               \/ ConnectGivesUp("timeout"))
  /\ WF_vars(TaskStep)
  /\ \A c \in Closes : WF_vars(CloseJoined(c) \/ CloseTimeout(c))
  /\ \A o \in Ops : SF_vars(OpRuns(o))
  /\ \A s \in Opens : WF_vars(SessionSettles(s)) /\ WF_vars(WorkerNext(s))

LiveSpec == Spec /\ Fairness

-----------------------------------------------------------------------------
(* Properties *)

Errors == {"closed", "agent", "internal", "timeout", "drop"}

TypeOK ==
  /\ shutdown \in BOOLEAN /\ closed \in BOOLEAN /\ aborted \in BOOLEAN
  /\ failure \in {None, "agent"}
  /\ task \in {None, "held"} \cup Closes
  /\ link \in {"absent", "init", "serving", "cleaning", "over"}
  /\ ready \in BOOLEAN /\ exited \in BOOLEAN /\ lease \in BOOLEAN
  /\ pc \in [Calls -> {"start", "wait", "drain", "join", "request", "yield",
                       "configure", "done"}]
  /\ result \in [Calls -> Errors \cup {None, "ok"}]
  /\ \A c \in Calls : pc[c] = "done" <=> result[c] # None
  /\ reply \in [Ops -> {None, "granted", "refused"}]
  /\ session \in [Opens -> {"absent", "open", "taken", "closed"}]
  /\ held \in [Opens -> BOOLEAN] /\ stop \in [Opens -> BOOLEAN]
  /\ worker \in [Opens -> {"absent", "top", "poll", "step", "failed", "broken", "dead"}]

\* The sessions share one connection, and each of them can take it away from
\* all: that needs a cause. It is closed because the application closed it, gave
\* connect up or dropped the last handle, because the agent left, or because an
\* operation or a session stops it (README.md:136-138), as a session does that
\* timed out or met an error of the agent or of the SDK. Closing one session,
\* which is to "detach local routing" (session.rs:469) and keeps the connection
\* (508), is not one, nor is a refused operation.
ClosesForACause ==
  closed =>
    \/ \E c \in Closes : pc[c] # "start"
    \/ result["connect"] \notin {None, "ok"}
    \/ \E o \in Ops : result[o] = "timeout"
    \/ exited
    \/ \E s \in Opens : stop[s]
    \/ LastOwner(lease, held)

\* "Close every session and wait [...] for the SDK to clean up its child"
\* (client.rs:370): the close that waited and returned Ok left no child. (A close
\* that finds another one waiting returns at once, and promises nothing.)
CloseCleansUp ==
  \A c \in Closes : task = c /\ result[c] = "ok" => ~ChildRuns /\ closed

\* "Closing the client closes every session on it" (client.rs:26), for whatever
\* reason it is closed, the sessions that are just being created included; and no
\* closed connection leaves a process behind, be it a connect that failed, timed
\* out or was dropped, an abort, a close or the last handle, although the SDK's
\* cleanup may be stuck and a close may hold the task's handle when an abort
\* looks for it. Only a close that was itself dropped leaves a stuck cleanup alone.
ClosingEndsAll ==
  /\ closed ~> ~ChildRuns \/ \E c \in Closes : task = c /\ result[c] = "drop"
  /\ \A s \in Opens :
       closed /\ session[s] # "absent" ~> session[s] = "closed" /\ worker[s] = "dead"

\* Every call returns, whatever the agent does: there are finitely many, and in
\* the end none is under way.
EveryCallReturns == <>[](\A c \in Calls : pc[c] \in {"start", "done"})
=============================================================================
