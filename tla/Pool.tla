--------------------------------- MODULE Pool ---------------------------------
(***************************************************************************)
(* The session pool (src/native/pool.rs): keyed entries behind one lock,   *)
(* concurrent prompt calls, a forwarder task for each session and the      *)
(* single router that applies what they forward to the conversation of     *)
(* the key (ConversationState) and re-emits it to the application.         *)
(*                                                                         *)
(* A step is what runs under the pool's lock or between two awaits. The    *)
(* sessions behind the handles do what SessionPromise allows: one turn at a *)
(* time, a terminal event before the turn is free, one more error when a   *)
(* close meets a turn that is finishing, an end of the stream.             *)
(***************************************************************************)
EXTENDS ConversationState, Sequences, Functions

CONSTANTS
  Keys,         \* keys the application chose
  Calls,        \* prompt calls
  KeyOf,        \* the key each call is about
  RequestId,    \* RequestId[n] names turn n of a key
  MaxSessions,  \* bound: sessions created in all
  Recreate,     \* a key may be prompted again after it was closed
  MaxUpdates    \* bound: updates each session streams

ASSUME PoolConstants ==
  /\ None \notin Keys /\ IsFiniteSet(Calls)
  /\ KeyOf \in [Calls -> Keys]
  /\ RequestId \in Seq(Requests) /\ IsInjective(RequestId)
  /\ Len(RequestId) >= Cardinality(Calls)
  /\ MaxSessions \in Nat /\ MaxUpdates \in Nat
  /\ Recreate \in BOOLEAN

Sessions == 1..MaxSessions

VARIABLES
  \* Inner
  client,    \* the shared client is there
  session,   \* the session of a key's entry, 0 when the key has no entry
  busy, turns, seqs, conv,  \* the rest of the entry
  \* the sessions behind the handles, and their forwarders
  owner,     \* the key a session was created for, None before
  phase,     \* what the session does
  turn,      \* the call and the request of its reserved turn
  outcome,   \* how the turn that is finishing ended
  events,    \* its event channel
  updates,   \* updates streamed
  doomed,    \* the pool has called close on its handle
  drained,   \* the forwarder has reported the end of the stream
  fwd,       \* the channel from the forwarders to the router
  app,       \* what the application was sent so far
  \* prompt calls
  pc, handle, request, result

entryVars   == <<client, session, busy, turns, seqs, conv>>
sessionVars == <<owner, phase, turn, outcome, events, updates, doomed>>
routeVars   == <<drained, fwd, app>>
callVars    == <<pc, handle, request, result>>
vars == <<entryVars, sessionVars, routeVars, callVars>>

Idle   == [call |-> None, request |-> None]
Unused == [r \in Requests |-> 0]

Init ==
  /\ client = TRUE
  /\ session = [k \in Keys |-> 0]
  /\ busy = [k \in Keys |-> FALSE]
  /\ turns = [k \in Keys |-> 0]
  /\ seqs = [k \in Keys |-> Unused]
  /\ conv = [k \in Keys |-> NewConversation(k)]
  /\ owner = [s \in Sessions |-> None]
  /\ phase = [s \in Sessions |-> "idle"]
  /\ turn = [s \in Sessions |-> Idle]
  /\ outcome = [s \in Sessions |-> None]
  /\ events = [s \in Sessions |-> <<>>]
  /\ updates = [s \in Sessions |-> 0]
  /\ doomed = [s \in Sessions |-> FALSE]
  /\ drained = [s \in Sessions |-> FALSE]
  /\ fwd = <<>> /\ app = <<>>
  /\ pc = [c \in Calls |-> "start"]
  /\ handle = [c \in Calls |-> 0]
  /\ request = [c \in Calls |-> None]
  /\ result = [c \in Calls |-> None]

-----------------------------------------------------------------------------
(* Events *)

Plain(kind) ==
  [kind |-> kind, tool |-> None, permission |-> None, value |-> None, size |-> 1]

UpdateEvent    == Plain("message")
CompletedEvent == [Plain("completed") EXCEPT !.value = "end_turn"]
ErrorEvent     == Plain("error")
EndOfStream    == Plain("end")

TaggedEvent(r, e) == [request |-> r, event |-> e]
IsTerminalEvent(e) == e.kind \in Terminals

-----------------------------------------------------------------------------
(* SessionPool::prompt *)

Return(c, value) ==
  /\ pc' = [pc EXCEPT ![c] = "done"]
  /\ result' = [result EXCEPT ![c] = value]
  /\ UNCHANGED <<handle, request>>

\* The entry prompt works on: the one there is, or the one ensure just made.
Reserve(c, s, isBusy, started) ==
  LET k == KeyOf[c] IN
  /\ busy' = [busy EXCEPT ![k] = TRUE]
  /\ IF isBusy
     THEN Return(c, "busy") /\ UNCHANGED turns
     ELSE /\ turns' = [turns EXCEPT ![k] = started + 1]
          /\ pc' = [pc EXCEPT ![c] = "submit"]
          /\ handle' = [handle EXCEPT ![c] = s]
          /\ request' = [request EXCEPT ![c] = RequestId[started + 1]]
          /\ UNCHANGED result

\* Under the lock, on a key that has an entry.
PromptKnown(c) ==
  LET k == KeyOf[c] IN
  /\ pc[c] = "start" /\ session[k] # 0
  /\ Reserve(c, session[k], busy[k], turns[k])
  /\ UNCHANGED <<client, session, seqs, conv, sessionVars, routeVars>>

\* Under the lock, which ensure keeps while the agent creates the session:
\* a fresh entry with its conversation, counters and forwarder.
PromptNew(c) ==
  LET k == KeyOf[c] IN
  \E s \in Sessions :
    /\ pc[c] = "start" /\ session[k] = 0 /\ client
    /\ owner[s] = None /\ \A u \in 1..s-1 : owner[u] # None
    /\ Recreate \/ k \notin Range(owner)
    /\ session' = [session EXCEPT ![k] = s]
    /\ owner' = [owner EXCEPT ![s] = k]
    /\ seqs' = [seqs EXCEPT ![k] = Unused]
    /\ conv' = [conv EXCEPT ![k] = NewConversation(k)]
    /\ Reserve(c, s, FALSE, 0)
    /\ UNCHANGED <<client, phase, turn, outcome, events, updates, doomed,
                   routeVars>>

\* ensure fails: the client is gone, or the agent refuses the session.
PromptFails(c) ==
  /\ pc[c] = "start" /\ session[KeyOf[c]] = 0
  /\ Return(c, "error")
  /\ UNCHANGED <<entryVars, sessionVars, routeVars>>

\* Mutant: a refusal is reported raw.
PromptSubmitRaw(c) ==
  LET s == handle[c] IN
  /\ pc[c] = "submit"
  /\ \/ /\ phase[s] = "idle"
        /\ phase' = [phase EXCEPT ![s] = "running"]
        /\ turn' = [turn EXCEPT ![s] = [call |-> c, request |-> request[c]]]
        /\ pc' = [pc EXCEPT ![c] = "running"]
        /\ UNCHANGED result
     \/ /\ phase[s] # "idle"
        /\ pc' = [pc EXCEPT ![c] = "release"]
        /\ result' = [result EXCEPT ![c] = phase[s]]
        /\ UNCHANGED <<phase, turn>>
  /\ UNCHANGED <<handle, request, entryVars, owner, outcome, events, updates,
                 doomed, routeVars>>

\* SessionHandle::prompt reserves the turn, or refuses.
PromptSubmit(c) ==
  LET s == handle[c] IN
  /\ pc[c] = "submit"
  /\ \/ /\ phase[s] = "idle"
        /\ phase' = [phase EXCEPT ![s] = "running"]
        /\ turn' = [turn EXCEPT ![s] = [call |-> c, request |-> request[c]]]
        /\ pc' = [pc EXCEPT ![c] = "running"]
        /\ UNCHANGED result
     \/ /\ phase[s] # "idle"
        /\ pc' = [pc EXCEPT ![c] = "release"]
        /\ result' = [result EXCEPT
                        ![c] = IF phase[s] = "closed" THEN "error" ELSE "busy"]
        /\ UNCHANGED <<phase, turn>>
  /\ UNCHANGED <<handle, request, entryVars, owner, outcome, events, updates,
                 doomed, routeVars>>

\* SessionHandle::prompt returns.
PromptReturns(c) ==
  /\ pc[c] = "running" /\ result[c] # None
  /\ pc' = [pc EXCEPT ![c] = IF result[c] = "ok" THEN "done" ELSE "release"]
  /\ UNCHANGED <<handle, request, result, entryVars, sessionVars, routeVars>>

\* Mutant: a failed call leaves the slot to the stream.
PromptReleaseNothing(c) ==
  /\ pc[c] = "release"
  /\ pc' = [pc EXCEPT ![c] = "done"]
  /\ UNCHANGED <<handle, request, result, entryVars, sessionVars, routeVars>>

\* Under the lock again: a failed call releases the slot of whatever entry the
\* key has by now.
PromptRelease(c) ==
  /\ pc[c] = "release"
  /\ pc' = [pc EXCEPT ![c] = "done"]
  /\ busy' = [busy EXCEPT ![KeyOf[c]] = FALSE]
  /\ UNCHANGED <<handle, request, result, client, session, turns, seqs, conv,
                 sessionVars, routeVars>>

\* The application drops the call. While the session runs its turn, the guard of
\* the prompt closes the session; once it waits for the lock to release the
\* slot, nothing is left that would.
PromptDrop(c) ==
  /\ pc' = [pc EXCEPT ![c] = "done"]
  /\ \/ /\ pc[c] = "running" /\ result[c] = None
        /\ doomed' = [doomed EXCEPT ![handle[c]] = TRUE]
        /\ UNCHANGED result
     \/ /\ pc[c] = "release"
        /\ result' = [result EXCEPT ![c] = "dropped"]
        /\ UNCHANGED doomed
  /\ UNCHANGED <<handle, request, entryVars, owner, phase, turn, outcome, events,
                 updates, routeVars>>

PromptStep(c) ==
  \/ PromptKnown(c) \/ PromptNew(c) \/ PromptFails(c)
  \/ PromptSubmit(c) \/ PromptReturns(c) \/ PromptRelease(c)

-----------------------------------------------------------------------------
(* SessionPool::close and shutdown *)

\* The entries go first, under the lock; their handles are closed after.
RemoveEntries(keys) ==
  /\ session' = [k \in Keys |-> IF k \in keys THEN 0 ELSE session[k]]
  /\ busy' = [k \in Keys |-> busy[k] /\ k \notin keys]
  /\ doomed' = [s \in Sessions |->
                  doomed[s] \/ \E k \in keys : session[k] = s]
  /\ UNCHANGED <<turns, seqs, conv, owner, phase, turn, outcome, events, updates,
                 routeVars, callVars>>

CloseKey(k) == session[k] # 0 /\ RemoveEntries({k}) /\ UNCHANGED client

Shutdown == client /\ client' = FALSE /\ RemoveEntries(Keys)

-----------------------------------------------------------------------------
(* The sessions behind the handles *)

EmitOf(s, r, e) == events' = [events EXCEPT ![s] = Append(@, TaggedEvent(r, e))]
Emit(s, e) == EmitOf(s, turn[s].request, e)

\* Turns that s has ended.
Ended(s) == {request[c] : c \in {d \in Calls : handle[d] = s /\ result[d] \in {"ok", "error"}}}

sessionFrame == <<owner, doomed, entryVars, routeVars, pc, handle, request>>

\* The agent reports progress of the turn that runs, or of none; a configuration
\* change may still be tagged with a turn that was ended.
SessionStreams(s) ==
  /\ owner[s] # None /\ phase[s] # "closed"
  /\ updates[s] < MaxUpdates
  /\ updates' = [updates EXCEPT ![s] = @ + 1]
  /\ \E r \in {None, turn[s].request} \cup Ended(s) : EmitOf(s, r, UpdateEvent)
  /\ UNCHANGED <<phase, turn, outcome, result, sessionFrame>>

\* finish emits the terminal event of the turn ...
SessionFinishes(s, e) ==
  /\ phase[s] = "running"
  /\ phase' = [phase EXCEPT ![s] = "finishing"]
  /\ outcome' = [outcome EXCEPT ![s] = IF e = ErrorEvent THEN "error" ELSE "ok"]
  /\ Emit(s, e)
  /\ UNCHANGED <<turn, updates, result, sessionFrame>>

\* ... then frees the turn and tells the caller.
SessionFrees(s) ==
  /\ phase[s] = "finishing"
  /\ phase' = [phase EXCEPT ![s] = "idle"]
  /\ turn' = [turn EXCEPT ![s] = Idle]
  /\ outcome' = [outcome EXCEPT ![s] = None]
  /\ result' = [result EXCEPT ![turn[s].call] = outcome[s]]
  /\ UNCHANGED <<events, updates, sessionFrame>>

\* The session closes, of itself or because the pool closed its handle. The
\* stream ends, with an error where there is something to tell and room to; a close
\* that is slow to tell names a turn that is over.
SessionCloses(s) ==
  /\ owner[s] # None /\ phase[s] # "closed"
  /\ phase' = [phase EXCEPT ![s] = "closed"]
  /\ turn' = [turn EXCEPT ![s] = Idle]
  /\ \E o \in {"error", outcome[s]} \ {None} :
       result' = [c \in Calls |-> IF c = turn[s].call THEN o ELSE result[c]]
  /\ \/ \E r \in {None, turn[s].request} \cup Ended(s) : EmitOf(s, r, ErrorEvent)
     \/ UNCHANGED events
  /\ UNCHANGED <<outcome, updates, sessionFrame>>

SessionNext(s) ==
  \/ SessionStreams(s) \/ SessionFrees(s) \/ SessionCloses(s)
  \/ \E e \in {CompletedEvent, ErrorEvent} : SessionFinishes(s, e)

-----------------------------------------------------------------------------
(* The forwarder of a session, and the router *)

Forwarded(s, r, e) == [key |-> owner[s], from |-> s, request |-> r, event |-> e]

\* Mutant: the end may overtake what is still in the channel.
ForwardEager(s) ==
  /\ owner[s] # None
  /\ \/ /\ events[s] # <<>>
        /\ fwd' = Append(fwd, Forwarded(s, Head(events[s]).request,
                                        Head(events[s]).event))
        /\ events' = [events EXCEPT ![s] = Tail(@)]
        /\ UNCHANGED drained
     \/ /\ ~drained[s] /\ phase[s] = "closed"
        /\ fwd' = Append(fwd, Forwarded(s, None, EndOfStream))
        /\ drained' = [drained EXCEPT ![s] = TRUE]
        /\ UNCHANGED events
  /\ UNCHANGED <<entryVars, owner, phase, turn, outcome, updates, doomed, app,
                 callVars>>

\* What is in the channel, and at its end the word that it closed.
Forward(s) ==
  /\ owner[s] # None /\ ~drained[s]
  /\ \/ /\ events[s] # <<>>
        /\ fwd' = Append(fwd, Forwarded(s, Head(events[s]).request,
                                        Head(events[s]).event))
        /\ events' = [events EXCEPT ![s] = Tail(@)]
        /\ UNCHANGED drained
     \/ /\ events[s] = <<>> /\ phase[s] = "closed"
        /\ fwd' = Append(fwd, Forwarded(s, None, EndOfStream))
        /\ drained' = [drained EXCEPT ![s] = TRUE]
        /\ UNCHANGED events
  /\ UNCHANGED <<entryVars, owner, phase, turn, outcome, updates, doomed, app,
                 callVars>>

\* The router took the next message for a key that has an entry.
Routed(k) ==
  /\ fwd # <<>> /\ Head(fwd).key = k /\ session[k] # 0
  /\ fwd' = Tail(fwd)
  /\ app' = Append(app, Head(fwd))
  /\ UNCHANGED <<client, session, turns, sessionVars, drained, callVars>>

\* The end of a session whose entry was removed, or anything late of it.
RouteNowhere ==
  /\ fwd # <<>> /\ session[Head(fwd).key] = 0
  /\ fwd' = Tail(fwd)
  /\ UNCHANGED <<entryVars, sessionVars, drained, app, callVars>>

\* Mutant: the end only clears the busy flag.
RouteEndQuiet(k) ==
  /\ fwd # <<>> /\ Head(fwd).key = k /\ session[k] # 0
  /\ Head(fwd).event = EndOfStream
  /\ fwd' = Tail(fwd)
  /\ busy' = [busy EXCEPT ![k] = FALSE]
  /\ UNCHANGED <<client, session, turns, seqs, conv, sessionVars, drained, app,
                 callVars>>

\* The stream of the key's session closed.
RouteEnd(k) ==
  /\ Routed(k) /\ Head(fwd).event = EndOfStream
  /\ busy' = [busy EXCEPT ![k] = FALSE]
  /\ UNCHANGED <<seqs, conv>>

\* Mutant: events outside any turn take sequence numbers too.
RouteOutsideCounts(k) ==
  /\ Routed(k) /\ Head(fwd).event # EndOfStream /\ Head(fwd).request = None
  /\ seqs' = [seqs EXCEPT ![k] = [r \in Requests |-> @[r] + 1]]
  /\ UNCHANGED <<busy, conv>>

\* An event outside any turn is passed on, and takes no sequence number.
RouteOutside(k) ==
  /\ Routed(k) /\ Head(fwd).event # EndOfStream /\ Head(fwd).request = None
  /\ UNCHANGED <<busy, seqs, conv>>

\* An event of a turn is numbered, applied and passed on, whatever apply says.
RouteTurn(k) ==
  /\ Routed(k) /\ Head(fwd).request # None
  /\ LET r == Head(fwd).request
         e == Head(fwd).event
         n == seqs[k][r] + 1
     IN /\ conv' = [conv EXCEPT ![k] = Apply(@, Wire(k, r, n, e)).conv]
        /\ seqs' = [seqs EXCEPT ![k][r] = IF IsTerminalEvent(e) THEN 0 ELSE n]
        /\ busy' = [busy EXCEPT ![k] = @ /\ ~IsTerminalEvent(e)]

Route ==
  \/ RouteNowhere
  \/ \E k \in Keys : RouteEnd(k) \/ RouteOutside(k) \/ RouteTurn(k)

-----------------------------------------------------------------------------

Next ==
  \/ \E c \in Calls : PromptStep(c) \/ PromptDrop(c)
  \/ \E k \in Keys : CloseKey(k)
  \/ Shutdown
  \/ \E s \in Sessions : SessionNext(s) \/ Forward(s)
  \/ Route

Spec == Init /\ [][Next]_vars

\* The runtime runs every task that is ready: calls, forwarders, the router, a
\* worker that finishes a turn, a close once it was asked for. The agent owes
\* nothing, and nobody owes another call.
Fairness ==
  /\ WF_vars(Route)
  /\ \A c \in Calls : WF_vars(pc[c] # "start" /\ PromptStep(c))
  /\ \A s \in Sessions :
       /\ WF_vars(Forward(s))
       /\ WF_vars(SessionFrees(s) \/ (doomed[s] /\ SessionCloses(s)))

LiveSpec == Spec /\ Fairness

-----------------------------------------------------------------------------
(* Properties *)

Phases   == {"idle", "running", "finishing", "closed"}
Outcomes == {"ok", "error"}
Items    == {UpdateEvent, CompletedEvent, ErrorEvent}
Names    == Requests \cup {None}
Messages == [key : Keys, from : Sessions, request : Names,
             event : Items \cup {EndOfStream}]

TypeOK ==
  /\ client \in BOOLEAN
  /\ session \in [Keys -> Sessions \cup {0}]
  /\ busy \in [Keys -> BOOLEAN]
  /\ turns \in [Keys -> 0..Cardinality(Calls)]
  /\ seqs \in [Keys -> [Requests -> Nat]]
  /\ conv \in [Keys -> Conversations(Keys)]
  /\ owner \in [Sessions -> Keys \cup {None}]
  /\ phase \in [Sessions -> Phases]
  /\ turn \in [Sessions -> [call : Calls \cup {None}, request : Names]]
  /\ outcome \in [Sessions -> Outcomes \cup {None}]
  /\ events \in [Sessions -> Seq([request : Names, event : Items])]
  /\ updates \in [Sessions -> 0..MaxUpdates]
  /\ doomed \in [Sessions -> BOOLEAN] /\ drained \in [Sessions -> BOOLEAN]
  /\ fwd \in Seq(Messages) /\ app \in Seq(Messages)
  /\ pc \in [Calls -> {"start", "submit", "running", "release", "done"}]
  /\ handle \in [Calls -> Sessions \cup {0}]
  /\ request \in [Calls -> Names]
  /\ result \in [Calls -> Outcomes \cup {None, "busy", "dropped"}]

\* Where the application was sent something of request r by the session k has now.
Shown(k, r) == {i \in 1..Len(app) : app[i].from = session[k] /\ app[i].request = r}

\* What of it came up to the first terminal event.
ShownInTurn(k, r) ==
  {i \in Shown(k, r) :
     \A j \in Shown(k, r) : j < i => ~IsTerminalEvent(app[j].event)}

\* "Every streamed event is already applied to its key's snapshot before it is
\* re-emitted tagged" (pool.rs:15): the snapshot of a key has taken all of what
\* its session streamed for each turn, up to the turn's first terminal event.
SnapshotFollowsStream ==
  \A k \in Keys, r \in Requests :
    session[k] # 0 =>
      conv[k].turns[r].last_sequence = Cardinality(ShownInTurn(k, r))

\* Ended means that "no further events follow for that key" (pool.rs:46).
EndedIsLast ==
  \A i, j \in 1..Len(app) :
    i < j /\ app[i].event = EndOfStream => app[j].key # app[i].key

\* is_busy tells "whether the key holds a live session with a turn in flight"
\* (pool.rs:200): while the session of a key runs a turn, the key is busy.
BusyTellsTheTurn ==
  \A k \in Keys : session[k] # 0 /\ phase[session[k]] = "running" => busy[k]

\* A busy key has a turn that runs, or becomes free again: a failed call
\* releases its slot "to avoid wedging the key" (pool.rs:133), and neither an
\* abandoned turn, nor a close, nor a session that is gone wedges it. A call
\* dropped while it waits for the lock to release the slot does.
BusyEnds ==
  \A k \in Keys :
    []<>(busy[k] =>
           \/ session[k] # 0 /\ phase[session[k]] = "running"
           \/ \E c \in Calls : KeyOf[c] = k /\ result[c] = "dropped")

\* The application is told of every session that closed under its entry.
EndIsTold ==
  \A s \in Sessions :
    []<>(phase[s] = "closed" =>
           \/ \A k \in Keys : session[k] # s
           \/ \E i \in 1..Len(app) : app[i].from = s /\ app[i].event = EndOfStream)
===============================================================================
