---------------------------- MODULE MCConversation ----------------------------
(* An instance of Conversation for TLC: the events and the logs it streams. *)
EXTENDS Conversation

Plain(kind) ==
  [kind |-> kind, tool |-> None, permission |-> None, value |-> None, size |-> 1]

Message(size)     == [Plain("message") EXCEPT !.size = size]
ToolCall(t, s)    == [Plain("tool_call") EXCEPT !.tool = t, !.value = s]
ToolUpdate(t, s)  == [Plain("tool_update") EXCEPT !.tool = t, !.value = s]
Ask(p)            == [Plain("permission") EXCEPT !.permission = p]
Advertise(k, v)   == [Plain(k) EXCEPT !.value = v]
Completed(reason) == [Plain("completed") EXCEPT !.value = reason]
Failed            == Plain("error")

\* Both permissions are about the same or about different tool calls.
MCToolOf == [p \in PermissionIds |-> IF p = "p2" THEN "t2" ELSE "t1"]

\* One request, every kind of event; permissions of the same and of another
\* call than the one that changes.
TurnEvents ==
  { Message(2), ToolCall("t1", "completed"), ToolUpdate("t1", "failed"),
    ToolUpdate("t1", None), Ask("p1"), Ask("p2"), Advertise("mode", "v1"),
    Completed("refusal"), Failed }

\* Requests that compete for the capacity of the snapshot.
FewEvents ==
  { Message(4), Advertise("config", "v1"), Advertise("config", "v2"),
    Completed("end_turn") }

AllEvents == TurnEvents \cup FewEvents

Strange   == { Advertise("config", "v2") }

\* The logs of this instance: one request streams at length, or two requests
\* stream in brief and a consumer may start again. Only the application's logging
\* and the reload are held to it; the transport does what it likes.
AtLength == log["r2"] = <<>> /\ reloads = 0 /\ log["r1"] \in Seq(TurnEvents)
InBrief  == \A r \in Requests : Len(log[r]) <= 2 /\ log[r] \in Seq(FewEvents)

MCNext ==
  \/ \E r \in Requests, e \in Events : Log(r, e) /\ (AtLength \/ InBrief)'
  \/ \E r \in Requests, i \in 1..MaxLog : Deliver(r, i) \/ DeliverJson(r, i)
  \/ \E w \in Strays : DeliverStray(w)
  \/ DeliverMalformed
  \/ Reload /\ InBrief

MCSpec == Init /\ [][MCNext]_vars /\ \A r \in Requests : WF_vars(Replay(r))
=============================================================================
