------------------------------- MODULE KeyLogin -------------------------------
(***************************************************************************)
(* OpenCodeKeyDriver (src/native/drivers/opencode.rs): a control server is  *)
(* started for each attempt, asked until it is ready, given the user's key  *)
(* and asked whether the vendor lists the provider. Every wait may time     *)
(* out, the server may exit or answer anything, and the application may     *)
(* drop a call. A round trip is a request, what the server makes of it and  *)
(* what comes back; each has a connection of its own, so that no answer     *)
(* ever meets another request.                                             *)
(***************************************************************************)
EXTENDS Naturals

CONSTANT MaxStarts     \* bound: control servers launched

Attempts == 1..MaxStarts
Nobody   == 0

VARIABLES
  \* OpenCodeKeyDriver
  cancelled, helper,
  live,          \* the server that a running start holds
  gone,          \* the driver was dropped
  \* the control servers, and the vendor's list behind them
  child, connected,
  did,           \* what the server did for the current call
  \* the call: where it is, the answer on its connection, the last result
  loginCall, answer, loginResult

driver  == <<cancelled, helper, live, gone>>
servers == <<child, connected, did>>
call    == <<loginCall, answer, loginResult>>
loginVars == <<driver, servers, call>>

Init ==
  /\ cancelled = FALSE /\ helper = Nobody /\ live = Nobody /\ gone = FALSE
  /\ child = [n \in Attempts |-> "none"]
  /\ connected \in BOOLEAN
  /\ did = {}
  /\ loginCall = "idle" /\ answer = "none" /\ loginResult = "none"

Runs(n) == n # Nobody /\ child[n] \in {"booting", "serving"}

\* start_kill, or the drop of a child with kill_on_drop
Killed(n) == [m \in Attempts |-> IF m = n /\ Runs(m) THEN "killed" ELSE child[m]]

Ready == loginCall = "idle" /\ ~gone

Return(value) ==
  /\ loginCall' = "idle" /\ answer' = "none" /\ loginResult' = value

Ask(what) ==
  /\ loginCall' = what /\ answer' = "none"
  /\ UNCHANGED loginResult

\* The server a request goes to.
Server == IF live # Nobody THEN live ELSE helper

-----------------------------------------------------------------------------
(* start *)

\* A start that ends without success drops its server.
StartEnds(value) ==
  /\ Return(value)
  /\ live' = Nobody /\ child' = Killed(live)
  /\ UNCHANGED <<cancelled, helper, gone, connected, did>>

\* The server of an earlier attempt goes first; then a port and a new server
\* are there, or not.
Start ==
  /\ Ready /\ ~cancelled
  /\ helper' = Nobody
  /\ did' = {}
  /\ UNCHANGED <<cancelled, gone, connected>>
  /\ \/ /\ child' = Killed(helper)
        /\ UNCHANGED live
        /\ \E e \in {"Timeout", "Spawn", "dropped"} : Return(e)
     \/ \E n \in Attempts :
          /\ child[n] = "none" /\ \A m \in 1..n-1 : child[m] # "none"
          /\ child' = [Killed(helper) EXCEPT ![n] = "booting"]
          /\ live' = n
          /\ Ask("ready")

\* await_ready, the top of its loop: the deadline, an exit, or another attempt.
\* The clock is read again for what is left of the deadline, after the check:
\* should it have passed meanwhile the subtraction of the durations panics.
ReadyAgain ==
  /\ loginCall = "ready"
  /\ \/ StartEnds("Timeout")
     \/ StartEnds("panic")
     \/ child[live] = "exited" /\ StartEnds("Spawn")
     \/ child[live] # "exited" /\ Ask("health") /\ UNCHANGED <<driver, servers>>

\* Whatever the health request comes to, only an answer that is none ends it.
HealthAnswered ==
  /\ loginCall = "health" /\ answer # "none"
  /\ \/ answer = "2xx" /\ Ask("put") /\ UNCHANGED <<driver, servers>>
     \/ /\ answer \in {"code", "Closed", "Timeout"}
        /\ Ask("ready")
        /\ UNCHANGED <<driver, servers>>
     \/ answer = "garbled" /\ StartEnds("Protocol")

\* Mutant: a refused key is not noticed.
PutAnsweredAnyCode ==
  /\ loginCall = "put" /\ answer # "none"
  /\ \/ answer \in {"2xx", "code"} /\ Ask("list") /\ UNCHANGED <<driver, servers>>
     \/ answer = "garbled" /\ StartEnds("Protocol")
     \/ answer \in {"Closed", "Timeout"} /\ StartEnds(answer)

PutAnswered ==
  /\ loginCall = "put" /\ answer # "none"
  /\ \/ answer = "2xx" /\ Ask("list") /\ UNCHANGED <<driver, servers>>
     \/ answer = "code" /\ StartEnds("failed")
     \/ answer = "garbled" /\ StartEnds("Protocol")
     \/ answer \in {"Closed", "Timeout"} /\ StartEnds(answer)

\* The vendor lists the provider: the driver takes the server over.
Listed ==
  /\ loginCall = "list" /\ answer # "none"
  /\ \/ /\ answer = "listed"
        /\ Return("authenticated")
        /\ helper' = live /\ live' = Nobody
        /\ UNCHANGED <<cancelled, gone, servers>>
     \/ answer = "unlisted" /\ StartEnds("failed")
     \/ answer \in {"code", "garbled"} /\ StartEnds("Protocol")
     \/ answer \in {"Closed", "Timeout"} /\ StartEnds(answer)

-----------------------------------------------------------------------------
(* poll and account re-read the list; cancel; Drop *)

\* "present" is Authenticated of poll and the label of account, "absent" is
\* Failed of poll and signed_out of account.

Presence ==
  /\ Ready /\ ~cancelled
  /\ did' = {}
  /\ IF helper = Nobody THEN Return("Closed") ELSE Ask("presence")
  /\ UNCHANGED <<driver, child, connected>>

PresenceAnswered ==
  /\ loginCall = "presence" /\ answer # "none"
  /\ Return(CASE answer = "listed" -> "present"
              [] answer = "unlisted" -> "absent"
              [] answer \in {"code", "garbled"} -> "Protocol"
              [] OTHER -> answer)
  /\ UNCHANGED <<driver, servers>>

\* Any call after a cancel.
AfterCancel ==
  /\ Ready /\ cancelled
  /\ Return("Cancelled")
  /\ UNCHANGED <<driver, servers>>

\* Mutant: the server outlives the cancelled attempt.
CancelKeeps ==
  /\ Ready
  /\ cancelled' = TRUE
  /\ Return("ok")
  /\ UNCHANGED <<helper, live, gone, servers>>

Cancel ==
  /\ Ready
  /\ cancelled' = TRUE
  /\ helper' = Nobody /\ child' = Killed(helper)
  /\ Return("ok")
  /\ UNCHANGED <<live, gone, connected, did>>

\* The application drops the future of a call; a start takes its server along.
DropCall == loginCall # "idle" /\ StartEnds("dropped")

DropDriver ==
  /\ Ready
  /\ gone' = TRUE
  /\ helper' = Nobody /\ child' = Killed(helper)
  /\ UNCHANGED <<cancelled, live, connected, did, call>>

-----------------------------------------------------------------------------
(* http_call, and the server at its other end *)

Asked == loginCall \in {"health", "put", "list", "presence"} /\ answer = "none"

Answer(a) == answer' = a /\ UNCHANGED <<driver, loginCall, loginResult>>

\* The server is not there, hangs up, or answers too much or no HTTP.
RequestFails ==
  /\ Asked
  /\ \/ child[Server] # "serving" /\ Answer("Closed")
     \/ child[Server] = "serving" /\ \E a \in {"Closed", "garbled"} : Answer(a)
  /\ UNCHANGED servers

\* One of the five waits of a round trip ends.
RequestTimesOut == Asked /\ Answer("Timeout") /\ UNCHANGED servers

\* What the server does for a request is done, whether or not it is answered.
ServerActs ==
  /\ Asked /\ child[Server] = "serving"
  /\ \/ loginCall = "health" /\ (\E a \in {"2xx", "code"} : Answer(a)) /\ UNCHANGED did
     \/ /\ loginCall = "put"
        /\ \/ did' = {"stored"} /\ (Answer("2xx") \/ Answer("none"))
           \/ UNCHANGED did /\ Answer("code")
     \/ /\ loginCall \in {"list", "presence"}
        /\ \/ connected /\ did' = did \cup {"listed"} /\ Answer("listed")
           \/ ~connected /\ UNCHANGED did /\ Answer("unlisted")
           \/ UNCHANGED did /\ \E a \in {"code", "garbled"} : Answer(a)
  /\ UNCHANGED <<child, connected>>

ServerBoots(n) ==
  /\ child[n] = "booting"
  /\ child' = [child EXCEPT ![n] = "serving"]
  /\ UNCHANGED <<driver, connected, did, call>>

ServerExits(n) ==
  /\ Runs(n)
  /\ child' = [child EXCEPT ![n] = "exited"]
  /\ UNCHANGED <<driver, connected, did, call>>

\* The vendor starts or ceases to list the provider: for the key that was stored,
\* for one of before, or because somebody signs out.
VendorChanges ==
  /\ connected' = ~connected
  /\ UNCHANGED <<driver, child, did, call>>

Next ==
  \/ Start \/ Presence \/ AfterCancel \/ Cancel \/ DropCall \/ DropDriver
  \/ ReadyAgain \/ HealthAnswered \/ PutAnswered \/ Listed \/ PresenceAnswered
  \/ RequestFails \/ RequestTimesOut \/ ServerActs \/ VendorChanges
  \/ \E n \in Attempts : ServerBoots(n) \/ ServerExits(n)

Spec == Init /\ [][Next]_loginVars

-----------------------------------------------------------------------------

Results ==
  { "none", "ok", "authenticated", "failed", "present", "absent", "dropped", "panic",
    "Timeout", "Spawn", "Closed", "Protocol", "Cancelled" }

TypeOK ==
  /\ cancelled \in BOOLEAN /\ gone \in BOOLEAN /\ connected \in BOOLEAN
  /\ helper \in Attempts \cup {Nobody} /\ live \in Attempts \cup {Nobody}
  /\ child \in [Attempts -> {"none", "booting", "serving", "exited", "killed"}]
  /\ did \subseteq {"stored", "listed"}
  /\ loginCall \in {"idle", "ready", "health", "put", "list", "presence"}
  /\ answer \in {"none", "2xx", "code", "garbled", "Closed", "Timeout", "listed", "unlisted"}
  /\ loginResult \in Results

\* A control server holds the user's key. At most one runs at a time, only while
\* a start is under way or the driver keeps it, and none once the attempt is
\* cancelled or the driver gone: whichever step failed, timed out or was dropped
\* (opencode.rs:31-32, "stopped on drop and on cancellation").
NoStrayServer ==
  \A n \in Attempts :
    Runs(n) =>
      /\ n \in {helper, live}
      /\ ~cancelled /\ ~gone
      /\ \A m \in Attempts : Runs(m) => m = n

\* A reported login is a fact of this call: a server told the driver that the
\* vendor lists the provider, for a start after it had stored the key. A provider
\* that was listed for an earlier key does not make up for one that was refused.
AuthenticatedIsReal ==
  loginCall = "idle" =>
    /\ loginResult = "authenticated" => did = {"stored", "listed"}
    /\ loginResult = "present" => "listed" \in did
=============================================================================
