---------------------------- MODULE SessionPromise ----------------------------
(***************************************************************************)
(* What a session promises to whoever holds its handle and reads its        *)
(* stream, without worker, locks, agent or connection: turns one after the  *)
(* other, each with one terminal event before the next may begin, results   *)
(* that the stream has shown first, and nothing after the close.            *)
(***************************************************************************)
EXTENDS Integers, Sequences

CONSTANTS
  Prompts,   \* prompt calls; each is its own request id
  Reasons    \* the stop reasons a prompt may report

VARIABLES
  phase,     \* "idle", "running", "finishing" or "closed"
  turn,      \* the prompt that holds the session
  stream,    \* everything streamed, each with its request and kind
  told       \* what each prompt returned

promiseVars == <<phase, turn, stream, told>>

NoOne    == "none"
Progress == {"update", "permission", "config"}

Init ==
  /\ phase = "idle" /\ turn = NoOne
  /\ stream = <<>>
  /\ told = [p \in Prompts |-> "none"]

\* The step adds one item to the stream, of this request and one of these kinds.
\* What else an item tells is not the promise's concern.
Shows(r, kinds) ==
  /\ Len(stream') = Len(stream) + 1
  /\ LET item == stream'[Len(stream')]
     IN /\ item.request = r /\ item.kind \in kinds
        /\ stream' = Append(stream, item)

Streamed(r, kinds) ==
  \E i \in DOMAIN stream : stream[i].request = r /\ stream[i].kind \in kinds

Terminals == Reasons \cup {"error"}

Reserve(p) ==
  /\ phase = "idle"
  /\ phase' = "running" /\ turn' = p
  /\ UNCHANGED <<stream, told>>

\* Progress is of no turn or of the one that runs. A configuration change alone
\* may still be tagged with a turn that has its terminal event.
Report(r) ==
  /\ phase # "closed"
  /\ Shows(r, IF r = NoOne \/ (r = turn /\ phase = "running") THEN Progress
              ELSE IF Streamed(r, Terminals) THEN {"config"} ELSE {})
  /\ UNCHANGED <<phase, turn, told>>

Finish ==
  /\ phase = "running"
  /\ phase' = "finishing"
  /\ Shows(turn, Terminals)
  /\ UNCHANGED <<turn, told>>

Release ==
  /\ phase = "finishing"
  /\ phase' = "idle" /\ turn' = NoOne
  /\ UNCHANGED <<stream, told>>

\* The stream ends, with an error of the turn or of none if there is one to tell. A
\* close that is slow to tell may name a turn that has its terminal event.
End ==
  /\ phase # "closed"
  /\ phase' = "closed" /\ turn' = NoOne
  /\ \/ UNCHANGED stream
     \/ \E r \in Prompts \cup {NoOne} :
          /\ r \in {turn, NoOne} \/ Streamed(r, Terminals)
          /\ Shows(r, {"error"})
  /\ UNCHANGED told

\* A stop reason is reported once the stream has it.
Tell(p, value) ==
  /\ told[p] = "none"
  /\ value \in Reasons => Streamed(p, {value})
  /\ told' = [told EXCEPT ![p] = value]
  /\ UNCHANGED <<phase, turn, stream>>

Next ==
  \/ \E p \in Prompts : Reserve(p) \/ Tell(p, told'[p])
  \/ \E r \in Prompts \cup {NoOne} : Report(r)
  \/ Finish \/ Release \/ End

Spec == Init /\ [][Next]_promiseVars
=============================================================================
