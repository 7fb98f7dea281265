------------------------------ MODULE EventReader ------------------------------
(***************************************************************************)
(* What the consumers of conversation events promise, without snapshots,   *)
(* envelopes or transports: each request has a log that only grows, and a  *)
(* reader takes its events one by one, in order, up to the first event     *)
(* that ends the request. A reader may start again from nothing.           *)
(***************************************************************************)
EXTENDS Integers, Sequences

CONSTANTS
  Requests,  \* request identities
  Events,    \* what may be logged
  Ending     \* the events that end a request

VARIABLES log, cursor

readerVars == <<log, cursor>>

Init ==
  /\ log = [r \in Requests |-> <<>>]
  /\ cursor = [r \in Requests |-> 0]

Grow(r, e) ==
  /\ log' = [log EXCEPT ![r] = Append(@, e)]
  /\ UNCHANGED cursor

Over(r) == \E i \in 1..cursor[r] : log[r][i] \in Ending

Take(r) ==
  /\ cursor[r] < Len(log[r])
  /\ ~Over(r)
  /\ cursor' = [cursor EXCEPT ![r] = @ + 1]
  /\ UNCHANGED log

StartAgain ==
  /\ cursor' = [r \in Requests |-> 0]
  /\ UNCHANGED log

Next ==
  \/ \E r \in Requests, e \in Events : Grow(r, e)
  \/ \E r \in Requests : Take(r)
  \/ StartAgain

Spec == Init /\ [][Next]_readerVars
=============================================================================
