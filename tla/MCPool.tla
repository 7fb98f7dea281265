-------------------------------- MODULE MCPool --------------------------------
(* Instances of Pool for TLC: every call is about one key. *)
EXTENDS Pool

OneKey  == [c \in Calls |-> "k1"]

Names2  == <<"r1", "r2">>
NoTools == <<>>
===============================================================================
