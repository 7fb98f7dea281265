----------------------------- MODULE MCApplication -----------------------------
(* An instance of Application for TLC: each service has a key of its own. *)
EXTENDS Application

MCKeysOf(s) == IF s = "a" THEN {"key_a"} ELSE {"key_b"}
=============================================================================
