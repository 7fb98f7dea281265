------------------------------- MODULE MCSession -------------------------------
(* An instance of Session for TLC whose prompts are alike: no step tells one from
   another, so states that differ only by their exchange are one. *)
EXTENDS Session, TLC

Exchange == Permutations(Prompts)
================================================================================
