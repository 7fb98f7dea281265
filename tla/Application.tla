------------------------------ MODULE Application ------------------------------
(***************************************************************************)
(* What an application keeps by itself, with no task of the library behind  *)
(* it: the key of a service (ApiKeys), the driver it logs in with           *)
(* (KeyLogin) and its docks (Dock). Each takes &mut self, so one call at a  *)
(* time; they share no state. A behaviour therefore uses one of them, any   *)
(* of them, and leaves the others as they start: what holds of each is      *)
(* checked without the product of the three.                                *)
(***************************************************************************)
EXTENDS Naturals

CONSTANTS
  Services, KeysOf(_), EnvKey,
  MaxStarts,
  Ids, BadIds, Kinds, Placements, Tokens

\* A bound is a number; no service has the name that stands for none, and no focus
\* token the one that stands for the empty token.
ASSUME ApplicationConstants ==
  /\ MaxStarts \in Nat
  /\ "none" \notin Services
  /\ "empty" \notin Tokens

VARIABLES
  key, from_env_var, loaded_service, env, store, keyCall, keyResult,
  cancelled, helper, live, gone, child, connected, did, loginCall, answer, loginResult,
  rust, web, saved, told, apart,
  uses           \* the part this behaviour is about

Keys  == INSTANCE ApiKeys
Login == INSTANCE KeyLogin
Docks == INSTANCE Dock

keysVars  == <<key, from_env_var, loaded_service, env, store, keyCall, keyResult>>
loginVars == <<cancelled, helper, live, gone, child, connected, did,
               loginCall, answer, loginResult>>
docksVars == <<rust, web, saved, told, apart>>

vars == <<keysVars, loginVars, docksVars, uses>>

Init ==
  /\ Keys!Init /\ Login!Init /\ Docks!Init
  /\ uses \in {"keys", "login", "docks"}

KeysStep ==
  /\ uses = "keys"
  /\ Keys!Next
  /\ UNCHANGED <<loginVars, docksVars, uses>>

LoginStep ==
  /\ uses = "login"
  /\ Login!Next
  /\ UNCHANGED <<keysVars, docksVars, uses>>

DocksStep ==
  /\ uses = "docks"
  /\ Docks!Next
  /\ UNCHANGED <<keysVars, loginVars, uses>>

Next == KeysStep \/ LoginStep \/ DocksStep

Spec == Init /\ [][Next]_vars

-----------------------------------------------------------------------------

\* Every part has its type.
TypeOK == Keys!TypeOK /\ Login!TypeOK /\ Docks!TypeOK

\* ApiKeys: the key shown belongs to the service it is shown for
\* (auth.rs:223-300), whatever failed or was dropped on the way.
KeyIsOfItsService == Keys!KeyIsOfItsService

\* KeyLogin: at most one control server runs, and only while a start is under way
\* or the driver keeps it (opencode.rs:31-32).
NoStrayServer == Login!NoStrayServer

\* KeyLogin: a reported login is a fact of the call that reports it
\* (opencode.rs:403-471).
AuthenticatedIsReal == Login!AuthenticatedIsReal

\* Dock: after the same calls the registries of Rust and of the browser hold the
\* same docks, save the same docks and take or refuse alike, until one of the two
\* calls on which their code differs (dock.ts:1).
DocksAgree == Docks!DocksAgree
=============================================================================
