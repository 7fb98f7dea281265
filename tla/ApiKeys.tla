-------------------------------- MODULE ApiKeys --------------------------------
(***************************************************************************)
(* ApiKeyState (src/auth.rs): the key an application holds for a service,   *)
(* over a store that other programs change, that fails, and whose calls the *)
(* application may drop while they wait. The environment's key wins.        *)
(***************************************************************************)

CONSTANTS
  Services,      \* service URLs
  KeysOf(_),     \* the keys there are for a service
  EnvKey         \* the key the environment variable may hold

None  == "none"
Blank == "blank"     \* white space only

VARIABLES
  \* ApiKeyState
  key, from_env_var, loaded_service,
  \* outside
  env,           \* the variable: EnvKey, or None when it is unset or blank
  store,         \* the secret of each service; bytes that are no text count as none
  \* the call in progress, what it is for, and what the last one returned
  keyCall, keyResult

keys == <<key, from_env_var, loaded_service>>
apiVars == <<keys, env, store, keyCall, keyResult>>

Idle == [step |-> "idle"]

Init ==
  /\ key = None /\ from_env_var = FALSE /\ loaded_service = None
  /\ env \in {None, EnvKey}
  /\ store = [s \in Services |-> None]
  /\ keyCall = Idle /\ keyResult = None

At(step) == keyCall.step = step

Return(value) == keyCall' = Idle /\ keyResult' = value
Wait(call)    == keyCall' = call /\ UNCHANGED keyResult

\* ApiKeyState::has_key and snapshot; white space counts as a key
Snapshot(k) == IF k # None THEN "authenticated" ELSE "unauthenticated"

-----------------------------------------------------------------------------
(* load_if_needed *)

LoadKnown(s) ==
  /\ At("idle")
  /\ loaded_service = s
  /\ Return(Snapshot(key))
  /\ UNCHANGED <<keys, env, store>>

LoadFromEnv(s) ==
  /\ At("idle")
  /\ loaded_service # s /\ env # None
  /\ key' = env /\ from_env_var' = TRUE /\ loaded_service' = s
  /\ Return(Snapshot(env))
  /\ UNCHANGED <<env, store>>

\* Mutant: the service is noted before the store has answered.
LoadFromStoreEager(s) ==
  /\ At("idle")
  /\ loaded_service # s /\ env = None
  /\ from_env_var' = FALSE
  /\ loaded_service' = s
  /\ Wait([step |-> "load", service |-> s])
  /\ UNCHANGED <<key, env, store>>

\* The key of before stays until the store answers.
LoadFromStore(s) ==
  /\ At("idle")
  /\ loaded_service # s /\ env = None
  /\ from_env_var' = FALSE
  /\ Wait([step |-> "load", service |-> s])
  /\ UNCHANGED <<key, loaded_service, env, store>>

Loaded ==
  /\ At("load")
  /\ LET s == keyCall.service
     IN key' = IF store[s] = Blank THEN None ELSE store[s]
  /\ loaded_service' = keyCall.service
  /\ Return(Snapshot(key'))
  /\ UNCHANGED <<from_env_var, env, store>>

-----------------------------------------------------------------------------
(* handle_service_change, store *)

ServiceChange(s) ==
  /\ At("idle")
  /\ IF loaded_service # s
     THEN key' = None /\ from_env_var' = FALSE /\ loaded_service' = None
     ELSE UNCHANGED keys
  /\ UNCHANGED <<env, store, keyCall, keyResult>>

\* A key that is only white space signs out, as None does.
Store(s, k) ==
  /\ At("idle")
  /\ IF from_env_var
     THEN Return("NotSupported")
     ELSE Wait([step |-> IF k \in {None, Blank} THEN "delete" ELSE "write",
                service |-> s, key |-> k])
  /\ UNCHANGED <<keys, env, store>>

\* The store has the key; the state reads it back, as it is by then.
Written ==
  /\ At("write")
  /\ store' = [store EXCEPT ![keyCall.service] = keyCall.key]
  /\ Wait([step |-> "read", service |-> keyCall.service])
  /\ UNCHANGED <<keys, env>>

ReadBack ==
  /\ At("read")
  /\ key' = store[keyCall.service]
  /\ Return(Snapshot(key'))
  /\ loaded_service' = keyCall.service
  /\ UNCHANGED <<from_env_var, env, store>>

Deleted ==
  /\ At("delete")
  /\ store' = [store EXCEPT ![keyCall.service] = None]
  /\ key' = None
  /\ loaded_service' = keyCall.service
  /\ Return(Snapshot(None))
  /\ UNCHANGED <<from_env_var, env>>

\* The store fails, or the application drops the call; either way what was to be
\* written or deleted may have been.
Broken(why) ==
  /\ ~At("idle")
  /\ Return(why)
  /\ LET s == keyCall.service
     IN store' \in {store} \cup
          CASE At("write")  -> {[store EXCEPT ![s] = keyCall.key]}
            [] At("delete") -> {[store EXCEPT ![s] = None]}
            [] OTHER        -> {}
  /\ UNCHANGED <<keys, env>>

-----------------------------------------------------------------------------
(* Outside: other programs write to the store, the process changes its variables *)

StoreChanges(s) ==
  /\ store' \in {[store EXCEPT ![s] = k] : k \in KeysOf(s) \cup {None, Blank}}
  /\ UNCHANGED <<keys, env, keyCall, keyResult>>

EnvChanges ==
  /\ env' \in {None, EnvKey}
  /\ UNCHANGED <<keys, store, keyCall, keyResult>>

Next ==
  \/ \E s \in Services :
       \/ LoadKnown(s) \/ LoadFromEnv(s) \/ LoadFromStore(s)
       \/ ServiceChange(s) \/ StoreChanges(s)
       \/ \E k \in KeysOf(s) \cup {None, Blank} : Store(s, k)
  \/ Loaded \/ Written \/ ReadBack \/ Deleted
  \/ \E why \in {"Store", "dropped"} : Broken(why)
  \/ EnvChanges

Spec == Init /\ [][Next]_apiVars

-----------------------------------------------------------------------------

TypeOK ==
  /\ key \in (UNION {KeysOf(s) : s \in Services}) \cup {EnvKey, None, Blank}
  /\ from_env_var \in BOOLEAN
  /\ loaded_service \in Services \cup {None}
  /\ env \in {None, EnvKey}
  /\ \A s \in Services : store[s] \in KeysOf(s) \cup {None, Blank}
  /\ keyCall.step \in {"idle", "load", "write", "read", "delete"}

\* The key shown is the environment's or one of the very service it was loaded
\* for, whatever failed, was dropped or was changed by others on the way: an
\* application never signs a request to one service with another's key
\* (auth.rs:223-300). A key whose service is unknown is not shown.
KeyIsOfItsService ==
  key # None =>
    loaded_service # None /\ key \in KeysOf(loaded_service) \cup {EnvKey, Blank}
=============================================================================
