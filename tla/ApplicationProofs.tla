--------------------------- MODULE ApplicationProofs ---------------------------
(***************************************************************************)
(* What the credential state and the key login of an application promise,  *)
(* proved for every set of services and keys and every number of control   *)
(* servers. The third part, the docks, is in DockProofs.                   *)
(***************************************************************************)
EXTENDS DockProofs, TLAPS

--------------------------------------------------------------------------------
(* ApiKeys *)

\* A call in progress knows its service, and what it writes is a key of that
\* service: by the time the store answers, both are what they were at the start.
CallKeepsService ==
  /\ keyCall.step # "idle" => keyCall.service \in Services
  /\ keyCall.step = "write" =>
       keyCall.key \in KeysOf(keyCall.service) \cup {Keys!None, Keys!Blank}

KeysInv ==
  /\ store = [s \in Services |-> store[s]]
  /\ Keys!TypeOK
  /\ CallKeepsService
  /\ Keys!KeyIsOfItsService

\* Every instance starts with no key.
LEMMA KeysStart ==
  ASSUME Keys!Init
  PROVE  KeysInv
BY ApplicationConstants
DEF ApplicationConstants, KeysInv, CallKeepsService, Keys!Init, Keys!TypeOK,
    Keys!KeyIsOfItsService, Keys!None, Keys!Blank, Keys!Idle

\* Each step of ApiKeys, by the action that takes it.
LEMMA KeysKept ==
  ASSUME KeysInv, Keys!Next
  PROVE  KeysInv'
<1> USE ApplicationConstants
    DEF ApplicationConstants, KeysInv, CallKeepsService, Keys!TypeOK,
        Keys!KeyIsOfItsService, Keys!None, Keys!Blank, Keys!Idle, Keys!At, Keys!Return,
        Keys!Wait, Keys!keys
<1>1. ASSUME NEW s \in Services, Keys!LoadKnown(s)
      PROVE  KeysInv'
  BY <1>1 DEF Keys!LoadKnown
<1>2. ASSUME NEW s \in Services, Keys!LoadFromEnv(s)
      PROVE  KeysInv'
  BY <1>2 DEF Keys!LoadFromEnv
<1>3. ASSUME NEW s \in Services, Keys!LoadFromStore(s)
      PROVE  KeysInv'
  BY <1>3 DEF Keys!LoadFromStore
<1>4. ASSUME NEW s \in Services, Keys!ServiceChange(s)
      PROVE  KeysInv'
  BY <1>4 DEF Keys!ServiceChange
<1>5. ASSUME NEW s \in Services, Keys!StoreChanges(s)
      PROVE  KeysInv'
  BY <1>5 DEF Keys!StoreChanges
<1>6. ASSUME NEW s \in Services, NEW k \in KeysOf(s) \cup {Keys!None, Keys!Blank},
             Keys!Store(s, k)
      PROVE  KeysInv'
  BY <1>6 DEF Keys!Store
<1>7. ASSUME Keys!Loaded
      PROVE  KeysInv'
  BY <1>7 DEF Keys!Loaded
<1>8. ASSUME Keys!Written
      PROVE  KeysInv'
  BY <1>8 DEF Keys!Written
<1>9. ASSUME Keys!ReadBack
      PROVE  KeysInv'
  BY <1>9 DEF Keys!ReadBack
<1>10. ASSUME Keys!Deleted
       PROVE  KeysInv'
  BY <1>10 DEF Keys!Deleted
<1>11. ASSUME NEW why \in {"Store", "dropped"}, Keys!Broken(why)
       PROVE  KeysInv'
  BY <1>11 DEF Keys!Broken
<1>12. ASSUME Keys!EnvChanges
       PROVE  KeysInv'
  BY <1>12 DEF Keys!EnvChanges
<1>13. QED
  BY <1>1, <1>2, <1>3, <1>4, <1>5, <1>6, <1>7, <1>8, <1>9, <1>10, <1>11, <1>12
  DEF Keys!Next

\* The other parts do not touch it.
LEMMA KeysStand ==
  ASSUME KeysInv, UNCHANGED keysVars
  PROVE  KeysInv'
BY DEF KeysInv, CallKeepsService, Keys!TypeOK, Keys!KeyIsOfItsService, keysVars

\* Types, the call in progress and the key it is about hold together (auth.rs:223-300).
THEOREM KeysAreSound == Spec => []KeysInv
<1>1. Init => KeysInv
  BY KeysStart DEF Init
<1>2. KeysInv /\ [Next]_vars => KeysInv'
  BY KeysKept, KeysStand DEF Next, KeysStep, LoginStep, DocksStep, vars
<1>3. QED BY <1>1, <1>2, PTL DEF Spec

\* The key an application shows is the environment's or one of the service it
\* was loaded for, whatever failed, was dropped or was changed by other programs
\* while the store was asked (auth.rs:223-300).
THEOREM KeysStayWithTheirService == Spec => []KeyIsOfItsService
<1>1. KeysInv => KeyIsOfItsService
  BY DEF KeysInv, KeyIsOfItsService
<1>2. QED BY <1>1, KeysAreSound, PTL

--------------------------------------------------------------------------------
(* KeyLogin *)

Starting == {"ready", "health", "put", "list"}

\* A server runs in the hands of one holder: of the start under way, which has
\* put an earlier server away, or of the driver. A call under way means that
\* nobody cancelled and the driver is there; a list is not answered like a health check.
ServerHeld ==
  /\ loginCall \in Starting <=> live # Login!Nobody
  /\ live # Login!Nobody => helper = Login!Nobody
  /\ loginCall # "idle" => ~cancelled /\ ~gone
  /\ cancelled \/ gone => helper = Login!Nobody
  /\ loginCall = "presence" => answer # "2xx"
  /\ \A n \in Login!Attempts : Login!Runs(n) => n \in {helper, live}

ServerInv == Login!TypeOK /\ ServerHeld

\* What stopping a server leaves: the others.
LEMMA KilledRuns ==
  ASSUME ServerInv, NEW n
  PROVE  /\ Login!Killed(n) \in
              [Login!Attempts -> {"none", "booting", "serving", "exited", "killed"}]
         /\ \A m \in Login!Attempts :
              Login!Killed(n)[m] \in {"booting", "serving"} => m # n /\ Login!Runs(m)
BY ApplicationConstants
DEF ApplicationConstants, ServerInv, Login!TypeOK, Login!Killed, Login!Runs,
    Login!Attempts, Login!Nobody

\* A start that ends, as it may at each of its steps, and any call that is given up.
LEMMA EndIsClean ==
  ASSUME ServerInv, loginCall # "idle", NEW v \in Login!Results, Login!StartEnds(v)
  PROVE  ServerInv'
BY KilledRuns
DEF ServerInv, ServerHeld, Starting, Login!TypeOK, Login!Runs, Login!Nobody,
    Login!StartEnds, Login!Return

\* A start that goes on to its next request.
LEMMA NextRequest ==
  ASSUME ServerInv, loginCall \in Starting, NEW what \in Starting, Login!Ask(what),
         UNCHANGED <<Login!driver, Login!servers>>
  PROVE  ServerInv'
BY DEF ServerInv, ServerHeld, Starting, Login!TypeOK, Login!Runs, Login!Ask,
       Login!driver, Login!servers

\* An answer to a request.
LEMMA AnswerArrives ==
  ASSUME ServerInv,
         NEW a \in {"none", "2xx", "code", "garbled", "Closed", "Timeout", "listed",
                    "unlisted"},
         loginCall = "presence" => a # "2xx",
         Login!Answer(a), UNCHANGED <<child, connected>>, did' \subseteq {"stored", "listed"}
  PROVE  ServerInv'
BY DEF ServerInv, ServerHeld, Login!TypeOK, Login!Runs, Login!Answer, Login!driver

\* No server runs at the start.
LEMMA ServersStart ==
  ASSUME Login!Init
  PROVE  ServerInv
BY DEF Login!Init, ServerInv, ServerHeld, Starting, Login!TypeOK, Login!Nobody,
       Login!Attempts, Login!Runs, Login!Results

\* Each step of KeyLogin, by the action that takes it.
LEMMA ServersKept ==
  ASSUME ServerInv, Login!Next
  PROVE  ServerInv'
<1> USE ApplicationConstants DEF ApplicationConstants
<1>1. ASSUME Login!Start
      PROVE  ServerInv'
  <2> USE DEF ServerInv, ServerHeld, Starting, Login!TypeOK, Login!Runs, Login!Nobody,
              Login!Ready, Login!Return, Login!Ask, Login!Attempts, Login!Results
  <2>1. ASSUME child' = Login!Killed(helper), UNCHANGED live,
               NEW e \in {"Timeout", "Spawn", "dropped"}, Login!Return(e)
        PROVE  ServerInv'
    BY <1>1, <2>1, KilledRuns DEF Login!Start
  <2>2. ASSUME NEW n \in Login!Attempts,
               child' = [Login!Killed(helper) EXCEPT ![n] = "booting"],
               live' = n, Login!Ask("ready")
        PROVE  ServerInv'
    BY <1>1, <2>2, KilledRuns DEF Login!Start
  <2>3. QED BY <1>1, <2>1, <2>2 DEF Login!Start
<1>2. ASSUME Login!Presence
      PROVE  ServerInv'
  BY <1>2
  DEF ServerInv, ServerHeld, Starting, Login!TypeOK, Login!Runs, Login!Nobody,
      Login!Ready, Login!Return, Login!Ask, Login!Results, Login!Presence, Login!driver
<1>3. ASSUME Login!AfterCancel
      PROVE  ServerInv'
  BY <1>3
  DEF ServerInv, ServerHeld, Login!TypeOK, Login!Runs, Login!Ready, Login!Return,
      Login!Results, Login!AfterCancel, Login!driver, Login!servers, Starting
<1>4. ASSUME Login!Cancel
      PROVE  ServerInv'
  BY <1>4, KilledRuns
  DEF ServerInv, ServerHeld, Starting, Login!TypeOK, Login!Runs, Login!Nobody,
      Login!Ready, Login!Return, Login!Results, Login!Cancel
<1>5. ASSUME Login!DropCall
      PROVE  ServerInv'
  BY <1>5, EndIsClean DEF Login!DropCall, Login!Results
<1>6. ASSUME Login!DropDriver
      PROVE  ServerInv'
  BY <1>6, KilledRuns
  DEF ServerInv, ServerHeld, Starting, Login!TypeOK, Login!Runs, Login!Nobody,
      Login!Ready, Login!DropDriver, Login!call
<1>7. ASSUME Login!ReadyAgain
      PROVE  ServerInv'
  BY <1>7, EndIsClean, NextRequest DEF Login!ReadyAgain, Login!Results, Starting
<1>8. ASSUME Login!HealthAnswered
      PROVE  ServerInv'
  <2>1. loginCall \in Starting /\ {"put", "ready"} \subseteq Starting
    BY <1>8 DEF Login!HealthAnswered, Starting
  <2>2. CASE Login!StartEnds("Protocol")
    BY <1>8, <2>2, EndIsClean DEF Login!HealthAnswered, Login!Results
  <2>3. QED BY <1>8, <2>1, <2>2, NextRequest DEF Login!HealthAnswered
<1>9. ASSUME Login!PutAnswered
      PROVE  ServerInv'
  <2>1. loginCall \in Starting /\ "list" \in Starting
    BY <1>9 DEF Login!PutAnswered, Starting
  <2>2. CASE \E v \in Login!Results : Login!StartEnds(v)
    BY <1>9, <2>2, EndIsClean DEF Login!PutAnswered
  <2>3. QED BY <1>9, <2>1, <2>2, NextRequest DEF Login!PutAnswered, Login!Results
<1>10. ASSUME Login!Listed
       PROVE  ServerInv'
  <2>1. ASSUME Login!Return("authenticated"), helper' = live, live' = Login!Nobody,
               UNCHANGED <<cancelled, gone, Login!servers>>
        PROVE  ServerInv'
    <3>1. Login!TypeOK'
      BY <2>1
      DEF ServerInv, Login!TypeOK, Login!Nobody, Login!Return, Login!Results, Login!servers
    <3>2. ~cancelled /\ ~gone /\ helper = Login!Nobody
      BY <1>10 DEF ServerInv, ServerHeld, Starting, Login!Listed
    <3>3. ServerHeld'
      BY <2>1, <3>2
      DEF ServerInv, ServerHeld, Starting, Login!Runs, Login!Nobody, Login!Return,
          Login!servers
    <3>4. QED BY <3>1, <3>3 DEF ServerInv
  <2>2. CASE \E v \in Login!Results : Login!StartEnds(v)
    BY <1>10, <2>2, EndIsClean DEF Login!Listed
  <2>3. QED BY <1>10, <2>1, <2>2 DEF Login!Listed, Login!Results
<1>11. ASSUME Login!PresenceAnswered
       PROVE  ServerInv'
  BY <1>11
  DEF ServerInv, ServerHeld, Starting, Login!TypeOK, Login!Runs, Login!Return,
      Login!Results, Login!PresenceAnswered, Login!driver, Login!servers
<1>12. ASSUME Login!RequestFails \/ Login!RequestTimesOut
       PROVE  ServerInv'
  BY <1>12, AnswerArrives
  DEF ServerInv, Login!TypeOK, Login!RequestFails, Login!RequestTimesOut, Login!servers
<1>13. ASSUME Login!ServerActs
       PROVE  ServerInv'
  BY <1>13, AnswerArrives DEF ServerInv, Login!TypeOK, Login!ServerActs
<1>14. ASSUME Login!VendorChanges
       PROVE  ServerInv'
  BY <1>14
  DEF ServerInv, ServerHeld, Login!TypeOK, Login!Runs, Login!VendorChanges,
      Login!driver, Login!call, Starting
<1>15. ASSUME NEW n \in Login!Attempts, Login!ServerBoots(n) \/ Login!ServerExits(n)
       PROVE  ServerInv'
  <2>1. child[n] \in {"booting", "serving"}
    BY <1>15 DEF Login!ServerBoots, Login!ServerExits, Login!Runs
  <2>2. UNCHANGED <<Login!driver, connected, did, Login!call>>
    BY <1>15 DEF Login!ServerBoots, Login!ServerExits
  <2>3. PICK s \in {"serving", "exited"} : child' = [child EXCEPT ![n] = s]
    BY <1>15 DEF Login!ServerBoots, Login!ServerExits
  <2>4. Login!TypeOK'
    BY <2>2, <2>3 DEF ServerInv, Login!TypeOK, Login!driver, Login!call
  <2>5. \A m \in Login!Attempts : Login!Runs(m)' => Login!Runs(m)
    BY <2>1, <2>3 DEF ServerInv, Login!TypeOK, Login!Runs
  <2>6. ServerHeld'
    BY <2>2, <2>5 DEF ServerInv, ServerHeld, Login!driver, Login!call
  <2>7. QED BY <2>4, <2>6 DEF ServerInv
<1>16. QED
  BY <1>1, <1>2, <1>3, <1>4, <1>5, <1>6, <1>7, <1>8, <1>9, <1>10, <1>11, <1>12,
     <1>13, <1>14, <1>15
  DEF Login!Next

\* The other parts do not touch it.
LEMMA ServersStand ==
  ASSUME ServerInv, UNCHANGED loginVars
  PROVE  ServerInv'
BY DEF ServerInv, ServerHeld, Login!TypeOK, Login!Runs, loginVars

\* Every running server is held by the start or by the driver (opencode.rs:31-32).
THEOREM ServersAreHeld == Spec => []ServerInv
<1>1. Init => ServerInv
  BY ServersStart DEF Init
<1>2. ServerInv /\ [Next]_vars => ServerInv'
  BY ServersKept, ServersStand DEF Next, KeysStep, LoginStep, DocksStep, vars
<1>3. QED BY <1>1, <1>2, PTL DEF Spec

\* At most one control server runs, only while a start is under way or the driver
\* keeps it, and none once the attempt is cancelled or the driver gone, whichever
\* step failed, timed out or was dropped (opencode.rs:31-32).
THEOREM NoServerIsStray == Spec => []NoStrayServer
<1>1. ServerInv => NoStrayServer
  <2>1. SUFFICES ASSUME ServerInv, NEW n \in Login!Attempts, Login!Runs(n)
                 PROVE  /\ n \in {helper, live} /\ ~cancelled /\ ~gone
                        /\ \A m \in Login!Attempts : Login!Runs(m) => m = n
    BY DEF NoStrayServer, Login!NoStrayServer
  <2>2. \A m \in Login!Attempts : Login!Runs(m) => m # Login!Nobody /\ m \in {helper, live}
    BY <2>1 DEF ServerInv, ServerHeld, Login!Runs
  <2>3. cancelled \/ gone => helper = Login!Nobody /\ live = Login!Nobody
    BY <2>1 DEF ServerInv, ServerHeld, Starting
  <2>4. helper = Login!Nobody \/ live = Login!Nobody
    BY <2>1 DEF ServerInv, ServerHeld
  <2>5. QED BY <2>1, <2>2, <2>3, <2>4
<1>2. QED BY <1>1, ServersAreHeld, PTL

\* What the driver has been told is something its server did for this call: by
\* the time the list is asked for, the server of a start has stored the key.
AnswersAreReal ==
  /\ loginCall = "put" /\ answer = "2xx" => did = {"stored"}
  /\ loginCall = "list" => "stored" \in did /\ answer # "2xx"
  /\ loginCall \in {"list", "presence"} /\ answer = "listed" => "listed" \in did
  /\ Login!AuthenticatedIsReal

\* Nothing has been reported at the start.
LEMMA AnswersStart ==
  ASSUME Login!Init
  PROVE  AnswersAreReal
BY DEF Login!Init, AnswersAreReal, Login!AuthenticatedIsReal

\* Each step of KeyLogin; no answer meets another request, so what it says was done for it.
LEMMA AnswersKept ==
  ASSUME ServerInv, AnswersAreReal, Login!Next
  PROVE  AnswersAreReal'
<1> USE DEF ServerInv, ServerHeld, AnswersAreReal, Login!TypeOK, Login!AuthenticatedIsReal,
            Login!driver, Login!servers, Login!call, Login!Ready, Login!Return, Login!Ask,
            Login!StartEnds, Login!Answer, Login!Asked
<1>1. ASSUME Login!Start
      PROVE  AnswersAreReal'
  BY <1>1 DEF Login!Start
<1>2. ASSUME Login!Presence
      PROVE  AnswersAreReal'
  BY <1>2 DEF Login!Presence
<1>3. ASSUME Login!AfterCancel
      PROVE  AnswersAreReal'
  BY <1>3 DEF Login!AfterCancel
<1>4. ASSUME Login!Cancel
      PROVE  AnswersAreReal'
  BY <1>4 DEF Login!Cancel
<1>5. ASSUME Login!DropCall
      PROVE  AnswersAreReal'
  BY <1>5 DEF Login!DropCall
<1>6. ASSUME Login!DropDriver
      PROVE  AnswersAreReal'
  BY <1>6 DEF Login!DropDriver
<1>7. ASSUME Login!ReadyAgain
      PROVE  AnswersAreReal'
  BY <1>7 DEF Login!ReadyAgain
<1>8. ASSUME Login!HealthAnswered
      PROVE  AnswersAreReal'
  BY <1>8 DEF Login!HealthAnswered
<1>9. ASSUME Login!PutAnswered
      PROVE  AnswersAreReal'
  BY <1>9 DEF Login!PutAnswered
<1>10. ASSUME Login!Listed
       PROVE  AnswersAreReal'
  BY <1>10 DEF Login!Listed
<1>11. ASSUME Login!PresenceAnswered
       PROVE  AnswersAreReal'
  BY <1>11 DEF Login!PresenceAnswered
<1>12. ASSUME Login!RequestFails
       PROVE  AnswersAreReal'
  BY <1>12 DEF Login!RequestFails
<1>13. ASSUME Login!RequestTimesOut
       PROVE  AnswersAreReal'
  BY <1>13 DEF Login!RequestTimesOut
<1>14. ASSUME Login!ServerActs
       PROVE  AnswersAreReal'
  BY <1>14 DEF Login!ServerActs
<1>15. ASSUME Login!VendorChanges
       PROVE  AnswersAreReal'
  BY <1>15 DEF Login!VendorChanges
<1>16. ASSUME NEW n \in Login!Attempts, Login!ServerBoots(n) \/ Login!ServerExits(n)
       PROVE  AnswersAreReal'
  BY <1>16 DEF Login!ServerBoots, Login!ServerExits
<1>17. QED
  BY <1>1, <1>2, <1>3, <1>4, <1>5, <1>6, <1>7, <1>8, <1>9, <1>10, <1>11,
     <1>12, <1>13, <1>14, <1>15, <1>16
  DEF Login!Next

\* The other parts do not touch it.
LEMMA AnswersStand ==
  ASSUME AnswersAreReal, UNCHANGED loginVars
  PROVE  AnswersAreReal'
BY DEF AnswersAreReal, Login!AuthenticatedIsReal, loginVars

\* A login or a presence that the driver reports is a fact of the very call that
\* reports it: the server stored this call's key, and the vendor listed the
\* provider (opencode.rs:403-471).
THEOREM ReportedLoginIsReal == Spec => []AuthenticatedIsReal
<1>1. Init => AnswersAreReal
  BY AnswersStart DEF Init
<1>2. ServerInv /\ AnswersAreReal /\ [Next]_vars => AnswersAreReal'
  BY AnswersKept, AnswersStand DEF Next, KeysStep, LoginStep, DocksStep, vars
<1>3. AnswersAreReal => AuthenticatedIsReal
  BY DEF AnswersAreReal, AuthenticatedIsReal
<1>4. QED BY <1>1, <1>2, <1>3, ServersAreHeld, PTL DEF Spec

--------------------------------------------------------------------------------

\* Every part of an application keeps its type, for every instance of it.
THEOREM PartsTypeCorrect == Spec => []TypeOK
<1>1. KeysInv /\ ServerInv /\ DocksInv => TypeOK
  BY DocksTyped DEF KeysInv, ServerInv, TypeOK
<1>2. QED BY <1>1, KeysAreSound, ServersAreHeld, DocksHold, PTL
===============================================================================
