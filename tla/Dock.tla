--------------------------------- MODULE Dock ---------------------------------
(***************************************************************************)
(* The dock registry twice: DockManager of src/dock.rs, a vector of docks,  *)
(* and the manager of src/web/src/dock.ts, a map that keeps the order of    *)
(* insertion. An application that moves from one to the other makes the     *)
(* same calls, so every call is made on both. Each operator returns the     *)
(* manager after the call and what the caller is told. On two calls the     *)
(* managers part by their code, an empty focus token and a snapshot that    *)
(* was edited; a behaviour ends there.                                      *)
(***************************************************************************)
EXTENDS Sequences, SequencesExt

CONSTANTS
  Ids,           \* identifiers that are valid
  BadIds,        \* identifiers that are not
  Kinds, Placements,
  Tokens         \* focus tokens, none of them empty

NoToken    == "none"
EmptyToken == "empty"

VARIABLES
  rust,          \* [docks : a sequence of docks, token]
  web,           \* [ids : registration order, entry : by id, token]
  saved,         \* what each last serialized: the JSON's form and its docks
  told,          \* what each told the caller
  apart          \* a call was made that the two take differently

dockVars == <<rust, web, saved, told, apart>>

Outcome(m, answer) == [m |-> m, answer |-> answer]

-----------------------------------------------------------------------------
(* src/dock.rs *)

RustNew == [docks |-> <<>>, token |-> NoToken]

\* index_of: the places of an id; the first one is meant.
Places(m, id) == {i \in DOMAIN m.docks : m.docks[i].id = id}
IndexOf(m, id) == CHOOSE i \in Places(m, id) : \A j \in Places(m, id) : i <= j

RustRegister(m, id, kind, placement) ==
  CASE id \notin Ids -> Outcome(m, "invalid")
    [] id \in Ids /\ Places(m, id) # {} -> Outcome(m, "duplicate")
    [] OTHER ->
         Outcome([m EXCEPT !.docks = Append(@,
                    [id |-> id, kind |-> kind, placement |-> placement, open |-> FALSE])],
                 "ok")

Found(m, id) == m.docks[IndexOf(m, id)]

\* The operations that change one dock, which must be there.
RustPut(m, id, dock) ==
  IF Places(m, id) = {} THEN Outcome(m, "unknown")
  ELSE Outcome([m EXCEPT !.docks[IndexOf(m, id)] = dock], "ok")

\* Mutant: opening a dock without a token drops the one that is staged.
RustOpenForgets(m, id) ==
  RustPut([m EXCEPT !.token = NoToken], id, [Found(m, id) EXCEPT !.open = TRUE])

RustOpen(m, id) == RustPut(m, id, [Found(m, id) EXCEPT !.open = TRUE])

RustOpenWithFocus(m, id, token) ==
  LET opened == RustOpen(m, id)
  IN IF opened.answer = "ok" THEN [opened EXCEPT !.m.token = token] ELSE opened

RustClose(m, id) == RustPut(m, id, [Found(m, id) EXCEPT !.open = FALSE])

RustToggle(m, id) == RustPut(m, id, [Found(m, id) EXCEPT !.open = ~@])

RustSetPlacement(m, id, placement) ==
  RustPut(m, id, [Found(m, id) EXCEPT !.placement = placement])

RustTakeFocusToken(m) == Outcome([m EXCEPT !.token = NoToken], m.token)

RustCloseAll(m) ==
  Outcome([m EXCEPT !.docks = [i \in DOMAIN @ |-> [@[i] EXCEPT !.open = FALSE]]], "ok")

\* A filter keeps the order: the open docks, each at its place.
RustOpenDocks(m) == [i \in {i \in DOMAIN m.docks : m.docks[i].open} |-> m.docks[i]]

\* serde: an object whose one field is the docks; the token is skipped, and is
\* none after reading back. Ids are read as they are, repeated or not valid.
RustSerialize(m) == [form |-> "object", docks |-> m.docks]

RustRestore(m, s) ==
  IF s.form # "object" THEN Outcome(m, "invalid")
  ELSE Outcome([docks |-> s.docks, token |-> NoToken], "ok")

-----------------------------------------------------------------------------
(* src/web/src/dock.ts *)

WebNew == [ids |-> <<>>, entry |-> <<>>, token |-> NoToken]

Has(m, id) == id \in ToSet(m.ids)

\* Mutant: a dock that is registered again is added again.
WebRegisterAgain(m, id, kind, placement) ==
  IF id \notin Ids THEN Outcome(m, "invalid")
  ELSE Outcome([m EXCEPT
                  !.ids = Append(@, id),
                  !.entry = [i \in ToSet(m.ids) \cup {id} |->
                     IF i = id
                     THEN [kind |-> kind, placement |-> placement, open |-> FALSE]
                     ELSE @[i]]],
               "ok")

\* Map.set of an id that the map does not have
WebRegister(m, id, kind, placement) ==
  CASE id \notin Ids -> Outcome(m, "invalid")
    [] id \in Ids /\ Has(m, id) -> Outcome(m, "duplicate")
    [] OTHER ->
         Outcome([m EXCEPT
                    !.ids = Append(@, id),
                    !.entry = [i \in ToSet(m.ids) \cup {id} |->
                       IF i = id
                       THEN [kind |-> kind, placement |-> placement, open |-> FALSE]
                       ELSE @[i]]],
                 "ok")

\* entry, and what the operations do with it
WebPut(m, id, entry) ==
  IF ~Has(m, id) THEN Outcome(m, "unknown")
  ELSE Outcome([m EXCEPT !.entry[id] = entry], "ok")

WebOpen(m, id) == WebPut(m, id, [m.entry[id] EXCEPT !.open = TRUE])

\* The token is looked at before the id.
WebOpenWithFocus(m, id, token) ==
  LET opened == WebOpen(m, id)
  IN IF token = EmptyToken THEN Outcome(m, "invalid")
     ELSE IF opened.answer = "ok" THEN [opened EXCEPT !.m.token = token] ELSE opened

WebClose(m, id) == WebPut(m, id, [m.entry[id] EXCEPT !.open = FALSE])

\* Here the caller is told the new state.
WebToggle(m, id) ==
  LET toggled == WebPut(m, id, [m.entry[id] EXCEPT !.open = ~@])
  IN IF toggled.answer # "ok" THEN toggled
     ELSE Outcome(toggled.m, IF toggled.m.entry[id].open THEN "open" ELSE "closed")

WebSetPlacement(m, id, placement) ==
  WebPut(m, id, [m.entry[id] EXCEPT !.placement = placement])

WebTakeFocusToken(m) == Outcome([m EXCEPT !.token = NoToken], m.token)

WebCloseAll(m) ==
  Outcome([m EXCEPT !.entry = [i \in DOMAIN @ |-> [@[i] EXCEPT !.open = FALSE]]], "ok")

WebOpenDocks(m) == [i \in {i \in DOMAIN m.ids : m.entry[m.ids[i]].open} |-> m.ids[i]]

\* An array of the docks.
Listed(m) ==
  [i \in DOMAIN m.ids |->
     [id |-> m.ids[i], kind |-> m.entry[m.ids[i]].kind,
      placement |-> m.entry[m.ids[i]].placement, open |-> m.entry[m.ids[i]].open]]

WebSerialize(m) == [form |-> "array", docks |-> Listed(m)]

\* Every entry is checked first; a snapshot with a flaw changes nothing.
WebSound(docks) ==
  /\ \A i \in DOMAIN docks : docks[i].id \in Ids
  /\ \A i, j \in DOMAIN docks : docks[i].id = docks[j].id => i = j

WebRestore(m, s) ==
  IF s.form # "array" \/ ~WebSound(s.docks) THEN Outcome(m, "invalid")
  ELSE LET docks == s.docks
           ids == [i \in DOMAIN docks |-> docks[i].id]
           At(id) == docks[CHOOSE i \in DOMAIN docks : docks[i].id = id]
       IN Outcome([ids |-> ids,
                   entry |-> [id \in ToSet(ids) |->
                     [kind |-> At(id).kind, placement |-> At(id).placement,
                      open |-> At(id).open]],
                   token |-> NoToken], "ok")

-----------------------------------------------------------------------------

Init ==
  /\ rust = RustNew /\ web = WebNew
  /\ saved = [rust |-> RustSerialize(RustNew), web |-> WebSerialize(WebNew)]
  /\ told = [rust |-> "ok", web |-> "ok"]
  /\ apart = FALSE

Make(r, w) ==
  /\ rust' = r.m /\ web' = w.m
  /\ told' = [rust |-> r.answer, web |-> w.answer]
  /\ UNCHANGED saved

Both(r, w) == Make(r, w) /\ UNCHANGED apart

Register(id, k, p)  == Both(RustRegister(rust, id, k, p), WebRegister(web, id, k, p))
Open(id)            == Both(RustOpen(rust, id), WebOpen(web, id))
OpenWithFocus(id, t) ==
  Both(RustOpenWithFocus(rust, id, t), WebOpenWithFocus(web, id, t))
Close(id)           == Both(RustClose(rust, id), WebClose(web, id))
Toggle(id)          == Both(RustToggle(rust, id), WebToggle(web, id))
SetPlacement(id, p) == Both(RustSetPlacement(rust, id, p), WebSetPlacement(web, id, p))
TakeFocusToken      == Both(RustTakeFocusToken(rust), WebTakeFocusToken(web))
CloseAll            == Both(RustCloseAll(rust), WebCloseAll(web))
Restore             == Both(RustRestore(rust, saved.rust), WebRestore(web, saved.web))

\* Each is given what the other saved, whose form it does not read.
RestoreOther        == Both(RustRestore(rust, saved.web), WebRestore(web, saved.rust))

Save ==
  /\ saved' = [rust |-> RustSerialize(rust), web |-> WebSerialize(web)]
  /\ UNCHANGED <<rust, web, told, apart>>

\* Rust stages an empty token, the browser refuses it.
OpenWithEmptyToken(id) ==
  /\ Make(RustOpenWithFocus(rust, id, EmptyToken), WebOpenWithFocus(web, id, EmptyToken))
  /\ apart' = (Places(rust, id) # {})

\* A snapshot to which a dock was added that is there already, or whose id is not
\* valid: Rust reads it, the browser refuses it.
RestoreEdited(d) ==
  /\ d.id \notin Ids \/ \E i \in DOMAIN saved.rust.docks : saved.rust.docks[i].id = d.id
  /\ Make(RustRestore(rust, [saved.rust EXCEPT !.docks = Append(@, d)]),
          WebRestore(web, [saved.web EXCEPT !.docks = Append(@, d)]))
  /\ apart' = TRUE

Docks == [id : Ids \cup BadIds, kind : Kinds, placement : Placements, open : BOOLEAN]

Call ==
  \/ \E id \in Ids \cup BadIds :
       \/ \E k \in Kinds, p \in Placements : Register(id, k, p)
       \/ Open(id) \/ Close(id) \/ Toggle(id)
       \/ \E t \in Tokens : OpenWithFocus(id, t)
       \/ \E p \in Placements : SetPlacement(id, p)
       \/ OpenWithEmptyToken(id)
  \/ TakeFocusToken \/ CloseAll \/ Save \/ Restore \/ RestoreOther
  \/ \E d \in Docks : RestoreEdited(d)

Next == ~apart /\ Call

Spec == Init /\ [][Next]_dockVars

-----------------------------------------------------------------------------

TypeOK ==
  /\ \A i \in DOMAIN rust.docks : rust.docks[i] \in Docks
  /\ \A i \in DOMAIN web.ids : web.ids[i] \in Ids
  /\ DOMAIN web.entry = ToSet(web.ids)
  /\ \A i, j \in DOMAIN web.ids : web.ids[i] = web.ids[j] => i = j
  /\ rust.token \in Tokens \cup {NoToken, EmptyToken}
  /\ web.token \in Tokens \cup {NoToken}

\* The caller is told the same, but for two differences of wording: a toggle in
\* the browser tells the new state, and the browser looks at a token first.
ToldAlike ==
  \/ told.rust = told.web
  \/ told.rust = "ok" /\ told.web \in {"open", "closed"}
  \/ told.rust = "unknown" /\ told.web = "invalid"

\* The browser's manager "mirrors the dock vocabulary" (dock.ts:1) of Rust's: until
\* a call on which the two part, and whatever the order of the calls, the two hold
\* the same docks in the same order, open and placed alike, have the same token
\* staged, have the same docks in what they saved, and both do or both refuse what
\* is asked, restores from one's own and from the other's snapshots included.
DocksAgree ==
  ~apart =>
    /\ rust.docks = Listed(web)
    /\ rust.token = web.token
    /\ saved.rust.docks = saved.web.docks
    /\ ToldAlike
    /\ [i \in DOMAIN RustOpenDocks(rust) |-> RustOpenDocks(rust)[i].id] = WebOpenDocks(web)
=============================================================================
