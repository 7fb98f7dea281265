------------------------------ MODULE DockProofs ------------------------------
(***************************************************************************)
(* The dock registries of Rust and of the browser agree after any calls,   *)
(* proved for every set of ids, kinds, placements and tokens: Agree relates *)
(* the two managers, and a lemma for each operation shows that it answers  *)
(* alike on both and leaves them related. The two calls on which the code  *)
(* of the managers differs end the agreement, and only they do.            *)
(***************************************************************************)
EXTENDS Application, Sequences, TLAPS

DockToken == Tokens \cup {Docks!NoToken}
Entries   == [kind : Kinds, placement : Placements, open : BOOLEAN]

\* The two managers hold the same, and no id twice.
Agree(r, w) ==
  /\ r \in [docks : Seq(Docks!Docks), token : DockToken]
  /\ w.ids \in Seq(Ids)
  /\ w.entry \in [Docks!ToSet(w.ids) -> Entries]
  /\ w = [ids |-> w.ids, entry |-> w.entry, token |-> r.token]
  /\ \A i, j \in DOMAIN w.ids : w.ids[i] = w.ids[j] => i = j
  /\ r.docks = Docks!Listed(w)

\* Two answers that mean the same (ToldAlike).
Alike(a, b) ==
  \/ a = b
  \/ a = "ok" /\ b \in {"open", "closed"}
  \/ a = "unknown" /\ b = "invalid"

\* What the browser saves has a dock at the place of each id.
LEMMA SavedPlaces ==
  ASSUME NEW w
  PROVE  /\ DOMAIN Docks!Listed(w) = DOMAIN w.ids
         /\ \A i \in DOMAIN w.ids :
              /\ Docks!Listed(w)[i].id = w.ids[i]
              /\ Docks!Listed(w)[i].open = w.entry[w.ids[i]].open
BY DEF Docks!Listed

\* The one place of an id that is registered.
LEMMA PlaceOf ==
  ASSUME NEW r, NEW w, Agree(r, w), NEW id
  PROVE  /\ Docks!Has(w, id) <=> Docks!Places(r, id) # {}
         /\ Docks!Has(w, id) =>
              /\ id \in Ids
              /\ Docks!IndexOf(r, id) \in DOMAIN w.ids
              /\ w.ids[Docks!IndexOf(r, id)] = id
              /\ Docks!Found(r, id) = [id |-> id, kind |-> w.entry[id].kind,
                                       placement |-> w.entry[id].placement,
                                       open |-> w.entry[id].open]
<1>1. DOMAIN r.docks = DOMAIN w.ids
  BY DEF Agree, Docks!Listed
<1>2. \A i \in DOMAIN w.ids :
        r.docks[i] = [id |-> w.ids[i], kind |-> w.entry[w.ids[i]].kind,
                      placement |-> w.entry[w.ids[i]].placement,
                      open |-> w.entry[w.ids[i]].open]
  BY DEF Agree, Docks!Listed
<1>3. Docks!Places(r, id) = {i \in DOMAIN w.ids : w.ids[i] = id}
  <2>1. ASSUME NEW i \in DOMAIN w.ids
        PROVE  r.docks[i].id = w.ids[i]
    <3>1. r.docks[i] = [id |-> w.ids[i], kind |-> w.entry[w.ids[i]].kind,
                        placement |-> w.entry[w.ids[i]].placement,
                        open |-> w.entry[w.ids[i]].open]
      BY <1>2
    <3>2. QED BY <3>1
  <2>2. QED BY <1>1, <2>1, Zenon DEF Docks!Places
<1>4. Docks!Has(w, id) <=> Docks!Places(r, id) # {}
  BY <1>3 DEF Docks!Has, Docks!ToSet
<1>5. ASSUME Docks!Has(w, id)
      PROVE  /\ Docks!IndexOf(r, id) \in DOMAIN w.ids
             /\ w.ids[Docks!IndexOf(r, id)] = id
  <2>1. PICK k \in DOMAIN w.ids : w.ids[k] = id
    BY <1>5 DEF Docks!Has, Docks!ToSet
  <2>2. Docks!Places(r, id) = {k}
    BY <1>3, <2>1 DEF Agree
  <2>3. k \in Nat
    BY <2>1 DEF Agree
  <2>4. Docks!IndexOf(r, id) = k
    BY <2>2, <2>3 DEF Docks!IndexOf
  <2>5. QED BY <2>1, <2>4
<1>6. Docks!Has(w, id) => id \in Ids
  BY DEF Agree, Docks!Has, Docks!ToSet
<1>7. QED BY <1>1, <1>2, <1>4, <1>5, <1>6 DEF Docks!Found

\* The two managers hold the same once each changed the same dock.
LEMMA PutAgrees ==
  ASSUME NEW r, NEW w, Agree(r, w), NEW id, NEW d, NEW e,
         Docks!Has(w, id) =>
           /\ e \in Entries
           /\ d = [id |-> id, kind |-> e.kind, placement |-> e.placement, open |-> e.open]
  PROVE  /\ Docks!RustPut(r, id, d).answer = Docks!WebPut(w, id, e).answer
         /\ Docks!WebPut(w, id, e).answer = "ok" <=> Docks!Has(w, id)
         /\ Agree(Docks!RustPut(r, id, d).m, Docks!WebPut(w, id, e).m)
<1>1. CASE ~Docks!Has(w, id)
  BY <1>1, PlaceOf DEF Docks!RustPut, Docks!WebPut, Docks!Outcome
<1>2. CASE Docks!Has(w, id)
  <2> DEFINE k  == Docks!IndexOf(r, id)
             r2 == [r EXCEPT !.docks[k] = d]
             w2 == [w EXCEPT !.entry[id] = e]
  <2>1. /\ Docks!RustPut(r, id, d) = [m |-> r2, answer |-> "ok"]
        /\ Docks!WebPut(w, id, e) = [m |-> w2, answer |-> "ok"]
    BY <1>2, PlaceOf DEF Docks!RustPut, Docks!WebPut, Docks!Outcome
  <2>2. id \in Ids /\ k \in DOMAIN w.ids /\ w.ids[k] = id
    BY <1>2, PlaceOf
  <2>3. /\ w.ids \in Seq(Ids) /\ w.entry \in [Docks!ToSet(w.ids) -> Entries]
        /\ r \in [docks : Seq(Docks!Docks), token : DockToken]
        /\ w = [ids |-> w.ids, entry |-> w.entry, token |-> r.token]
        /\ \A i, j \in DOMAIN w.ids : w.ids[i] = w.ids[j] => i = j
        /\ r.docks = Docks!Listed(w)
    BY DEF Agree
  <2>4. /\ r2 = [docks |-> [r.docks EXCEPT ![k] = d], token |-> r.token]
        /\ w2 = [ids |-> w.ids, entry |-> [w.entry EXCEPT ![id] = e], token |-> r.token]
    <3>1. r = [docks |-> r.docks, token |-> r.token]
      BY <2>3
    <3>2. r2 = [docks |-> [r.docks EXCEPT ![k] = d], token |-> r.token]
      BY <3>1
    <3>3. w2 = [ids |-> w.ids, entry |-> [w.entry EXCEPT ![id] = e], token |-> r.token]
      BY SMTT(30), <2>3
    <3>4. QED BY <3>2, <3>3
  <2>5. id \in Docks!ToSet(w.ids) /\ DOMAIN r.docks = DOMAIN w.ids
    BY <1>2, <2>3 DEF Docks!Has, Docks!Listed
  <2>6. [w.entry EXCEPT ![id] = e] \in [Docks!ToSet(w.ids) -> Entries]
    BY <1>2, <2>3
  <2>7. d \in Docks!Docks
    BY <1>2, <2>2 DEF Docks!Docks, Entries
  <2>8. [r.docks EXCEPT ![k] = d] \in Seq(Docks!Docks)
    BY <2>2, <2>3, <2>5, <2>7
  <2>9. [r.docks EXCEPT ![k] = d] = Docks!Listed(w2)
    <3>1. DOMAIN Docks!Listed(w2) = DOMAIN r.docks
      BY <2>4, <2>5 DEF Docks!Listed
    <3>2. ASSUME NEW i \in DOMAIN r.docks
          PROVE  [r.docks EXCEPT ![k] = d][i] = Docks!Listed(w2)[i]
      <4>1. CASE i = k
        BY <1>2, <2>2, <2>3, <2>4, <2>5, <4>1 DEF Docks!Listed
      <4>2. CASE i # k
        <5>1. w.ids[i] # id
          BY <2>2, <2>3, <2>5, <4>2
        <5>2. w.ids[i] \in Docks!ToSet(w.ids)
          BY <2>5 DEF Docks!ToSet
        <5>3. w2.entry[w.ids[i]] = w.entry[w.ids[i]]
          BY <2>3, <2>4, <5>1, <5>2
        <5>4. r.docks[i] = Docks!Listed(w2)[i]
          <6>1. r.docks[i] = [id |-> w.ids[i], kind |-> w.entry[w.ids[i]].kind,
                              placement |-> w.entry[w.ids[i]].placement,
                              open |-> w.entry[w.ids[i]].open]
            BY <2>3, <2>5 DEF Docks!Listed
          <6>2. Docks!Listed(w2)[i] =
                  [id |-> w.ids[i], kind |-> w2.entry[w.ids[i]].kind,
                   placement |-> w2.entry[w.ids[i]].placement,
                   open |-> w2.entry[w.ids[i]].open]
            BY <2>4, <2>5 DEF Docks!Listed
          <6>3. QED BY <5>3, <6>1, <6>2
        <5>5. QED BY <4>2, <5>4
      <4>3. QED BY <4>1, <4>2
    <3>3. /\ [r.docks EXCEPT ![k] = d] = [i \in DOMAIN r.docks |-> [r.docks EXCEPT ![k] = d][i]]
          /\ Docks!Listed(w2) = [i \in DOMAIN r.docks |-> Docks!Listed(w2)[i]]
      BY <3>1 DEF Docks!Listed
    <3>4. QED BY <3>2, <3>3, Zenon
  <2>10. Agree(r2, w2)
    BY <2>3, <2>4, <2>6, <2>8, <2>9 DEF Agree
  <2>11. QED BY <1>2, <2>1, <2>10
<1>3. QED BY <1>1, <1>2

\* Staging a token, on both.
LEMMA TokenAgrees ==
  ASSUME NEW r, NEW w, Agree(r, w), NEW t \in DockToken
  PROVE  /\ r.token = w.token
         /\ Agree([r EXCEPT !.token = t], [w EXCEPT !.token = t])
<1>1. r = [docks |-> r.docks, token |-> r.token]
  BY DEF Agree
<1>2. w = [ids |-> w.ids, entry |-> w.entry, token |-> r.token]
  BY DEF Agree
<1>3. /\ [r EXCEPT !.token = t] = [docks |-> r.docks, token |-> t]
      /\ [w EXCEPT !.token = t] = [ids |-> w.ids, entry |-> w.entry, token |-> t]
  BY <1>1, <1>2
<1>4. Docks!Listed([ids |-> w.ids, entry |-> w.entry, token |-> t])
        = Docks!Listed(w)
  BY DEF Docks!Listed
<1>5. w.token = r.token
  BY <1>2
<1>6. r.docks \in Seq(Docks!Docks)
  BY DEF Agree
<1>7. Agree([docks |-> r.docks, token |-> t], [ids |-> w.ids, entry |-> w.entry, token |-> t])
  BY <1>4, <1>6 DEF Agree
<1>8. QED BY <1>3, <1>5, <1>7

\* A dock that is opened, closed or toggled is the same dock in both.
LEMMA SwitchAgrees ==
  ASSUME NEW r, NEW w, Agree(r, w), NEW id
  PROVE  /\ Docks!RustOpen(r, id).answer = Docks!WebOpen(w, id).answer
         /\ Agree(Docks!RustOpen(r, id).m, Docks!WebOpen(w, id).m)
         /\ Docks!RustClose(r, id).answer = Docks!WebClose(w, id).answer
         /\ Agree(Docks!RustClose(r, id).m, Docks!WebClose(w, id).m)
         /\ Alike(Docks!RustToggle(r, id).answer, Docks!WebToggle(w, id).answer)
         /\ Agree(Docks!RustToggle(r, id).m, Docks!WebToggle(w, id).m)
<1> DEFINE e == w.entry[id]
           Shown(o) == [Docks!Found(r, id) EXCEPT !.open = o]
           Kept(o)  == [w.entry[id] EXCEPT !.open = o]
<1>1. Docks!Has(w, id) =>
        /\ id \in Ids /\ e \in Entries
        /\ Docks!Found(r, id) =
             [id |-> id, kind |-> e.kind, placement |-> e.placement, open |-> e.open]
  BY SMTT(30), PlaceOf DEF Agree, Docks!Has
<1>2. ASSUME NEW o \in BOOLEAN, Docks!Has(w, id)
      PROVE  /\ Kept(o) \in Entries
             /\ Shown(o) = [id |-> id, kind |-> Kept(o).kind,
                            placement |-> Kept(o).placement, open |-> Kept(o).open]
  BY <1>1, <1>2 DEF Entries
<1>3. /\ Docks!RustOpen(r, id) = Docks!RustPut(r, id, Shown(TRUE))
      /\ Docks!WebOpen(w, id) = Docks!WebPut(w, id, Kept(TRUE))
      /\ Docks!RustClose(r, id) = Docks!RustPut(r, id, Shown(FALSE))
      /\ Docks!WebClose(w, id) = Docks!WebPut(w, id, Kept(FALSE))
  BY DEF Docks!RustOpen, Docks!WebOpen, Docks!RustClose, Docks!WebClose
<1>4. Docks!RustToggle(r, id) = Docks!RustPut(r, id, Shown(~Docks!Found(r, id).open))
  BY DEF Docks!RustToggle
<1>5. Docks!Has(w, id) => Docks!Found(r, id).open = w.entry[id].open
  BY <1>1
<1>6. Docks!Has(w, id) => (~w.entry[id].open) \in BOOLEAN
  OBVIOUS
<1> DEFINE put == Docks!WebPut(w, id, Kept(~w.entry[id].open))
<1>7. Docks!WebToggle(w, id) =
        IF put.answer # "ok" THEN put
        ELSE Docks!Outcome(put.m, IF put.m.entry[id].open THEN "open" ELSE "closed")
  BY DEF Docks!WebToggle
<1> HIDE DEF Shown, Kept, put
<1>8. ASSUME NEW o \in BOOLEAN
      PROVE  /\ Docks!RustPut(r, id, Shown(o)).answer = Docks!WebPut(w, id, Kept(o)).answer
             /\ Agree(Docks!RustPut(r, id, Shown(o)).m, Docks!WebPut(w, id, Kept(o)).m)
  BY <1>2, PutAgrees
<1>9. /\ Docks!RustToggle(r, id).answer = put.answer
      /\ Agree(Docks!RustToggle(r, id).m, put.m)
  <2>1. CASE Docks!Has(w, id)
    BY <1>4, <1>5, <1>6, <1>8, <2>1 DEF put
  <2>2. CASE ~Docks!Has(w, id)
    BY <1>4, <2>2, PutAgrees DEF put
  <2>3. QED BY <2>1, <2>2
<1>10. /\ Docks!WebToggle(w, id).m = put.m
       /\ Alike(put.answer, Docks!WebToggle(w, id).answer)
  BY <1>7 DEF Docks!Outcome, Alike
<1>11. QED BY <1>3, <1>8, <1>9, <1>10

\* A dock that is placed elsewhere is placed alike.
LEMMA PlacementAgrees ==
  ASSUME NEW r, NEW w, Agree(r, w), NEW id, NEW p \in Placements
  PROVE  /\ Docks!RustSetPlacement(r, id, p).answer = Docks!WebSetPlacement(w, id, p).answer
         /\ Agree(Docks!RustSetPlacement(r, id, p).m, Docks!WebSetPlacement(w, id, p).m)
<1> DEFINE e == w.entry[id]
           Shown == [Docks!Found(r, id) EXCEPT !.placement = p]
           Kept  == [w.entry[id] EXCEPT !.placement = p]
<1>1. Docks!Has(w, id) =>
        /\ id \in Ids /\ e \in Entries
        /\ Docks!Found(r, id) =
             [id |-> id, kind |-> e.kind, placement |-> e.placement, open |-> e.open]
  BY SMTT(30), PlaceOf DEF Agree, Docks!Has
<1>2. ASSUME Docks!Has(w, id)
      PROVE  /\ Kept \in Entries
             /\ Shown = [id |-> id, kind |-> Kept.kind,
                         placement |-> Kept.placement, open |-> Kept.open]
  BY <1>1, <1>2 DEF Entries
<1>3. /\ Docks!RustSetPlacement(r, id, p) = Docks!RustPut(r, id, Shown)
      /\ Docks!WebSetPlacement(w, id, p) = Docks!WebPut(w, id, Kept)
  BY DEF Docks!RustSetPlacement, Docks!WebSetPlacement
<1> HIDE DEF Shown, Kept
<1>4. QED BY <1>2, <1>3, PutAgrees

\* A token that is staged with a dock is staged with both, or with neither.
LEMMA FocusAgrees ==
  ASSUME NEW r, NEW w, Agree(r, w), NEW id, NEW t \in DockToken, t # Docks!EmptyToken
  PROVE  /\ Docks!RustOpenWithFocus(r, id, t).answer = Docks!WebOpenWithFocus(w, id, t).answer
         /\ Agree(Docks!RustOpenWithFocus(r, id, t).m, Docks!WebOpenWithFocus(w, id, t).m)
<1> DEFINE ro == Docks!RustOpen(r, id)
           wo == Docks!WebOpen(w, id)
<1>1. ro.answer = wo.answer /\ Agree(ro.m, wo.m)
  BY SwitchAgrees
<1>2. ro = [m |-> ro.m, answer |-> ro.answer] /\ wo = [m |-> wo.m, answer |-> wo.answer]
  BY DEF Docks!RustOpen, Docks!WebOpen, Docks!RustPut, Docks!WebPut, Docks!Outcome
<1>3. Docks!RustOpenWithFocus(r, id, t) =
        IF ro.answer = "ok" THEN [ro EXCEPT !.m.token = t] ELSE ro
  BY DEF Docks!RustOpenWithFocus
<1>4. Docks!WebOpenWithFocus(w, id, t) =
        IF wo.answer = "ok" THEN [wo EXCEPT !.m.token = t] ELSE wo
  BY DEF Docks!WebOpenWithFocus
<1> HIDE DEF ro, wo
<1>5. /\ [ro EXCEPT !.m.token = t] = [m |-> [ro.m EXCEPT !.token = t], answer |-> ro.answer]
      /\ [wo EXCEPT !.m.token = t] = [m |-> [wo.m EXCEPT !.token = t], answer |-> wo.answer]
  BY <1>2
<1>6. CASE ro.answer = "ok"
  BY <1>1, <1>3, <1>4, <1>5, <1>6, TokenAgrees
<1>7. CASE ro.answer # "ok"
  BY <1>1, <1>3, <1>4, <1>7
<1>8. QED BY <1>6, <1>7

\* A new dock goes to the end of both; one that is there, or is no valid id, to neither.
LEMMA RegisterAgrees ==
  ASSUME NEW r, NEW w, Agree(r, w), NEW id, NEW k \in Kinds, NEW p \in Placements
  PROVE  /\ Docks!RustRegister(r, id, k, p).answer = Docks!WebRegister(w, id, k, p).answer
         /\ Agree(Docks!RustRegister(r, id, k, p).m, Docks!WebRegister(w, id, k, p).m)
<1>1. CASE id \notin Ids
  BY <1>1 DEF Docks!RustRegister, Docks!WebRegister, Docks!Outcome
<1>2. CASE id \in Ids /\ Docks!Has(w, id)
  <2>1. Docks!Places(r, id) # {}
    BY <1>2, PlaceOf
  <2>2. QED BY <1>2, <2>1 DEF Docks!RustRegister, Docks!WebRegister, Docks!Outcome
<1>3. CASE id \in Ids /\ ~Docks!Has(w, id)
  <2> DEFINE dock  == [id |-> id, kind |-> k, placement |-> p, open |-> FALSE]
             new   == [kind |-> k, placement |-> p, open |-> FALSE]
             ids   == Append(w.ids, id)
             entry == [i \in Docks!ToSet(w.ids) \cup {id} |->
                         IF i = id THEN new ELSE w.entry[i]]
             r2    == [r EXCEPT !.docks = Append(@, dock)]
             w2    == [w EXCEPT !.ids = Append(@, id),
                                !.entry = [i \in Docks!ToSet(w.ids) \cup {id} |->
                                             IF i = id THEN new ELSE @[i]]]
  <2>1. Docks!Places(r, id) = {}
    BY <1>3, PlaceOf
  <2>2. Docks!RustRegister(r, id, k, p) = [m |-> r2, answer |-> "ok"]
    BY <1>3, <2>1 DEF Docks!RustRegister, Docks!Outcome
  <2>3. Docks!WebRegister(w, id, k, p) = [m |-> w2, answer |-> "ok"]
    BY <1>3 DEF Docks!WebRegister, Docks!Outcome
  <2>4. r = [docks |-> r.docks, token |-> r.token] /\ r.docks \in Seq(Docks!Docks)
        /\ r.token \in DockToken
    BY DEF Agree
  <2>5. /\ w.ids \in Seq(Ids) /\ w.entry \in [Docks!ToSet(w.ids) -> Entries]
        /\ w = [ids |-> w.ids, entry |-> w.entry, token |-> r.token]
        /\ \A i, j \in DOMAIN w.ids : w.ids[i] = w.ids[j] => i = j
        /\ r.docks = Docks!Listed(w)
    BY DEF Agree
  <2>6. r2 = [docks |-> Append(r.docks, dock), token |-> r.token]
    BY SMTT(30), <2>4
  <2>7. w2 = [ids |-> ids, entry |-> entry, token |-> r.token]
    <3>1. DOMAIN w = {"ids", "entry", "token"} /\ w.token = r.token
      BY <2>5
    <3>2. w2 = [x \in DOMAIN w |-> CASE x = "ids" -> ids [] x = "entry" -> entry
                                      [] OTHER -> w[x]]
      BY <3>1
    <3> HIDE DEF ids, entry, w2
    <3>3. \A x \in DOMAIN w :
            w2[x] = [ids |-> ids, entry |-> entry, token |-> r.token][x]
      BY <3>1, <3>2
    <3>4. DOMAIN w2 = DOMAIN w /\ w2 = [x \in DOMAIN w |-> w2[x]]
      BY <3>2
    <3>5. QED BY <3>1, <3>3, <3>4
  <2>8. dock \in Docks!Docks /\ new \in Entries
    BY <1>3 DEF Docks!Docks, Entries
  <2>9. id \notin Docks!ToSet(w.ids)
    BY <1>3 DEF Docks!Has
  <2>10. /\ ids \in Seq(Ids) /\ Len(ids) = Len(w.ids) + 1
         /\ \A i \in 1..Len(w.ids) : ids[i] = w.ids[i]
         /\ ids[Len(w.ids) + 1] = id
    BY <1>3, <2>5
  <2>11. Docks!ToSet(ids) = Docks!ToSet(w.ids) \cup {id}
    BY <2>5, <2>10 DEF Docks!ToSet
  <2>12. entry \in [Docks!ToSet(ids) -> Entries]
    BY <2>5, <2>8, <2>9, <2>11
  <2>13. \A i \in 1..Len(w.ids) : w.ids[i] \in Docks!ToSet(w.ids)
    BY <2>5 DEF Docks!ToSet
  <2>14. \A i, j \in DOMAIN ids : ids[i] = ids[j] => i = j
    BY <2>5, <2>9, <2>10, <2>13
  <2>15. Len(r.docks) = Len(w.ids) /\ DOMAIN r.docks = 1..Len(w.ids)
    <3>1. DOMAIN r.docks = DOMAIN w.ids
      BY <2>5, SavedPlaces
    <3>2. DOMAIN w.ids = 1..Len(w.ids) /\ Len(w.ids) \in Nat
      BY <2>5
    <3>3. DOMAIN r.docks = 1..Len(r.docks) /\ Len(r.docks) \in Nat
      BY <2>4
    <3>4. QED BY <3>1, <3>2, <3>3
  <2>16. \A i \in 1..Len(w.ids) :
           /\ ids[i] # id
           /\ entry[ids[i]] = w.entry[w.ids[i]]
    BY <2>9, <2>10, <2>13
  <2>17. entry[id] = new /\ DOMAIN ids = 1..Len(w.ids) + 1
    BY <2>5, <2>10
  <2>18. Append(r.docks, dock) \in Seq(Docks!Docks)
    BY <2>4, <2>8
  <2> HIDE DEF ids, entry
  <2>19. Append(r.docks, dock) =
           Docks!Listed([ids |-> ids, entry |-> entry, token |-> r.token])
    <3> DEFINE Row(i) == [id |-> ids[i], kind |-> entry[ids[i]].kind,
                          placement |-> entry[ids[i]].placement,
                          open |-> entry[ids[i]].open]
    <3>1. Docks!Listed([ids |-> ids, entry |-> entry, token |-> r.token]) =
            [i \in DOMAIN ids |-> Row(i)]
      BY DEF Docks!Listed
    <3>2. ASSUME NEW i \in 1..Len(w.ids)
          PROVE  r.docks[i] = Row(i)
      <4>1. r.docks[i] = [id |-> w.ids[i], kind |-> w.entry[w.ids[i]].kind,
                          placement |-> w.entry[w.ids[i]].placement,
                          open |-> w.entry[w.ids[i]].open]
        BY <2>5 DEF Docks!Listed
      <4>2. QED BY <2>10, <2>16, <4>1
    <3>3. Row(Len(w.ids) + 1) = dock
      BY <2>10, <2>17
    <3> HIDE DEF Row, dock
    <3>4. Append(r.docks, dock) = [i \in 1..Len(w.ids) + 1 |->
                                     IF i = Len(w.ids) + 1 THEN dock ELSE r.docks[i]]
      BY <2>4, <2>15
    <3>5. \A i \in 1..Len(w.ids) + 1 :
             Row(i) = IF i = Len(w.ids) + 1 THEN dock ELSE r.docks[i]
      BY <2>5, <3>2, <3>3
    <3>6. [i \in 1..Len(w.ids) + 1 |-> Row(i)] =
            [i \in 1..Len(w.ids) + 1 |-> IF i = Len(w.ids) + 1 THEN dock ELSE r.docks[i]]
      BY <3>5
    <3>7. QED BY <2>17, <3>1, <3>4, <3>6
  <2> HIDE DEF dock
  <2>20. Agree([docks |-> Append(r.docks, dock), token |-> r.token],
               [ids |-> ids, entry |-> entry, token |-> r.token])
    BY <2>4, <2>10, <2>12, <2>14, <2>18, <2>19 DEF Agree
  <2>21. QED BY <2>2, <2>3, <2>6, <2>7, <2>20
<1>4. QED BY <1>1, <1>2, <1>3

\* All docks closed.
LEMMA CloseAllAgrees ==
  ASSUME NEW r, NEW w, Agree(r, w)
  PROVE  /\ Docks!RustCloseAll(r).answer = Docks!WebCloseAll(w).answer
         /\ Agree(Docks!RustCloseAll(r).m, Docks!WebCloseAll(w).m)
<1> DEFINE docks == [i \in DOMAIN r.docks |-> [r.docks[i] EXCEPT !.open = FALSE]]
           entry == [i \in DOMAIN w.entry |-> [w.entry[i] EXCEPT !.open = FALSE]]
<1>1. /\ w.ids \in Seq(Ids) /\ w.entry \in [Docks!ToSet(w.ids) -> Entries]
      /\ r.docks \in Seq(Docks!Docks) /\ r.docks = Docks!Listed(w)
      /\ DOMAIN r.docks = 1..Len(r.docks) /\ Len(r.docks) \in Nat
      /\ r = [docks |-> r.docks, token |-> r.token]
      /\ w = [ids |-> w.ids, entry |-> w.entry, token |-> r.token]
  BY DEF Agree
<1>2. Docks!RustCloseAll(r).m = [docks |-> docks, token |-> r.token]
  BY <1>1 DEF Docks!RustCloseAll, Docks!Outcome
<1>3. Docks!WebCloseAll(w).m = [ids |-> w.ids, entry |-> entry, token |-> r.token]
  <2>1. Docks!WebCloseAll(w).m = [w EXCEPT !.entry = entry]
    BY DEF Docks!WebCloseAll, Docks!Outcome
  <2> HIDE DEF entry
  <2>2. QED BY <1>1, <2>1
<1>4. Docks!RustCloseAll(r).answer = Docks!WebCloseAll(w).answer
  BY DEF Docks!RustCloseAll, Docks!WebCloseAll, Docks!Outcome
<1>5. ASSUME NEW i \in DOMAIN r.docks
      PROVE  docks[i] \in Docks!Docks
  <2>1. r.docks[i] \in Docks!Docks /\ docks[i] = [r.docks[i] EXCEPT !.open = FALSE]
    BY <1>1
  <2>2. QED BY <2>1 DEF Docks!Docks
<1>6. docks \in Seq(Docks!Docks)
  BY <1>1, <1>5
<1>7. entry \in [Docks!ToSet(w.ids) -> Entries]
  BY <1>1 DEF Entries
<1>8. docks = Docks!Listed([ids |-> w.ids, entry |-> entry, token |-> r.token])
  <2> DEFINE Row(i) == [id |-> w.ids[i], kind |-> entry[w.ids[i]].kind,
                        placement |-> entry[w.ids[i]].placement,
                        open |-> entry[w.ids[i]].open]
  <2>1. DOMAIN r.docks = DOMAIN w.ids
    BY <1>1 DEF Docks!Listed
  <2>2. Docks!Listed([ids |-> w.ids, entry |-> entry, token |-> r.token]) =
          [i \in DOMAIN r.docks |-> Row(i)]
    BY <2>1 DEF Docks!Listed
  <2>3. ASSUME NEW i \in DOMAIN r.docks
        PROVE  docks[i] = Row(i)
    <3>1. r.docks[i] = [id |-> w.ids[i], kind |-> w.entry[w.ids[i]].kind,
                        placement |-> w.entry[w.ids[i]].placement,
                        open |-> w.entry[w.ids[i]].open]
      BY <1>1, <2>1 DEF Docks!Listed
    <3>2. w.ids[i] \in Docks!ToSet(w.ids)
      BY <2>1 DEF Docks!ToSet
    <3>3. entry[w.ids[i]] = [w.entry[w.ids[i]] EXCEPT !.open = FALSE]
          /\ w.entry[w.ids[i]] \in Entries
      BY <1>1, <3>2
    <3>4. entry[w.ids[i]] =
            [kind |-> w.entry[w.ids[i]].kind,
             placement |-> w.entry[w.ids[i]].placement, open |-> FALSE]
      BY <3>3 DEF Entries
    <3>5. docks[i] = [id |-> w.ids[i], kind |-> w.entry[w.ids[i]].kind,
                      placement |-> w.entry[w.ids[i]].placement, open |-> FALSE]
      <4>1. docks[i] = [r.docks[i] EXCEPT !.open = FALSE] /\ r.docks[i] \in Docks!Docks
        BY <1>1
      <4> HIDE DEF docks
      <4>2. docks[i] = [id |-> r.docks[i].id, kind |-> r.docks[i].kind,
                        placement |-> r.docks[i].placement, open |-> FALSE]
        BY <4>1 DEF Docks!Docks
      <4>3. QED BY <3>1, <4>2
    <3> HIDE DEF docks, entry
    <3>6. QED BY <3>4, <3>5
  <2>4. docks = [i \in DOMAIN r.docks |-> docks[i]]
    OBVIOUS
  <2> HIDE DEF docks, Row
  <2>5. [i \in DOMAIN r.docks |-> docks[i]] = [i \in DOMAIN r.docks |-> Row(i)]
    BY <2>3
  <2>6. QED BY <2>2, <2>4, <2>5
<1> HIDE DEF docks, entry
<1>9. Agree([docks |-> docks, token |-> r.token],
            [ids |-> w.ids, entry |-> entry, token |-> r.token])
  BY <1>6, <1>7, <1>8 DEF Agree
<1>10. QED BY <1>2, <1>3, <1>4, <1>9

\* An empty token for a dock that is not there is refused by both.
LEMMA EmptyFocusAgrees ==
  ASSUME NEW r, NEW w, Agree(r, w), NEW id, Docks!Places(r, id) = {}
  PROVE  LET ro == Docks!RustOpenWithFocus(r, id, Docks!EmptyToken)
             wo == Docks!WebOpenWithFocus(w, id, Docks!EmptyToken)
         IN /\ ro.answer = "unknown" /\ wo.answer = "invalid"
            /\ ro.m = r /\ wo.m = w
<1>1. Docks!RustOpen(r, id) = [m |-> r, answer |-> "unknown"]
  BY DEF Docks!RustOpen, Docks!RustPut, Docks!Outcome
<1>2. QED BY <1>1 DEF Docks!RustOpenWithFocus, Docks!WebOpenWithFocus, Docks!Outcome

\* What a manager saves has every id once, all valid.
Sound(docks) ==
  /\ docks \in Seq(Docks!Docks)
  /\ \A i \in DOMAIN docks : docks[i].id \in Ids
  /\ \A i, j \in DOMAIN docks : docks[i].id = docks[j].id => i = j

\* Both registries save docks that agree as the same list of them, which is sound.
LEMMA SavedAgrees ==
  ASSUME NEW r, NEW w, Agree(r, w)
  PROVE  /\ r.docks = Docks!Listed(w)
         /\ Sound(r.docks)
<1>1. r.docks \in Seq(Docks!Docks) /\ r.docks = Docks!Listed(w)
  BY DEF Agree
<1>2. DOMAIN r.docks = DOMAIN w.ids
  BY <1>1 DEF Docks!Listed
<1>3. ASSUME NEW i \in DOMAIN w.ids
      PROVE  r.docks[i].id = w.ids[i]
  BY <1>1, SavedPlaces
<1>4. \A i, j \in DOMAIN r.docks : r.docks[i].id = r.docks[j].id => i = j
  BY <1>2, <1>3 DEF Agree
<1>5. \A i \in DOMAIN r.docks : r.docks[i].id \in Ids
  BY <1>2, <1>3 DEF Agree
<1>6. QED BY <1>1, <1>4, <1>5 DEF Sound

\* A sound snapshot is the same in both once it is restored, without a token.
LEMMA RestoreAgrees ==
  ASSUME NEW r, NEW w, NEW docks, Sound(docks)
  PROVE  LET rs == [form |-> "object", docks |-> docks]
             ws == [form |-> "array", docks |-> docks]
         IN /\ Docks!RustRestore(r, rs).answer = Docks!WebRestore(w, ws).answer
            /\ Agree(Docks!RustRestore(r, rs).m, Docks!WebRestore(w, ws).m)
<1> DEFINE ids   == [i \in DOMAIN docks |-> docks[i].id]
           At(d) == docks[CHOOSE i \in DOMAIN docks : docks[i].id = d]
           entry == [d \in Docks!ToSet(ids) |->
                       [kind |-> At(d).kind, placement |-> At(d).placement,
                        open |-> At(d).open]]
<1>1. /\ docks \in Seq(Docks!Docks) /\ DOMAIN docks = 1..Len(docks) /\ Len(docks) \in Nat
      /\ \A i \in DOMAIN docks : docks[i].id \in Ids
      /\ \A i, j \in DOMAIN docks : docks[i].id = docks[j].id => i = j
  BY DEF Sound
<1>2. ASSUME NEW i \in DOMAIN docks
      PROVE  /\ docks[i] \in Docks!Docks
             /\ docks[i].id \in Ids /\ docks[i].kind \in Kinds
             /\ docks[i].placement \in Placements /\ docks[i].open \in BOOLEAN
             /\ docks[i] = [id |-> docks[i].id, kind |-> docks[i].kind,
                            placement |-> docks[i].placement, open |-> docks[i].open]
  <2>1. docks[i] \in Docks!Docks
    BY <1>1
  <2>2. QED BY <1>1, <2>1 DEF Docks!Docks
<1>3. Docks!WebSound(docks)
  BY <1>1, <1>2 DEF Docks!WebSound
<1>4. Docks!WebRestore(w, [form |-> "array", docks |-> docks]) =
        [m |-> [ids |-> ids, entry |-> entry, token |-> Docks!NoToken], answer |-> "ok"]
  BY <1>3 DEF Docks!WebRestore, Docks!Outcome
<1>5. Docks!RustRestore(r, [form |-> "object", docks |-> docks]) =
        [m |-> [docks |-> docks, token |-> Docks!NoToken], answer |-> "ok"]
  BY DEF Docks!RustRestore, Docks!Outcome
<1>6. /\ ids \in Seq(Ids) /\ DOMAIN ids = DOMAIN docks
      /\ \A i, j \in DOMAIN ids : ids[i] = ids[j] => i = j
  BY <1>1, <1>2
<1>7. ASSUME NEW i \in DOMAIN docks
      PROVE  ids[i] \in Docks!ToSet(ids) /\ At(ids[i]) = docks[i]
  <2>1. \A k \in DOMAIN docks : docks[k].id = ids[i] => k = i
    BY <1>1
  <2>2. (CHOOSE k \in DOMAIN docks : docks[k].id = ids[i]) = i
    BY <2>1
  <2>3. QED BY <2>2 DEF Docks!ToSet
<1>8. \A d \in Docks!ToSet(ids) : \E i \in DOMAIN docks : d = ids[i]
  BY DEF Docks!ToSet
<1> HIDE DEF ids, At
<1>9. entry \in [Docks!ToSet(ids) -> Entries]
  BY <1>2, <1>7, <1>8 DEF Entries
<1>10. docks = Docks!Listed([ids |-> ids, entry |-> entry, token |-> Docks!NoToken])
  <2> DEFINE Row(i) == [id |-> ids[i], kind |-> entry[ids[i]].kind,
                        placement |-> entry[ids[i]].placement, open |-> entry[ids[i]].open]
  <2>1. Docks!Listed([ids |-> ids, entry |-> entry, token |-> Docks!NoToken]) =
          [i \in DOMAIN docks |-> Row(i)]
    BY <1>6 DEF Docks!Listed
  <2>2. ASSUME NEW i \in DOMAIN docks
        PROVE  docks[i] = Row(i)
    <3>1. entry[ids[i]] = [kind |-> docks[i].kind, placement |-> docks[i].placement,
                           open |-> docks[i].open]
      BY <1>7
    <3>2. ids[i] = docks[i].id
      BY DEF ids
    <3>3. QED BY <1>2, <3>1, <3>2
  <2> HIDE DEF Row
  <2>3. docks = [i \in DOMAIN docks |-> docks[i]]
    BY <1>1
  <2>4. QED BY <2>1, <2>2, <2>3
<1> HIDE DEF entry
<1>11. Agree([docks |-> docks, token |-> Docks!NoToken],
             [ids |-> ids, entry |-> entry, token |-> Docks!NoToken])
  BY <1>1, <1>6, <1>9, <1>10 DEF Agree, DockToken
<1>12. QED BY <1>4, <1>5, <1>11

--------------------------------------------------------------------------------
(* The invariant: the managers agree, and what they saved can be restored *)

DocksAlike ==
  /\ Agree(rust, web)
  /\ \E docks : /\ Sound(docks)
                /\ saved = [rust |-> [form |-> "object", docks |-> docks],
                            web |-> [form |-> "array", docks |-> docks]]
  /\ Alike(told.rust, told.web)

\* Once they are apart nothing happens any more; what they hold has its type.
DocksInv ==
  /\ ~apart => DocksAlike
  /\ apart => Docks!TypeOK

\* Two empty registries.
LEMMA DocksStart ==
  ASSUME Docks!Init
  PROVE  DocksInv
<1>1. <<>> \in Seq(Docks!Docks) /\ <<>> \in Seq(Ids) /\ DOMAIN <<>> = {}
  OBVIOUS
<1>2. Docks!ToSet(<<>>) = {} /\ <<>> \in [{} -> Entries]
  BY DEF Docks!ToSet
<1>3. Docks!Listed([ids |-> <<>>, entry |-> <<>>, token |-> Docks!NoToken]) = <<>>
  BY DEF Docks!Listed
<1>4. Agree(rust, web)
  BY <1>1, <1>2, <1>3
  DEF Docks!Init, Docks!RustNew, Docks!WebNew, Agree, DockToken
<1>5. saved = [rust |-> [form |-> "object", docks |-> <<>>],
               web |-> [form |-> "array", docks |-> <<>>]]
  BY <1>3 DEF Docks!Init, Docks!RustSerialize, Docks!WebSerialize, Docks!RustNew, Docks!WebNew
<1>6. Sound(<<>>)
  BY <1>1 DEF Sound
<1>7. QED BY <1>4, <1>5, <1>6 DEF Docks!Init, DocksInv, DocksAlike, Alike

\* A call on both after which they hold the same and have told alike.
LEMMA BothKeeps ==
  ASSUME DocksAlike, ~apart, NEW r, NEW w, Docks!Both(r, w), Alike(r.answer, w.answer),
         Agree(r.m, w.m)
  PROVE  DocksInv'
<1>1. /\ rust' = r.m /\ web' = w.m /\ saved' = saved /\ ~apart'
      /\ told' = [rust |-> r.answer, web |-> w.answer]
  BY Zenon DEF Docks!Both, Docks!Make
<1>2. told'.rust = r.answer /\ told'.web = w.answer
  BY <1>1
<1>3. DocksAlike'
  BY <1>1, <1>2, Zenon DEF DocksAlike
<1>4. QED BY <1>1, <1>3, Zenon DEF DocksInv

\* What agrees has its type.
LEMMA AlikeTyped ==
  ASSUME DocksAlike
  PROVE  Docks!TypeOK
<1>1. Agree(rust, web)
  BY DEF DocksAlike
<1>2. rust \in [docks : Seq(Docks!Docks), token : DockToken] /\ web.token = rust.token
  BY <1>1 DEF Agree
<1>3. web.ids \in Seq(Ids) /\ DOMAIN web.entry = Docks!ToSet(web.ids)
  BY <1>1 DEF Agree
<1>4. \A i, j \in DOMAIN web.ids : web.ids[i] = web.ids[j] => i = j
  BY <1>1 DEF Agree
<1>5. QED BY <1>2, <1>3, <1>4 DEF Docks!TypeOK, DockToken

\* An empty token: both refuse it for a dock that is not there; else they part.
LEMMA EmptyTokenKeeps ==
  ASSUME DocksAlike, ~apart, NEW id, Docks!OpenWithEmptyToken(id)
  PROVE  DocksInv'
<1> DEFINE ro == Docks!RustOpenWithFocus(rust, id, Docks!EmptyToken)
           wo == Docks!WebOpenWithFocus(web, id, Docks!EmptyToken)
<1>1. Agree(rust, web) /\ Docks!TypeOK
  BY AlikeTyped DEF DocksAlike
<1>2. Docks!Make(ro, wo) /\ apart' = (Docks!Places(rust, id) # {})
  BY DEF Docks!OpenWithEmptyToken
<1>3. CASE Docks!Places(rust, id) = {}
  <2>1. /\ ro.answer = "unknown" /\ wo.answer = "invalid"
        /\ ro.m = rust /\ wo.m = web
    BY <1>1, <1>3, EmptyFocusAgrees
  <2>2. ~apart' /\ UNCHANGED <<rust, web, saved>>
        /\ told' = [rust |-> "unknown", web |-> "invalid"]
    BY <1>2, <1>3, <2>1 DEF Docks!Make
  <2>3. Alike(told.rust, told.web)'
    BY <2>2 DEF Alike
  <2>4. DocksAlike'
    BY <2>2, <2>3, Zenon DEF DocksAlike
  <2>5. QED BY <2>2, <2>4, Zenon DEF DocksInv
<1>4. CASE Docks!Places(rust, id) # {}
  <2> DEFINE opened == Docks!RustOpen(rust, id)
  <2>1. wo.m = web
    BY DEF Docks!WebOpenWithFocus, Docks!Outcome
  <2>2. Agree(opened.m, Docks!WebOpen(web, id).m)
    BY <1>1, SwitchAgrees
  <2>3. opened = [m |-> opened.m, answer |-> "ok"]
    BY <1>4 DEF Docks!RustOpen, Docks!RustPut, Docks!Outcome
  <2>4. ro = [opened EXCEPT !.m.token = Docks!EmptyToken]
    BY <2>3 DEF Docks!RustOpenWithFocus
  <2> HIDE DEF opened, ro, wo
  <2>5. ro.m = [opened.m EXCEPT !.token = Docks!EmptyToken]
    BY <2>3, <2>4
  <2>6. opened.m \in [docks : Seq(Docks!Docks), token : DockToken]
    BY <2>2 DEF Agree
  <2>7. ro.m.docks \in Seq(Docks!Docks) /\ ro.m.token = Docks!EmptyToken
    BY <2>5, <2>6
  <2>8. rust' = ro.m /\ UNCHANGED web /\ apart'
    BY <1>2, <1>4, <2>1 DEF Docks!Make
  <2>9. Docks!TypeOK'
    BY <1>1, <2>7, <2>8 DEF Docks!TypeOK
  <2>10. QED BY <2>8, <2>9 DEF DocksInv
<1>5. QED BY <1>3, <1>4

\* A snapshot that was edited is read by Rust and refused by the browser.
LEMMA EditedKeeps ==
  ASSUME DocksAlike, NEW d \in Docks!Docks, Docks!RestoreEdited(d)
  PROVE  DocksInv'
<1>1. Docks!TypeOK
  BY AlikeTyped
<1>2. PICK docks : /\ Sound(docks)
                   /\ saved = [rust |-> [form |-> "object", docks |-> docks],
                               web |-> [form |-> "array", docks |-> docks]]
  BY DEF DocksAlike
<1> DEFINE more == Append(docks, d)
<1>3. /\ more \in Seq(Docks!Docks) /\ docks \in Seq(Docks!Docks)
      /\ Len(docks) + 1 \in DOMAIN more /\ more[Len(docks) + 1] = d
      /\ \A i \in DOMAIN docks : i \in DOMAIN more /\ more[i] = docks[i] /\ i # Len(docks) + 1
  BY <1>2 DEF Sound
<1>4. d.id \notin Ids \/ \E i \in DOMAIN docks : docks[i].id = d.id
  BY <1>2 DEF Docks!RestoreEdited
<1>5. ~Docks!WebSound(more)
  BY <1>3, <1>4 DEF Docks!WebSound
<1> HIDE DEF more
<1>6. /\ [saved.rust EXCEPT !.docks = Append(@, d)] = [form |-> "object", docks |-> more]
      /\ [saved.web EXCEPT !.docks = Append(@, d)] = [form |-> "array", docks |-> more]
  <2>1. /\ saved.rust = [form |-> "object", docks |-> docks]
        /\ saved.web = [form |-> "array", docks |-> docks]
    BY <1>2
  <2>2. ASSUME NEW s, NEW f, s = [form |-> f, docks |-> docks]
        PROVE  [s EXCEPT !.docks = Append(@, d)] = [form |-> f, docks |-> Append(docks, d)]
    BY <2>2
  <2>3. QED BY <2>1, <2>2, Zenon DEF more
<1>7. /\ rust' = [docks |-> more, token |-> Docks!NoToken] /\ UNCHANGED web /\ apart'
  BY <1>5, <1>6
  DEF Docks!RestoreEdited, Docks!Make, Docks!RustRestore, Docks!WebRestore, Docks!Outcome
<1>8. Docks!TypeOK'
  BY <1>1, <1>3, <1>7 DEF Docks!TypeOK
<1>9. QED BY <1>7, <1>8 DEF DocksInv

\* Each call, by the lemma of its operation.
LEMMA DocksKept ==
  ASSUME DocksInv, Docks!Next
  PROVE  DocksInv'
<1>1. ~apart /\ DocksAlike /\ Agree(rust, web)
  BY DEF DocksInv, DocksAlike, Docks!Next
<1>2. ASSUME NEW id, NEW k \in Kinds, NEW p \in Placements, Docks!Register(id, k, p)
      PROVE  DocksInv'
  BY <1>1, <1>2, RegisterAgrees, BothKeeps DEF Docks!Register, Alike
<1>3. ASSUME NEW id, Docks!Open(id) \/ Docks!Close(id) \/ Docks!Toggle(id)
      PROVE  DocksInv'
  <2>1. CASE Docks!Open(id)
    BY <1>1, <2>1, SwitchAgrees, BothKeeps DEF Docks!Open, Alike
  <2>2. CASE Docks!Close(id)
    BY <1>1, <2>2, SwitchAgrees, BothKeeps DEF Docks!Close, Alike
  <2>3. CASE Docks!Toggle(id)
    BY <1>1, <2>3, SwitchAgrees, BothKeeps DEF Docks!Toggle, Alike
  <2>4. QED BY <1>3, <2>1, <2>2, <2>3
<1>4. ASSUME NEW id, NEW t \in Tokens, Docks!OpenWithFocus(id, t)
      PROVE  DocksInv'
  BY <1>1, <1>4, ApplicationConstants, FocusAgrees, BothKeeps
  DEF ApplicationConstants, Docks!OpenWithFocus, Docks!EmptyToken, DockToken, Alike
<1>5. ASSUME NEW id, NEW p \in Placements, Docks!SetPlacement(id, p)
      PROVE  DocksInv'
  BY <1>1, <1>5, PlacementAgrees, BothKeeps DEF Docks!SetPlacement, Alike
<1>6. ASSUME Docks!TakeFocusToken
      PROVE  DocksInv'
  <2> DEFINE r == Docks!RustTakeFocusToken(rust)
             w == Docks!WebTakeFocusToken(web)
  <2>1. r.answer = w.answer /\ Agree(r.m, w.m)
    BY <1>1, TokenAgrees
    DEF Docks!RustTakeFocusToken, Docks!WebTakeFocusToken, Docks!Outcome, DockToken
  <2>2. QED BY <1>1, <1>6, <2>1, BothKeeps DEF Docks!TakeFocusToken, Alike
<1>7. ASSUME Docks!CloseAll
      PROVE  DocksInv'
  BY <1>1, <1>7, CloseAllAgrees, BothKeeps DEF Docks!CloseAll, Alike
<1>8. PICK docks : /\ Sound(docks)
                   /\ saved = [rust |-> [form |-> "object", docks |-> docks],
                               web |-> [form |-> "array", docks |-> docks]]
  BY <1>1 DEF DocksAlike
<1>9. ASSUME Docks!Restore
      PROVE  DocksInv'
  <2> DEFINE r == Docks!RustRestore(rust, saved.rust)
             w == Docks!WebRestore(web, saved.web)
  <2>1. r.answer = w.answer /\ Agree(r.m, w.m)
    BY <1>8, RestoreAgrees
  <2>2. QED BY <1>1, <1>9, <2>1, BothKeeps DEF Docks!Restore, Alike
<1>10. ASSUME Docks!RestoreOther
       PROVE  DocksInv'
  <2> DEFINE r == Docks!RustRestore(rust, saved.web)
             w == Docks!WebRestore(web, saved.rust)
  <2>1. r = [m |-> rust, answer |-> "invalid"] /\ w = [m |-> web, answer |-> "invalid"]
    BY <1>8 DEF Docks!RustRestore, Docks!WebRestore, Docks!Outcome
  <2>2. QED BY <1>1, <1>10, <2>1, BothKeeps DEF Docks!RestoreOther, Alike
<1>11. ASSUME Docks!Save
       PROVE  DocksInv'
  <2>1. rust.docks = Docks!Listed(web) /\ Sound(rust.docks)
    BY <1>1, SavedAgrees
  <2>2. saved' = [rust |-> [form |-> "object", docks |-> rust.docks],
                  web |-> [form |-> "array", docks |-> rust.docks]]
    BY <1>11, <2>1 DEF Docks!Save, Docks!RustSerialize, Docks!WebSerialize
  <2>3. UNCHANGED <<rust, web, told, apart>>
    BY <1>11 DEF Docks!Save
  <2>4. QED BY <1>1, <2>1, <2>2, <2>3 DEF DocksInv, DocksAlike
<1>12. QED
  BY <1>1, <1>2, <1>3, <1>4, <1>5, <1>6, <1>7, <1>9, <1>10, <1>11, EmptyTokenKeeps,
     EditedKeeps
  DEF Docks!Next, Docks!Call

\* The other parts do not touch it.
LEMMA DocksStand ==
  ASSUME DocksInv, UNCHANGED docksVars
  PROVE  DocksInv'
BY DEF DocksInv, DocksAlike, Docks!TypeOK, docksVars

\* The registries agree, and so do their snapshots, until they part (dock.ts:1).
THEOREM DocksHold == Spec => []DocksInv
<1>1. Init => DocksInv
  BY DocksStart DEF Init
<1>2. DocksInv /\ [Next]_vars => DocksInv'
  BY DocksKept, DocksStand DEF Next, KeysStep, LoginStep, DocksStep, vars
<1>3. QED BY <1>1, <1>2, PTL DEF Spec

\* The docks that are open, by both.
LEMMA OpenDocksAgree ==
  ASSUME NEW r, NEW w, Agree(r, w)
  PROVE  [i \in DOMAIN Docks!RustOpenDocks(r) |-> Docks!RustOpenDocks(r)[i].id]
           = Docks!WebOpenDocks(w)
<1>1. r.docks = Docks!Listed(w)
  BY DEF Agree
<1>2. DOMAIN r.docks = DOMAIN w.ids
  BY <1>1 DEF Docks!Listed
<1>3. ASSUME NEW i \in DOMAIN w.ids
      PROVE  r.docks[i].id = w.ids[i] /\ r.docks[i].open = w.entry[w.ids[i]].open
  BY <1>1, SavedPlaces
<1> DEFINE places == {i \in DOMAIN w.ids : w.entry[w.ids[i]].open}
<1>4. {i \in DOMAIN r.docks : r.docks[i].open} = places
  <2>1. ASSUME NEW i
        PROVE  i \in {j \in DOMAIN r.docks : r.docks[j].open} <=> i \in places
    BY <1>2, <1>3
  <2>2. QED BY <2>1, Zenon
<1>5. Docks!RustOpenDocks(r) = [i \in places |-> r.docks[i]]
  BY <1>4 DEF Docks!RustOpenDocks
<1>6. Docks!WebOpenDocks(w) = [i \in places |-> w.ids[i]]
  BY DEF Docks!WebOpenDocks
<1>7. \A i \in places : r.docks[i].id = w.ids[i]
  BY <1>3
<1> HIDE DEF places
<1>8. QED BY <1>5, <1>6, <1>7

\* Until a call on which the two part, an empty token or an edited snapshot, and
\* whatever the order of the calls, Rust's registry and the browser's hold the
\* same docks in the same order, open and placed alike, with the same token
\* staged; the snapshots, in their two forms, have the same docks, and what one
\* takes or refuses, so does the other (dock.ts:1).
THEOREM DocksAlwaysAgree == Spec => []DocksAgree
<1>1. DocksInv => DocksAgree
  <2>1. SUFFICES ASSUME DocksAlike PROVE Docks!DocksAgree
    BY DEF DocksAgree, DocksInv, Docks!DocksAgree
  <2>2. Agree(rust, web)
    BY <2>1 DEF DocksAlike
  <2>3. rust.docks = Docks!Listed(web) /\ rust.token = web.token
    BY <2>2 DEF Agree
  <2>4. saved.rust.docks = saved.web.docks /\ Docks!ToldAlike
    BY <2>1 DEF DocksAlike, Alike, Docks!ToldAlike
  <2>5. QED BY <2>2, <2>3, <2>4, OpenDocksAgree DEF Docks!DocksAgree
<1>2. QED BY <1>1, DocksHold, PTL

\* What the invariant describes has its type.
LEMMA DocksTyped ==
  ASSUME DocksInv
  PROVE  Docks!TypeOK
BY AlikeTyped DEF DocksInv
===============================================================================
