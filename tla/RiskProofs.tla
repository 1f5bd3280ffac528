-------------------------- MODULE RiskProofs ----------------------------------
(***************************************************************************)
(* What holds of the risk modules for every set of risks, controls, items, *)
(* seeds and threads, however requests overlap, fail and follow            *)
(* deployments.                                                            *)
(*                                                                         *)
(* Of the catalogues: an adoption in flight carries the rows it will add.  *)
(* While it is in flight other adoptions may commit, but only rows of the  *)
(* same seed: what it carries and what is there make the whole seed        *)
(* together until the end (Completes), and the unique keys let it in only  *)
(* if they are apart.                                                      *)
(*                                                                         *)
(* Of the register of assets: a row's code is its key, an edit that has    *)
(* been answered is in the history in the same step, and until a second    *)
(* request on the items overlaps what the only one has read is what is     *)
(* there (Undisturbed).                                                    *)
(*                                                                         *)
(* Of risks, plan and statement: what a request has read of a risk has     *)
(* since only got values (Since), which is why an UPDATE never blanks a    *)
(* level that is needed (Levelled); and until two requests overlap what    *)
(* the only one has read is what is there (Current).                       *)
(***************************************************************************)
EXTENDS RiskCatalog, StatementOfApplicability, FiniteSetTheorems, TLAPS

\* The whole seeds up to the deployed one, or nothing.
Whole == {{}} \cup {Seeds[r] : r \in 1 .. release}

Completes(r) ==
    /\ r.kind \in Kinds /\ r.load \subseteq SeedCodes /\ r.add \subseteq SeedCodes
    /\ r.load \cup seeded = Seeds[release]
    /\ r.add \cup Copied(r.kind) = Seeds[release]

InFlight(w) ==
    LET r == req[w]
    IN  r # Idle =>
        /\ r.op = "create" => "op" \in DOMAIN r
        /\ r.op = "adopt" => Completes(r)
        /\ r.op = "custom" => r.kind \in Kinds /\ r.number \in 1 .. Len(custom[r.kind]) + 1
        /\ r.op \in {"edit", "shelve"} => r.kind \in Kinds /\ r.code \in Copied(r.kind)

\* Requests on the register have nothing to do with the catalogues.
Foreign(r) ==
    /\ r.op \notin {"adopt", "custom", "edit", "shelve"}
    /\ r.op = "create" => "op" \in DOMAIN r

Shape ==
    /\ release \in DOMAIN Seeds
    /\ seeded \in Whole
    /\ adopted \in [Kinds -> [SeedCodes -> CatalogRows \cup {NoRow}]]
    /\ custom \in [Kinds -> Seq(Nat \ {0})]
    /\ req = [w \in Workers |-> req[w]]

\* The inductive invariant.
IInv ==
    /\ Shape
    /\ CopyIsWhole
    /\ CustomInOrder
    /\ \A w \in Workers : InFlight(w)

\* The invariant holds at first.
LEMMA InitInv == Init => IInv
<1> SUFFICES ASSUME Init PROVE IInv
    OBVIOUS
<1>1. 1 \in DOMAIN Seeds
    BY SeedAssumption
<1>2. Shape
    BY <1>1 DEF Init, Shape, Whole
<1>3. CopyIsWhole
    BY DEF Init, CopyIsWhole, Copied
<1>4. CustomInOrder /\ \A w \in Workers : InFlight(w)
    BY DEF Init, CustomInOrder, InFlight
<1>5. QED
    BY <1>2, <1>3, <1>4 DEF IInv

\* All of it is of the deployed seed, and stays of every later one.
LEMMA SeedsGrow ==
    ASSUME release \in DOMAIN Seeds
    PROVE  /\ \A S \in Whole : S \subseteq Seeds[release]
           /\ Seeds[release] \subseteq SeedCodes
           /\ Seeds[release] \in Whole
BY SeedAssumption DEF Whole

----------------------------------------------------------------------------
(* Steps that leave the tables alone.                                      *)

\* A step that only replaces one request by one that is sound.
LEMMA RequestStep ==
    ASSUME IInv, NEW w \in Workers, NEW r, req' = [req EXCEPT ![w] = r],
           UNCHANGED <<release, seeded, adopted, custom>>,
           r # Idle =>
               /\ r.op = "create" => "op" \in DOMAIN r
               /\ r.op = "adopt" => Completes(r)
               /\ r.op = "custom" =>
                      r.kind \in Kinds /\ r.number \in 1 .. Len(custom[r.kind]) + 1
               /\ r.op \in {"edit", "shelve"} => r.kind \in Kinds /\ r.code \in Copied(r.kind)
    PROVE  IInv'
<1>1. \A v \in Workers : req'[v] = IF v = w THEN r ELSE req[v]
    BY DEF IInv, Shape
<1>2. Shape' /\ CopyIsWhole' /\ CustomInOrder'
  <2>1. req' = [v \in Workers |-> req'[v]]
      BY DEF IInv, Shape
  <2>2. QED
      BY <2>1 DEF IInv, Shape, CopyIsWhole, CustomInOrder, Whole, Copied
<1>3. ASSUME NEW v \in Workers PROVE InFlight(v)'
  <2>1. CASE v = w
      BY <1>1, <2>1 DEF InFlight, Completes, Copied
  <2>2. CASE v # w
      BY <1>1, <2>2 DEF IInv, InFlight, Completes, Copied
  <2>3. QED
      BY <2>1, <2>2
<1>4. QED
    BY <1>2, <1>3 DEF IInv

\* A step outside the catalogue preserves the invariant.
LEMMA SameStep ==
    ASSUME IInv, UNCHANGED <<release, seeded, adopted, custom, req>> PROVE IInv'
BY DEF IInv, Shape, CopyIsWhole, CustomInOrder, InFlight, Completes, Whole, Copied

\* A step on assets preserves the invariant.
LEMMA AssetStepInv ==
    ASSUME IInv, NEW w \in Workers, AssetStep(w), UNCHANGED catalogVars
    PROVE  IInv'
<1>1. UNCHANGED <<release, seeded, adopted, custom>>
    BY DEF catalogVars
<1>2. ASSUME NEW r, req' = [req EXCEPT ![w] = r], r = Idle \/ Foreign(r)
      PROVE  IInv'
    BY <1>1, <1>2, RequestStep DEF Foreign
<1>3. CASE GenerateCode(w)
  <2> DEFINE r == [req[w] EXCEPT !.step = "coded",
                                 !.row = RowOf(req[w].body, NextCode(req[w].body.type))]
  <2>1. req' = [req EXCEPT ![w] = r]
      BY <1>3 DEF GenerateCode, IInv, Shape
  <2>2. "op" \in DOMAIN req[w] /\ req[w].op = "create"
      BY <1>3 DEF GenerateCode, ServingItem, OnItems, IInv, InFlight
  <2>3. r.op = "create" /\ "op" \in DOMAIN r
      BY <2>2
  <2> HIDE DEF r
  <2>4. QED
      BY <1>2, <2>1, <2>3 DEF Foreign
<1>4. CASE \/ CommitCreate(w) \/ CommitUpdate(w) \/ CommitArchive(w)
           \/ RemoveRelationship(w) \/ RemoveGapLink(w) \/ GiveUpOnItems(w)
  <2>1. req' = [req EXCEPT ![w] = Idle]
      BY <1>4 DEF CommitCreate, CommitUpdate, CommitArchive, RemoveRelationship,
         RemoveGapLink, CommitUnlink, GiveUpOnItems, FinishOnItems
  <2>2. QED
      BY <1>2, <2>1
<1>5. ASSUME NEW i \in Items, NEW b \in Forms, BeginCreate(w, i, b)
      PROVE  IInv'
  <2> DEFINE r == [op |-> "create", step |-> "checked", item |-> i, row |-> NoRow, body |-> b]
  <2>1. req' = [req EXCEPT ![w] = r] /\ Foreign(r)
      BY <1>5 DEF BeginCreate, BeginOnItems, Foreign
  <2>2. QED
      BY <1>2, <2>1
<1>6. ASSUME NEW i \in Items, NEW b \in Forms, BeginUpdate(w, i, b)
      PROVE  IInv'
  <2> DEFINE r == [op |-> "update", item |-> i, loaded |-> items[i],
                   row |-> RowOf(b, items[i].code)]
  <2>1. req' = [req EXCEPT ![w] = r] /\ Foreign(r)
      BY <1>6 DEF BeginUpdate, BeginOnItems, Foreign
  <2>2. QED
      BY <1>2, <2>1
<1>7. ASSUME NEW i \in Items, BeginArchive(w, i)
      PROVE  IInv'
  <2> DEFINE r == [op |-> "archive", item |-> i, loaded |-> items[i],
                   row |-> [items[i] EXCEPT !.archived = TRUE]]
  <2>1. req' = [req EXCEPT ![w] = r] /\ Foreign(r)
      BY <1>7 DEF BeginArchive, BeginOnItems, Foreign
  <2>2. QED
      BY <1>2, <2>1
<1>8. ASSUME NEW i \in Items, NEW target, NEW tie, BeginUnlink(w, i, target, tie)
      PROVE  IInv'
  <2> DEFINE r == [op |-> "unlink", item |-> i, target |-> target, tie |-> tie,
                   link |-> links[<<i, target, tie>>]]
  <2>1. req' = [req EXCEPT ![w] = r] /\ Foreign(r)
      BY <1>8 DEF BeginUnlink, BeginOnItems, Foreign
  <2>2. QED
      BY <1>2, <2>1
<1>9. ASSUME NEW i \in Items, NEW target, NEW tie, AddLink(w, i, target, tie)
      PROVE  IInv'
    BY <1>1, <1>9, SameStep DEF AddLink
<1>10. QED
    BY <1>3, <1>4, <1>5, <1>6, <1>7, <1>8, <1>9 DEF AssetStep, AddRelationship, AddGapLink

\* A request on the catalogue that begins preserves the invariant.
LEMMA CatalogBegins ==
    ASSUME IInv, NEW w \in Workers,
           \/ \E k \in Kinds :
                  \/ BeginAdopt(w, k) \/ BeginCustom(w, k)
                  \/ \E c \in SeedCodes : \/ BeginShelve(w, k, c)
                                         \/ \E i \in Items : BeginExpose(w, k, c, i)
           \/ \E c \in SeedCodes : BeginEdit(w, c)
    PROVE  IInv'
<1> USE DEF BeginOnCatalog, catalogVars
<1>1. ASSUME NEW k \in Kinds, BeginAdopt(w, k) PROVE IInv'
  <2> DEFINE r == [op |-> "adopt", kind |-> k, load |-> Unloaded, add |-> Lacking(k)]
  <2>1. req' = [req EXCEPT ![w] = r] /\ UNCHANGED <<release, seeded, adopted, custom>>
      BY <1>1 DEF BeginAdopt
  <2>2. seeded \subseteq Seeds[release] /\ Copied(k) \subseteq Seeds[release]
        /\ Seeds[release] \subseteq SeedCodes
      BY SeedsGrow DEF IInv, Shape, CopyIsWhole, Whole
  <2>3. Completes(r)
      BY <2>2 DEF Completes, Unloaded, Lacking
  <2>4. r.op = "adopt"
      OBVIOUS
  <2> HIDE DEF r
  <2>5. QED
      BY <2>1, <2>3, <2>4, RequestStep
<1>2. ASSUME NEW k \in Kinds, BeginCustom(w, k) PROVE IInv'
  <2> DEFINE r == [op |-> "custom", kind |-> k, number |-> NextCustomCode(k)]
  <2>1. req' = [req EXCEPT ![w] = r] /\ UNCHANGED <<release, seeded, adopted, custom>>
      BY <1>2 DEF BeginCustom
  <2>2. Len(custom[k]) \in Nat
      BY DEF IInv, Shape
  <2>3. r.op = "custom" /\ r.kind = k /\ r.number \in 1 .. Len(custom[k]) + 1
      BY <2>2 DEF NextCustomCode
  <2> HIDE DEF r
  <2>4. QED
      BY <2>1, <2>3, RequestStep
<1>3. ASSUME NEW k \in Kinds, NEW c \in SeedCodes, NEW op \in {"edit", "shelve", "expose"},
             NEW r, r.op = op, r.kind = k, r.code = c, c \in Copied(k), BeginOnCatalog(w, r)
      PROVE  IInv'
    BY <1>3, RequestStep
<1>4. ASSUME NEW k \in Kinds, NEW c \in SeedCodes, BeginShelve(w, k, c) PROVE IInv'
    BY <1>3, <1>4 DEF BeginShelve
<1>5. ASSUME NEW k \in Kinds, NEW c \in SeedCodes, NEW i \in Items, BeginExpose(w, k, c, i)
      PROVE  IInv'
    BY <1>3, <1>5 DEF BeginExpose
<1>6. ASSUME NEW c \in SeedCodes, BeginEdit(w, c) PROVE IInv'
    BY <1>3, <1>6 DEF BeginEdit, Kinds
<1>7. QED
    BY <1>1, <1>2, <1>4, <1>5, <1>6

----------------------------------------------------------------------------
(* Steps that write the tables.                                            *)

\* CommitAdopt preserves the invariant.
LEMMA AdoptStep == ASSUME IInv, NEW w \in Workers, CommitAdopt(w) PROVE IInv'
<1> DEFINE r == req[w]
<1>1. /\ r # Idle /\ Completes(r)
      /\ req' = [req EXCEPT ![w] = Idle] /\ UNCHANGED <<release, custom>>
    BY DEF CommitAdopt, ServingCatalog, AnswerCatalog, IInv, InFlight
<1>2. CASE ~UniqueKeys(r.kind, r.load, r.add)
    BY <1>1, <1>2, RequestStep DEF CommitAdopt
<1>3. CASE UniqueKeys(r.kind, r.load, r.add)
  <2>1. /\ seeded' = Seeds[release]
        /\ adopted' = [adopted EXCEPT ![r.kind] =
               [c \in SeedCodes |-> IF c \in r.add THEN NewRow ELSE @[c]]]
      BY <1>1, <1>3 DEF CommitAdopt, Completes
  <2>2. adopted' \in [Kinds -> [SeedCodes -> CatalogRows \cup {NoRow}]]
      BY <1>1, <2>1 DEF IInv, Shape, NewRow, CatalogRows, Completes
  <2>3. \A k \in Kinds : Copied(k)' = IF k = r.kind THEN Seeds[release] ELSE Copied(k)
    <3>0. NewRow \in CatalogRows
        BY DEF NewRow, CatalogRows
    <3>1. NewRow # NoRow
        BY <3>0, NullAssumption
    <3>2. ASSUME NEW k \in Kinds, NEW c \in SeedCodes
          PROVE  adopted'[k][c] # NoRow <=>
                     adopted[k][c] # NoRow \/ (k = r.kind /\ c \in r.add)
        BY <2>1, <3>1, <1>1 DEF IInv, Shape, Completes
    <3>3. \A k \in Kinds : Copied(k)' = Copied(k) \cup (IF k = r.kind THEN r.add ELSE {})
        BY <3>2, <1>1 DEF Copied, Completes
    <3>4. QED
        BY <3>3, <1>1 DEF Completes
  <2>4. Seeds[release] \in Whole
      BY SeedsGrow DEF IInv, Shape
  <2>5. Shape'
    <3>1. req' = [v \in Workers |-> req'[v]]
        BY <1>1 DEF IInv, Shape
    <3>2. QED
        BY <1>1, <2>1, <2>2, <2>4, <3>1 DEF IInv, Shape, Whole
  <2>6. CopyIsWhole'
      BY <1>1, <2>3, <2>4 DEF IInv, CopyIsWhole, Whole
  <2>7. CustomInOrder'
      BY <1>1 DEF IInv, CustomInOrder
  <2>8. ASSUME NEW v \in Workers PROVE InFlight(v)'
    <3>1. req'[v] = IF v = w THEN Idle ELSE req[v]
        BY <1>1 DEF IInv, Shape
    <3>2. CASE v = w
        BY <3>1, <3>2 DEF InFlight
    <3>3. CASE v # w
      <4>1. PICK q : q = req[v] /\ q = req'[v]
          BY <3>1, <3>3
      <4>2. q # Idle /\ q.op = "adopt" => Completes(q)'
          BY <4>1, <1>1, <2>1, <2>3 DEF IInv, InFlight, Completes
      <4>3. q # Idle /\ q.op \in {"edit", "shelve"} =>
              q.kind \in Kinds /\ q.code \in Copied(q.kind)'
        <5>1. \A k \in Kinds : Copied(k) \subseteq Copied(k)'
            BY <1>1, <2>3 DEF Completes
        <5>2. QED
            BY <4>1, <5>1 DEF IInv, InFlight
      <4>4. QED
          BY <4>1, <4>2, <4>3, <1>1 DEF IInv, InFlight, Completes, Copied
    <3>4. QED
        BY <3>2, <3>3
  <2>9. QED
      BY <2>5, <2>6, <2>7, <2>8 DEF IInv
<1>4. QED
    BY <1>2, <1>3

\* A free number is the next one.
LEMMA CustomStep == ASSUME IInv, NEW w \in Workers, CommitCustom(w) PROVE IInv'
<1> DEFINE r == req[w]
           k == r.kind
           n == Len(custom[k]) + 1
<1>1. /\ r # Idle /\ k \in Kinds /\ r.number \in 1 .. n
      /\ req' = [req EXCEPT ![w] = Idle] /\ UNCHANGED <<release, seeded, adopted>>
    BY DEF CommitCustom, ServingCatalog, AnswerCatalog, IInv, InFlight
<1>2. CASE ~UniqueNumber(k, r.number)
    BY <1>1, <1>2, RequestStep DEF CommitCustom
<1>3. CASE UniqueNumber(k, r.number)
  <2>1. /\ custom' = [custom EXCEPT ![k] = Append(@, r.number)]
        /\ custom \in [Kinds -> Seq(Nat \ {0})] /\ custom[k] \in Seq(Nat \ {0})
      BY <1>1, <1>3 DEF CommitCustom, IInv, Shape
  <2>2. r.number = n /\ n \in Nat \ {0} /\ Len(custom[k]) \in Nat
    <3>1. Len(custom[k]) \in Nat /\ DOMAIN custom[k] = 1 .. Len(custom[k])
        BY <2>1
    <3>2. \A m \in DOMAIN custom[k] : custom[k][m] = m /\ custom[k][m] # r.number
        BY <1>1, <1>3 DEF UniqueNumber, IInv, CustomInOrder
    <3>3. r.number \notin 1 .. Len(custom[k])
        BY <3>1, <3>2
    <3>4. QED
        BY <1>1, <3>1, <3>3
  <2>3. /\ custom'[k] = Append(custom[k], n) /\ \A l \in Kinds : l # k => custom'[l] = custom[l]
        /\ custom' \in [Kinds -> Seq(Nat \ {0})]
      BY <1>1, <2>1, <2>2
  <2>4. Shape'
    <3>1. req' = [v \in Workers |-> req'[v]]
        BY <1>1 DEF IInv, Shape
    <3>2. QED
        BY <1>1, <2>3, <3>1 DEF IInv, Shape, Whole
  <2>5. CopyIsWhole'
      BY <1>1 DEF IInv, CopyIsWhole, Copied
  <2>6. CustomInOrder'
    <3>1. \A m \in DOMAIN custom'[k] : custom'[k][m] = m
        BY <1>1, <2>1, <2>2, <2>3 DEF IInv, CustomInOrder
    <3>2. QED
        BY <1>1, <2>3, <3>1 DEF IInv, CustomInOrder
  <2>7. \A l \in Kinds : 1 .. Len(custom[l]) + 1 \subseteq 1 .. Len(custom'[l]) + 1
    <3>1. Len(custom'[k]) = n
        BY <2>1, <2>2, <2>3
    <3>2. QED
        BY <2>2, <2>3, <3>1
  <2>8. ASSUME NEW v \in Workers PROVE InFlight(v)'
    <3>1. req'[v] = IF v = w THEN Idle ELSE req[v]
        BY <1>1 DEF IInv, Shape
    <3>2. CASE v = w
        BY <3>1, <3>2 DEF InFlight
    <3>3. CASE v # w
      <4>1. PICK q : q = req[v] /\ q = req'[v]
          BY <3>1, <3>3
      <4>2. q # Idle /\ q.op = "custom" =>
              q.kind \in Kinds /\ q.number \in 1 .. Len(custom'[q.kind]) + 1
          BY <4>1, <2>7 DEF IInv, InFlight
      <4>3. QED
          BY <4>1, <4>2, <1>1 DEF IInv, InFlight, Completes, Copied
    <3>4. QED
        BY <3>2, <3>3
  <2>9. QED
      BY <2>4, <2>5, <2>6, <2>8 DEF IInv
<1>4. QED
    BY <1>2, <1>3

\* CommitItem preserves the invariant.
LEMMA ItemStep == ASSUME IInv, NEW w \in Workers, CommitItem(w) PROVE IInv'
<1> DEFINE r == req[w]
<1>1. /\ r # Idle /\ r.kind \in Kinds /\ r.code \in Copied(r.kind)
      /\ req' = [req EXCEPT ![w] = Idle] /\ UNCHANGED <<release, seeded, custom>>
    BY DEF CommitItem, ServingCatalog, AnswerCatalog, IInv, InFlight
<1>2. PICK row \in CatalogRows : adopted' = [adopted EXCEPT ![r.kind][r.code] = row]
  <2>1. adopted[r.kind][r.code] \in CatalogRows
      BY <1>1 DEF Copied, IInv, Shape
  <2>2. /\ [adopted[r.kind][r.code] EXCEPT !.edited = TRUE] \in CatalogRows
        /\ [adopted[r.kind][r.code] EXCEPT !.archived = TRUE] \in CatalogRows
      BY <2>1 DEF CatalogRows
  <2>3. QED
      BY <2>2 DEF CommitItem
<1>3. /\ adopted' \in [Kinds -> [SeedCodes -> CatalogRows \cup {NoRow}]]
      /\ \A k \in Kinds, c \in SeedCodes : adopted'[k][c] # NoRow <=> adopted[k][c] # NoRow
    BY <1>1, <1>2, NullAssumption DEF IInv, Shape, Copied
<1>4. \A k \in Kinds : Copied(k)' = Copied(k)
    BY <1>3 DEF Copied
<1>5. Shape'
  <2>1. req' = [v \in Workers |-> req'[v]]
      BY <1>1 DEF IInv, Shape
  <2>2. QED
      BY <1>1, <1>3, <2>1 DEF IInv, Shape, Whole
<1>6. CopyIsWhole' /\ CustomInOrder'
    BY <1>1, <1>4 DEF IInv, CopyIsWhole, CustomInOrder
<1>7. ASSUME NEW v \in Workers PROVE InFlight(v)'
  <2>1. PICK q : q = req'[v] /\ (q = Idle \/ q = req[v])
      BY <1>1 DEF IInv, Shape
  <2>2. q # Idle /\ q.op = "adopt" => Completes(q)'
      BY <2>1, <1>1, <1>4 DEF IInv, InFlight, Completes
  <2>3. q # Idle /\ q.op \in {"edit", "shelve"} => q.kind \in Kinds /\ q.code \in Copied(q.kind)'
      BY <2>1, <1>4 DEF IInv, InFlight
  <2>4. QED
      BY <2>1, <2>2, <2>3, <1>1 DEF IInv, InFlight, Completes, Copied
<1>8. QED
    BY <1>5, <1>6, <1>7 DEF IInv

\* Answering without a change of the copy preserves the invariant.
LEMMA AnswerStep ==
    ASSUME IInv, NEW w \in Workers, CommitExpose(w) \/ GiveUpOnCatalog(w) PROVE IInv'
BY RequestStep DEF CommitExpose, GiveUpOnCatalog, AnswerCatalog, catalogVars

\* Every seed is part of the next one.
LEMMA DeployStep == ASSUME IInv, Deploy PROVE IInv'
<1>1. /\ release \in Nat /\ release' = release + 1 /\ release' \in DOMAIN Seeds
      /\ req' = [w \in Workers |-> Idle] /\ UNCHANGED <<seeded, adopted, custom>>
    BY SeedAssumption DEF Deploy, IInv, Shape
<1>2. 1 .. release \subseteq 1 .. release'
    BY <1>1
<1>3. Whole \subseteq Whole'
    BY <1>2 DEF Whole
<1>4. Shape'
    BY <1>1, <1>3 DEF IInv, Shape
<1>5. CopyIsWhole' /\ CustomInOrder'
    BY <1>1, <1>2 DEF IInv, CopyIsWhole, CustomInOrder, Copied
<1>6. \A w \in Workers : InFlight(w)'
    BY <1>1 DEF InFlight
<1>7. QED
    BY <1>4, <1>5, <1>6 DEF IInv

\* Another organization's adoption preserves the invariant.
LEMMA OtherStep == ASSUME IInv, OtherAdopts PROVE IInv'
<1>1. seeded' = Seeds[release] /\ UNCHANGED <<release, adopted, custom, req>>
    BY SeedsGrow DEF OtherAdopts, Unloaded, IInv, Shape
<1>2. Seeds[release] \in Whole
    BY SeedsGrow DEF IInv, Shape
<1>3. Shape' /\ CopyIsWhole' /\ CustomInOrder'
    BY <1>1, <1>2 DEF IInv, Shape, CopyIsWhole, CustomInOrder, Whole, Copied
<1>4. \A w \in Workers : InFlight(w)'
    BY <1>1 DEF IInv, InFlight, Completes, Copied
<1>5. QED
    BY <1>3, <1>4 DEF IInv

\* Every step preserves the invariant.
LEMMA NextInv == IInv /\ [Next]_vars => IInv'
<1> SUFFICES ASSUME IInv, [Next]_vars PROVE IInv'
    OBVIOUS
<1>1. CASE UNCHANGED vars
    BY <1>1, SameStep DEF vars, catalogVars
<1>2. ASSUME NEW w \in Workers, CatalogStep(w) PROVE IInv'
    BY <1>2, CatalogBegins, AdoptStep, CustomStep, ItemStep, AnswerStep DEF CatalogStep
<1>3. QED
    BY <1>1, <1>2, AssetStepInv, DeployStep, OtherStep DEF Next

----------------------------------------------------------------------------
(* The register.                                                           *)

\* What validate_scope and _resolve_criticality make of a row.
ValidRow(row) ==
    /\ row.scope = "in_scope" => row.responsible /\ row.class # NoLevel
    /\ row.scope = "out_of_scope" => row.justified
    /\ ~row.manual => row.criticality = row.class

\* No other item has the row's type and name unless one of both is excused.
Apart(i, row) ==
    \A j \in Items \ {i} :
        items[j] # NoRow /\ items[j].type = row.type /\ items[j].name = row.name
            => items[j].excused \/ row.excused

\* What a request carries whatever else happens: the row it writes is valid
\* and has the code of the row it loaded, which is not deleted.
Carried(r) ==
    /\ r.op = "create" =>
           /\ ValidScope(r.body)
           /\ r.step = "coded" => r.row \in ItemRows /\ r.row = RowOf(r.body, r.row.code)
    /\ r.op \in {"update", "archive"} => items[r.item] # NoRow /\ r.row.code = r.loaded.code
    /\ r.op = "update" => ValidRow(r.row)
    /\ r.op = "archive" => r.row = [r.loaded EXCEPT !.archived = TRUE]

\* What it has read is still so.
Undisturbed(r) ==
    /\ r.op = "create" => CheckDuplicate(r.item, r.body)
    /\ r.op \in {"update", "archive"} => r.loaded = items[r.item]
    /\ r.op = "update" => Apart(r.item, r.row)
    /\ r.op = "unlink" => links[<<r.item, r.target, r.tie>>] = r.link /\ r.link # 0

\* Among any of the items there is one with the greatest number, so that there
\* is a next code for the items that have a type now.
Present == {i \in Items : items[i] # NoRow}

NumbersHaveGreatest ==
    \A J \in SUBSET Present : J # {} =>
        \E i \in J : \A j \in J : items[j].code[2] <= items[i].code[2]

Requests == ItemRequests \cup CatalogRequests \cup {Idle}

\* As long as requests do not overlap, one is alone and undisturbed.
SerialRegister ==
    /\ \A v, w \in Workers : OnItems(v) /\ OnItems(w) => v = w
    /\ \A w \in Workers : OnItems(w) => Undisturbed(req[w])
    /\ \A i \in Present : ValidRow(items[i]) /\ Apart(i, items[i])
    /\ \A p \in Items \X Targets : linksTold[p] = Cardinality(Tied(p))

RegisterTyped == AssetTypeOK /\ req \in [Workers -> Requests]

\* What the history tells of the item is what the row says.
Tells(told, row) ==
    /\ told.scope = row.scope
    /\ row.criticality = IF told.criticality = NoRow THEN told.created ELSE told.criticality

\* Every item has a history.
Recorded == \A i \in Present : history[i] \in Told

\* The inductive invariant of the register.
RegisterInv ==
    /\ RegisterTyped
    /\ NumbersHaveGreatest
    /\ CodesAreUnique
    /\ Recorded
    /\ HistoryIsCurrent
    /\ \A w \in Workers : OnItems(w) => Carried(req[w])
    /\ ~itemsOverlapped => SerialRegister

\* The invariant of the register holds at first.
LEMMA RegisterInit == Init => RegisterInv
<1> SUFFICES ASSUME Init PROVE RegisterInv
    OBVIOUS
<1>1. RegisterTyped
  <2>1. 0 \in 0 .. 0 /\ 0 \in 0 .. MaxLinks /\ 0 \in Int
      BY AssetAssumption
  <2>2. AssetTypeOK
      BY <2>1 DEF Init, AssetInit, AssetTypeOK
  <2>3. QED
      BY <2>2 DEF Init, RegisterTyped, Requests
<1>2. Present = {} /\ \A w \in Workers : ~OnItems(w)
    BY DEF Init, AssetInit, Present, OnItems
<1>3. NumbersHaveGreatest /\ CodesAreUnique /\ Recorded /\ HistoryIsCurrent
    BY <1>2 DEF Recorded, Init, AssetInit, NumbersHaveGreatest, CodesAreUnique, HistoryIsCurrent
<1>4. SerialRegister
  <2>1. ASSUME NEW p \in Items \X Targets PROVE linksTold[p] = Cardinality(Tied(p))
    <3>1. Tied(p) = {}
        BY DEF Tied, Init, AssetInit, LinkKeys
    <3>2. QED
        BY <3>1, FS_EmptySet DEF Init, AssetInit
  <2>2. QED
      BY <1>2, <2>1 DEF SerialRegister
<1>5. QED
    BY <1>1, <1>2, <1>3, <1>4 DEF RegisterInv

\* What a request on the register is made of.
LEMMA ItemRequestFields ==
    ASSUME NEW r \in Requests, r # Idle, r.op \in {"create", "update", "archive", "unlink"}
    PROVE  /\ r \in ItemRequests
           /\ r.item \in Items
           /\ r.op = "create" => r.step \in {"checked", "coded"} /\ r.body \in Forms
           /\ r.op \in {"update", "archive"} => r.loaded \in ItemRows /\ r.row \in ItemRows
           /\ r.op = "unlink" => r.target \in Targets /\ r.tie \in Ties /\ r.link \in Nat
BY DEF Requests, ItemRequests, CatalogRequests

\* A step that leaves the register as it is, and goes on with no other request
\* on it than those it finds.
LEMMA QuietStep ==
    ASSUME RegisterInv, UNCHANGED assetVars, req' \in [Workers -> Requests],
           \A v \in Workers : OnItems(v)' => req'[v] = req[v]
    PROVE  RegisterInv'
<1>1. \A v \in Workers : OnItems(v)' => OnItems(v)
    BY DEF OnItems
<1>2. RegisterTyped'
    BY DEF RegisterInv, RegisterTyped, AssetTypeOK, assetVars
<1>3. NumbersHaveGreatest' /\ CodesAreUnique' /\ Recorded' /\ HistoryIsCurrent'
    BY DEF RegisterInv, Recorded, NumbersHaveGreatest, Present, CodesAreUnique,
           HistoryIsCurrent, assetVars
<1>4. ASSUME NEW v \in Workers, OnItems(v)'
      PROVE  Carried(req[v])' /\ (~itemsOverlapped' => Undisturbed(req[v])')
  <2>1. PICK r : r = req[v] /\ r = req'[v]
      BY <1>4
  <2>2. Carried(r) /\ (~itemsOverlapped => Undisturbed(r))
      BY <2>1, <1>1, <1>4 DEF RegisterInv, SerialRegister
  <2>3. Carried(r)' /\ (~itemsOverlapped' => Undisturbed(r)')
      BY <2>2 DEF Carried, Undisturbed, Apart, CheckDuplicate, SameName, assetVars
  <2>4. QED
      BY <2>1, <2>3
<1>5. ~itemsOverlapped' => SerialRegister'
    BY <1>1, <1>4 DEF RegisterInv, SerialRegister, Present, Apart, Tied, assetVars
<1>6. QED
    BY <1>2, <1>3, <1>4, <1>5 DEF RegisterInv

\* A request on the register that begins.
LEMMA RegisterBegins ==
    ASSUME RegisterInv, NEW w \in Workers, NEW r \in ItemRequests, BeginOnItems(w, r),
           Carried(r), ~itemsOverlapped => Undisturbed(r)
    PROVE  RegisterInv'
<1>1. /\ req' = [req EXCEPT ![w] = r]
      /\ \A v \in Workers : req'[v] = IF v = w THEN r ELSE req[v]
      /\ UNCHANGED <<items, links, drawnLinks, history, linksTold>>
    BY DEF BeginOnItems, RegisterInv, RegisterTyped
<1>2. /\ itemsOverlapped' \in BOOLEAN
      /\ ~itemsOverlapped' => ~itemsOverlapped /\ \A v \in Workers \ {w} : ~OnItems(v)
    BY DEF BeginOnItems, ItemOverlap, RegisterInv, RegisterTyped, AssetTypeOK
<1>3. \A v \in Workers \ {w} : OnItems(v)' <=> OnItems(v)
    BY <1>1 DEF OnItems
<1>4. RegisterTyped'
  <2>1. req' \in [Workers -> Requests]
      BY <1>1 DEF RegisterInv, RegisterTyped, Requests
  <2>2. QED
      BY <1>1, <1>2, <2>1 DEF RegisterInv, RegisterTyped, AssetTypeOK
<1>5. NumbersHaveGreatest' /\ CodesAreUnique' /\ Recorded' /\ HistoryIsCurrent'
    BY <1>1 DEF RegisterInv, Recorded, NumbersHaveGreatest, Present,
                  CodesAreUnique, HistoryIsCurrent
<1>6. ASSUME NEW v \in Workers, OnItems(v)' PROVE Carried(req[v])'
  <2>1. PICK q : q = req'[v]
      OBVIOUS
  <2>2. Carried(q)
      BY <2>1, <1>1, <1>3, <1>6 DEF RegisterInv
  <2>3. QED
      BY <2>1, <2>2, <1>1 DEF Carried
<1>7. ASSUME ~itemsOverlapped' PROVE SerialRegister'
  <2>1. \A v \in Workers \ {w} : ~OnItems(v)'
      BY <1>2, <1>3, <1>7
  <2>2. Undisturbed(r)'
      BY <1>1, <1>2, <1>7 DEF Undisturbed, Apart, CheckDuplicate, SameName
  <2>3. \A v \in Workers : OnItems(v)' => Undisturbed(req[v])'
      BY <2>1, <2>2, <1>1
  <2>4. QED
      BY <2>1, <2>3, <1>1, <1>2, <1>7 DEF RegisterInv, SerialRegister, Present, Apart, Tied
<1>8. QED
    BY <1>4, <1>5, <1>6, <1>7 DEF RegisterInv

\* validate_scope and _resolve_criticality make a row valid.
LEMMA RowIsValid ==
    ASSUME NEW b \in Bodies, NEW code \in Types \X (Nat \ {0}), ValidScope(b)
    PROVE  /\ RowOf(b, code) \in ItemRows
           /\ ValidRow(RowOf(b, code))
           /\ RowOf(b, code).code = code /\ RowOf(b, code).excused = b.duplicate
           /\ RowOf(b, code).type = b.type /\ RowOf(b, code).name = b.name
<1> DEFINE row == RowOf(b, code)
<1>1. /\ b.type \in Types /\ b.name \in ItemNames /\ b.scope \in Scopes
      /\ b.justified \in BOOLEAN /\ b.responsible \in BOOLEAN /\ b.class \in Levels
      /\ b.criticality \in Levels /\ b.manual \in BOOLEAN /\ b.archived \in BOOLEAN
      /\ b.duplicate \in BOOLEAN
    BY DEF Bodies
<1>2. Criticality(b) \in Levels
    BY <1>1 DEF Criticality
<1>3. (b.manual /\ b.criticality # NoLevel) \in BOOLEAN
    OBVIOUS
<1>4. row \in ItemRows
    BY <1>1, <1>2, <1>3 DEF RowOf, ItemRows
<1>5. ValidRow(row)
    BY DEF RowOf, ValidRow, ValidScope, Criticality
<1>6. QED
    BY <1>4, <1>5 DEF RowOf

\* A row keeps apart what check_duplicate lets it be saved with.
LEMMA CheckedIsApart ==
    ASSUME NEW i \in Items, NEW b, CheckDuplicate(i, b), NEW row,
           row.type = b.type, row.name = b.name, row.excused = b.duplicate
    PROVE  Apart(i, row)
BY DEF CheckDuplicate, SameName, Apart

\* The requests that begin.
LEMMA ItemBegins ==
    ASSUME RegisterInv, NEW w \in Workers, NEW i \in Items,
           \/ \E b \in Forms : BeginCreate(w, i, b) \/ BeginUpdate(w, i, b)
           \/ BeginArchive(w, i)
           \/ \E target \in Targets, tie \in Ties : BeginUnlink(w, i, target, tie)
    PROVE  RegisterInv'
<1>0. items[i] # NoRow => items[i] \in ItemRows /\ items[i].code \in Types \X (Nat \ {0})
    BY DEF RegisterInv, RegisterTyped, AssetTypeOK, ItemRows
<1>1. ASSUME NEW b \in Forms, BeginCreate(w, i, b) PROVE RegisterInv'
  <2>1. PICK r : r = [op |-> "create", step |-> "checked", item |-> i, row |-> NoRow, body |-> b]
      OBVIOUS
  <2>2. r \in ItemRequests
      BY <2>1 DEF ItemRequests
  <2>3. Carried(r) /\ Undisturbed(r)
      BY <2>1, <1>1 DEF BeginCreate, Carried, Undisturbed
  <2>4. BeginOnItems(w, r)
      BY <2>1, <1>1 DEF BeginCreate
  <2>5. QED
      BY <2>2, <2>3, <2>4, RegisterBegins
<1>2. ASSUME NEW b \in Forms, BeginUpdate(w, i, b) PROVE RegisterInv'
  <2>1. PICK row : row = RowOf(b, items[i].code)
      OBVIOUS
  <2>2. PICK r : r = [op |-> "update", item |-> i, loaded |-> items[i], row |-> row]
      OBVIOUS
  <2>3. /\ items[i] # NoRow /\ ValidScope(b) /\ CheckDuplicate(i, b) /\ b \in Bodies
        /\ BeginOnItems(w, r)
      BY <2>1, <2>2, <1>2, AssetAssumption DEF BeginUpdate
  <2>4. row \in ItemRows /\ ValidRow(row) /\ row.code = items[i].code /\ Apart(i, row)
      BY <2>1, <2>3, <1>0, RowIsValid, CheckedIsApart
  <2>5. r \in ItemRequests
      BY <2>2, <2>3, <2>4, <1>0 DEF ItemRequests
  <2>6. Carried(r) /\ Undisturbed(r)
      BY <2>2, <2>3, <2>4 DEF Carried, Undisturbed
  <2>7. QED
      BY <2>3, <2>5, <2>6, RegisterBegins
<1>3. CASE BeginArchive(w, i)
  <2>1. PICK row : row = [items[i] EXCEPT !.archived = TRUE]
      OBVIOUS
  <2>2. PICK r : r = [op |-> "archive", item |-> i, loaded |-> items[i], row |-> row]
      OBVIOUS
  <2>3. items[i] # NoRow /\ BeginOnItems(w, r)
      BY <2>1, <2>2, <1>3 DEF BeginArchive
  <2>4. row \in ItemRows /\ row.code = items[i].code
      BY <2>1, <2>3, <1>0 DEF ItemRows
  <2>5. r \in ItemRequests
      BY <2>2, <2>3, <2>4, <1>0 DEF ItemRequests
  <2>6. Carried(r) /\ Undisturbed(r)
      BY <2>1, <2>2, <2>3, <2>4 DEF Carried, Undisturbed
  <2>7. QED
      BY <2>3, <2>5, <2>6, RegisterBegins
<1>4. ASSUME NEW target \in Targets, NEW tie \in Ties, BeginUnlink(w, i, target, tie)
      PROVE  RegisterInv'
  <2>1. PICK r : r = [op |-> "unlink", item |-> i, target |-> target, tie |-> tie,
                      link |-> links[<<i, target, tie>>]]
      OBVIOUS
  <2>2. links[<<i, target, tie>>] \in Nat
      BY DEF RegisterInv, RegisterTyped, AssetTypeOK, LinkKeys
  <2>3. r \in ItemRequests
      BY <2>1, <2>2 DEF ItemRequests
  <2>4. Carried(r) /\ Undisturbed(r)
      BY <2>1, <1>4 DEF Carried, Undisturbed, BeginUnlink
  <2>5. BeginOnItems(w, r)
      BY <2>1, <1>4 DEF BeginUnlink
  <2>6. QED
      BY <2>3, <2>4, <2>5, RegisterBegins
<1>5. QED
    BY <1>1, <1>2, <1>3, <1>4

\* A request on the register that ends by writing a row: valid, apart, with a
\* code of its own, and told.
LEMMA RowWritten ==
    ASSUME RegisterInv, NEW w \in Workers, OnItems(w), NEW i \in Items, NEW row \in ItemRows,
           NEW told \in Told, Tells(told, row),
           IF items[i] = NoRow THEN UniqueCode(row.code) ELSE row.code = items[i].code,
           ~itemsOverlapped => ValidRow(row) /\ Apart(i, row),
           items' = [items EXCEPT ![i] = row], history' = [history EXCEPT ![i] = told],
           FinishOnItems(w), UNCHANGED <<links, drawnLinks, linksTold>>
    PROVE  RegisterInv'
<1>1. /\ items' \in [Items -> ItemRows \cup {NoRow}]
      /\ \A j \in Items : items'[j] = IF j = i THEN row ELSE items[j]
      /\ \A j \in Items : history'[j] = IF j = i THEN told ELSE history[j]
      /\ \A j \in Items : items[j] = NoRow \/ items[j] \in ItemRows
    BY DEF RegisterInv, RegisterTyped, AssetTypeOK
<1>2. /\ \A v \in Workers : req'[v] = IF v = w THEN Idle ELSE req[v]
      /\ itemsOverlapped' = itemsOverlapped
    BY DEF FinishOnItems, RegisterInv, RegisterTyped
<1>3. row # NoRow /\ Present' = Present \cup {i}
  <2>1. row # NoRow
      BY NullAssumption
  <2>2. QED
      BY <1>1, <2>1 DEF Present
<1>4. RegisterTyped'
  <2>1. req' \in [Workers -> Requests]
      BY DEF FinishOnItems, RegisterInv, RegisterTyped, Requests
  <2>2. history' \in [Items -> Told \cup {NoRow}]
      BY DEF RegisterInv, RegisterTyped, AssetTypeOK
  <2>3. QED
      BY <1>1, <1>2, <2>1, <2>2 DEF RegisterInv, RegisterTyped, AssetTypeOK
<1>5. \A j \in Present : items'[j].code = items[j].code
    BY <1>1 DEF Present
<1>6. NumbersHaveGreatest'
  <2> SUFFICES ASSUME NEW J \in SUBSET Present', J # {}
               PROVE  \E g \in J : \A j \in J : items'[j].code[2] <= items'[g].code[2]
      BY DEF NumbersHaveGreatest
  <2>1. \A j \in Present' : items'[j].code[2] \in Nat
      BY <1>1, <1>3 DEF ItemRows, Present
  <2>2. CASE J \ {i} = {}
    <3>1. J = {i}
        BY <2>2
    <3>2. QED
        BY <3>1, <2>1
  <2>3. CASE J \subseteq Present
      BY <2>3, <1>5 DEF RegisterInv, NumbersHaveGreatest
  <2>4. CASE i \in J /\ J \ {i} # {} /\ i \notin Present
    <3>1. J \ {i} \subseteq Present
        BY <1>3
    <3>2. PICK g \in J \ {i} : \A j \in J \ {i} : items[j].code[2] <= items[g].code[2]
        BY <3>1, <2>4 DEF RegisterInv, NumbersHaveGreatest
    <3>3. \A j \in J \ {i} : items'[j].code[2] <= items'[g].code[2]
        BY <3>1, <3>2, <1>5
    <3>4. CASE items'[i].code[2] <= items'[g].code[2]
        BY <3>3, <3>4
    <3>5. CASE items'[g].code[2] <= items'[i].code[2]
        BY <3>3, <3>5, <2>1, <2>4
    <3>6. QED
        BY <3>4, <3>5, <2>1, <2>4
  <2>5. QED
      BY <2>2, <2>3, <2>4, <1>3
<1>7. CodesAreUnique'
  <2>1. \A j \in Items \ {i} : items[j] # NoRow => items[j].code # row.code
      BY DEF UniqueCode, RegisterInv, CodesAreUnique
  <2>2. QED
      BY <1>1, <2>1 DEF RegisterInv, CodesAreUnique
<1>8. Recorded' /\ HistoryIsCurrent'
    BY <1>1, <1>3 DEF RegisterInv, Recorded, HistoryIsCurrent, Tells
<1>9. ASSUME NEW v \in Workers, OnItems(v)' PROVE Carried(req[v])'
  <2>1. PICK q : q = req'[v]
      OBVIOUS
  <2>2. Carried(q)
      BY <2>1, <1>2, <1>9 DEF RegisterInv, OnItems
  <2>3. q.op \in {"update", "archive"} => items'[q.item] # NoRow
    <3>1. q.op \in {"update", "archive"} => q.item \in Items
        BY <2>1, <1>2, <1>9, ItemRequestFields DEF OnItems, RegisterInv, RegisterTyped
    <3>2. QED
        BY <2>2, <3>1, <1>1, <1>3 DEF Carried
  <2>4. QED
      BY <2>1, <2>2, <2>3 DEF Carried
<1>10. ASSUME ~itemsOverlapped' PROVE SerialRegister'
  <2>1. \A v \in Workers : ~OnItems(v)'
      BY <1>2, <1>10 DEF RegisterInv, SerialRegister, OnItems
  <2>2. ASSUME NEW j \in Present' PROVE ValidRow(items'[j]) /\ Apart(j, items[j])'
    <3>1. CASE j = i
        BY <3>1, <1>1, <1>2, <1>10 DEF Apart
    <3>2. CASE j # i
      <4>1. j \in Present /\ items'[j] = items[j]
          BY <3>2, <2>2, <1>1, <1>3
      <4>2. ValidRow(items[j]) /\ Apart(j, items[j]) /\ Apart(i, row)
          BY <4>1, <1>2, <1>10 DEF RegisterInv, SerialRegister
      <4>3. QED
          BY <4>1, <4>2, <1>1, <3>2 DEF Apart, Present
    <3>3. QED
        BY <3>1, <3>2
  <2>3. QED
      BY <2>1, <2>2, <1>2, <1>10 DEF RegisterInv, SerialRegister, Tied
<1>11. QED
    BY <1>4, <1>6, <1>7, <1>8, <1>9, <1>10 DEF RegisterInv

\* An UPDATE writes a row: of each column what is new, or what is there.
LEMMA ChangedIsARow ==
    ASSUME NEW current \in ItemRows, NEW loaded \in ItemRows, NEW new \in ItemRows
    PROVE  /\ Changed(current, loaded, new) \in ItemRows
           /\ loaded = current => Changed(current, loaded, new) = new
<1> DEFINE Columns == {"type", "name", "scope", "justified", "responsible", "class",
                       "criticality", "manual", "archived", "excused", "code"}
<1>1. DOMAIN current = Columns /\ DOMAIN new = Columns
    BY DEF ItemRows
<1>2. Changed(current, loaded, new) =
          [c \in Columns |-> IF new[c] = loaded[c] THEN current[c] ELSE new[c]]
    BY <1>1 DEF Changed
<1>3. [c \in Columns |-> IF new[c] = loaded[c] THEN current[c] ELSE new[c]] \in ItemRows
    BY DEF ItemRows
<1>4. new = [c \in Columns |-> new[c]]
    BY <1>1 DEF ItemRows
<1>5. QED
    BY <1>2, <1>3, <1>4

\* _next of generate_code: one more than the greatest number of the items that
\* have the type.
LEMMA NextCodeIsACode ==
    ASSUME RegisterInv, NEW type \in Types
    PROVE  NextCode(type) \in Types \X (Nat \ {0})
<1> DEFINE J == {j \in Items : items[j] # NoRow /\ items[j].type = type}
           S == {items[i].code[2] : i \in J} \cup {0}
<1>1. J \subseteq Present /\ \A j \in J : items[j].code[2] \in Nat \ {0}
    BY DEF Present, RegisterInv, RegisterTyped, AssetTypeOK, ItemRows
<1>2. \E m \in S : \A n \in S : m >= n
  <2>1. CASE J = {}
      BY <2>1
  <2>2. CASE J # {}
    <3>1. PICK g \in J : \A j \in J : items[j].code[2] <= items[g].code[2]
        BY <2>2, <1>1 DEF RegisterInv, NumbersHaveGreatest
    <3>2. QED
        BY <3>1, <1>1
  <2>3. QED
      BY <2>1, <2>2
<1>3. Max(S) \in S
    BY <1>2 DEF Max
<1>4. S \subseteq Nat
    BY <1>1
<1>5. Max(S) + 1 \in Nat \ {0}
  <2>1. Max(S) \in Nat
      BY <1>3, <1>4
  <2> HIDE DEF S
  <2>2. QED
      BY <2>1
<1>6. QED
    BY <1>5 DEF NextCode

\* GenerateCode preserves the invariant of the register.
LEMMA GenerateStep ==
    ASSUME RegisterInv, NEW w \in Workers, GenerateCode(w) PROVE RegisterInv'
<1>1. PICK r : r = req[w]
    OBVIOUS
<1>2. PICK row : row = RowOf(r.body, NextCode(r.body.type))
    OBVIOUS
<1>3. PICK q : q = [r EXCEPT !.step = "coded", !.row = row]
    OBVIOUS
<1>4. /\ r \in Requests /\ r # Idle /\ r.op = "create" /\ OnItems(w)
      /\ req' = [req EXCEPT ![w] = q] /\ UNCHANGED assetVars
  <2>1. req' = [req EXCEPT ![w] = q]
      BY <1>1, <1>2, <1>3 DEF GenerateCode, RegisterInv, RegisterTyped
  <2>2. QED
      BY <1>1, <2>1 DEF GenerateCode, ServingItem, OnItems, RegisterInv, RegisterTyped
<1>5. r \in [op : {"create"}, step : {"checked", "coded"}, item : Items,
             row : ItemRows \cup {NoRow}, body : Forms]
    BY <1>4, ItemRequestFields DEF ItemRequests
<1>6. /\ r.body \in Bodies /\ ValidScope(r.body) /\ r.body.type \in Types
      /\ ~itemsOverlapped => CheckDuplicate(r.item, r.body)
    BY <1>1, <1>4, <1>5, AssetAssumption
       DEF RegisterInv, Carried, SerialRegister, Undisturbed, Bodies
<1>7. row \in ItemRows /\ row.code = NextCode(r.body.type)
    BY <1>2, <1>6, NextCodeIsACode, RowIsValid
<1>8. /\ q = [op |-> "create", step |-> "coded", item |-> r.item, row |-> row, body |-> r.body]
      /\ q \in ItemRequests
  <2>1. q = [op |-> "create", step |-> "coded", item |-> r.item, row |-> row, body |-> r.body]
      BY <1>3, <1>5
  <2>2. QED
      BY <2>1, <1>5, <1>7 DEF ItemRequests
<1>9. Carried(q) /\ (~itemsOverlapped => Undisturbed(q))
    BY <1>2, <1>6, <1>7, <1>8 DEF Carried, Undisturbed
<1>10. /\ \A v \in Workers : req'[v] = IF v = w THEN q ELSE req[v]
       /\ req' \in [Workers -> Requests]
    BY <1>4, <1>8 DEF RegisterInv, RegisterTyped, Requests
<1>11. \A v \in Workers : OnItems(v)' => OnItems(v)
    BY <1>4, <1>10 DEF OnItems
<1>12. RegisterTyped' /\ NumbersHaveGreatest' /\ CodesAreUnique' /\ Recorded' /\ HistoryIsCurrent'
    BY <1>4, <1>10 DEF RegisterInv, RegisterTyped, AssetTypeOK, Recorded,
                          NumbersHaveGreatest, Present,
       CodesAreUnique, HistoryIsCurrent, assetVars
<1>13. ASSUME NEW v \in Workers, OnItems(v)'
       PROVE  Carried(req[v])' /\ (~itemsOverlapped' => Undisturbed(req[v])')
  <2>1. PICK p : p = req'[v]
      OBVIOUS
  <2>2. Carried(p) /\ (~itemsOverlapped => Undisturbed(p))
      BY <2>1, <1>9, <1>10, <1>11, <1>13 DEF RegisterInv, SerialRegister
  <2>3. QED
      BY <2>1, <2>2, <1>4 DEF Carried, Undisturbed, Apart, CheckDuplicate, SameName, assetVars
<1>14. ~itemsOverlapped' => SerialRegister'
    BY <1>4, <1>11, <1>13 DEF RegisterInv, SerialRegister, Present, Apart, Tied, assetVars
<1>15. QED
    BY <1>12, <1>13, <1>14 DEF RegisterInv

\* The commits of rows preserve the invariant of the register.
LEMMA RowCommits ==
    ASSUME RegisterInv, NEW w \in Workers, CommitCreate(w) \/ CommitUpdate(w) \/ CommitArchive(w)
    PROVE  RegisterInv'
<1>1. PICK r : r = req[w]
    OBVIOUS
<1>2. /\ OnItems(w) /\ r \in Requests /\ r # Idle /\ r.op \in {"create", "update", "archive"}
      /\ FinishOnItems(w) /\ UNCHANGED <<links, drawnLinks, linksTold>>
    BY <1>1 DEF CommitCreate, CommitUpdate, CommitArchive, ServingItem, OnItems, RegisterInv,
       RegisterTyped
<1>3. r.item \in Items /\ (r.op = "create" => r.body \in Bodies)
    BY <1>2, ItemRequestFields, AssetAssumption
<1>4. Carried(r) /\ (~itemsOverlapped => Undisturbed(r))
    BY <1>1, <1>2 DEF RegisterInv, SerialRegister
<1>5. PICK i \in Items : i = r.item
    BY <1>3
<1>6. CASE CommitCreate(w)
  <2>1. r.op = "create" /\ r.step = "coded"
      BY <1>1, <1>6 DEF CommitCreate, ServingItem
  <2>2. PICK row \in ItemRows : row = r.row
      BY <1>4, <2>1 DEF Carried
  <2>3. row = RowOf(r.body, row.code) /\ row.code \in Types \X (Nat \ {0}) /\ ValidScope(r.body)
      BY <2>1, <2>2, <1>4 DEF Carried, ItemRows
  <2>4. ValidRow(row) /\ row.excused = r.body.duplicate /\ row.type = r.body.type
        /\ row.name = r.body.name
      BY <2>3, <1>2, <1>3, <2>1, RowIsValid
  <2>5. ~itemsOverlapped => Apart(i, row)
      BY <2>1, <2>4, <1>4, <1>5, CheckedIsApart DEF Undisturbed
  <2>6. CASE items[i] = NoRow /\ UniqueCode(row.code)
    <3>1. PICK told : told = [scope |-> row.scope, created |-> row.criticality,
                              criticality |-> NoRow]
        OBVIOUS
    <3>2. told \in Told /\ Tells(told, row)
        BY <3>1 DEF Told, ItemRows, Tells
    <3>3. items' = [items EXCEPT ![i] = row] /\ history' = [history EXCEPT ![i] = told]
        BY <2>2, <2>6, <3>1, <1>1, <1>5, <1>6 DEF CommitCreate
    <3>4. QED
        BY <1>2, <2>4, <2>5, <2>6, <3>2, <3>3, RowWritten
  <2>7. CASE ~(items[i] = NoRow /\ UniqueCode(row.code))
    <3>1. UNCHANGED assetVars
        BY <2>2, <2>7, <1>1, <1>5, <1>6 DEF CommitCreate, FinishOnItems, assetVars
    <3>2. req' \in [Workers -> Requests] /\ \A v \in Workers : OnItems(v)' => req'[v] = req[v]
        BY <1>2 DEF FinishOnItems, RegisterInv, RegisterTyped, Requests, OnItems
    <3>3. QED
        BY <3>1, <3>2, QuietStep
  <2>8. QED
      BY <2>6, <2>7
<1>7. ASSUME NEW row \in ItemRows, row = Changed(items[i], r.loaded, r.row),
             r.op \in {"update", "archive"}
      PROVE  /\ row.code = items[i].code /\ items[i] # NoRow
             /\ ~itemsOverlapped => ValidRow(row) /\ Apart(i, row)
  <2>1. /\ items[i] # NoRow /\ items[i] \in ItemRows /\ r.row.code = r.loaded.code
        /\ r.loaded \in ItemRows /\ r.row \in ItemRows
      BY <1>2, <1>4, <1>5, <1>7, ItemRequestFields
      DEF Carried, RegisterInv, RegisterTyped, AssetTypeOK
  <2>2. row.code = items[i].code
      BY <1>7, <2>1 DEF Changed, ItemRows
  <2>3. ASSUME ~itemsOverlapped PROVE ValidRow(row) /\ Apart(i, row)
    <3>1. r.loaded = items[i] /\ row = r.row
        BY <2>1, <2>3, <1>4, <1>5, <1>7, ChangedIsARow DEF Undisturbed
    <3>2. CASE r.op = "update"
        BY <3>1, <3>2, <2>3, <1>4, <1>5 DEF Carried, Undisturbed
    <3>3. CASE r.op = "archive"
      <4>1. row = [items[i] EXCEPT !.archived = TRUE]
          BY <3>1, <3>3, <1>4 DEF Carried
      <4>2. ValidRow(items[i]) /\ Apart(i, items[i])
          BY <2>1, <2>3 DEF RegisterInv, SerialRegister, Present
      <4>3. QED
          BY <4>1, <4>2, <2>1 DEF ValidRow, Apart, ItemRows
    <3>4. QED
        BY <3>2, <3>3, <1>7
  <2>4. QED
      BY <2>1, <2>2, <2>3
<1>8. ASSUME r.op \in {"update", "archive"}
      PROVE  /\ items[i] \in ItemRows /\ r.loaded \in ItemRows /\ r.row \in ItemRows
             /\ history[i] \in Told /\ Tells(history[i], items[i])
             /\ Changed(items[i], r.loaded, r.row) \in ItemRows
  <2>1. items[i] \in ItemRows /\ i \in Present
      BY <1>4, <1>5, <1>8 DEF Carried, RegisterInv, RegisterTyped, AssetTypeOK, Present
  <2>2. r.loaded \in ItemRows /\ r.row \in ItemRows
      BY <1>2, <1>8, ItemRequestFields
  <2>3. history[i] \in Told
      BY <2>1 DEF RegisterInv, Recorded
  <2>4. Tells(history[i], items[i])
      BY <2>1 DEF RegisterInv, HistoryIsCurrent, Present, Tells
  <2>5. QED
      BY <2>1, <2>2, <2>3, <2>4, ChangedIsARow
<1>9. CASE CommitUpdate(w)
  <2>1. r.op = "update"
      BY <1>1, <1>9 DEF CommitUpdate, ServingItem
  <2>2. PICK row \in ItemRows : row = Changed(items[i], r.loaded, r.row)
      BY <1>8, <2>1
  <2>3. PICK told : told = DiffAndLog(history[i], r.loaded, r.row)
      OBVIOUS
  <2>4. told \in Told /\ Tells(told, row)
    <3>1. PICK now \in Told : now = history[i] /\ Tells(now, items[i])
        BY <1>8, <2>1
    <3>2. /\ told.scope = IF r.row.scope = r.loaded.scope THEN now.scope ELSE r.row.scope
          /\ told.criticality = IF r.row.criticality = r.loaded.criticality THEN now.criticality
                                ELSE r.row.criticality
          /\ told.created = now.created
        BY <2>3, <3>1 DEF DiffAndLog, Told
    <3>3. /\ row.scope = IF r.row.scope = r.loaded.scope THEN items[i].scope ELSE r.row.scope
          /\ row.criticality = IF r.row.criticality = r.loaded.criticality
                               THEN items[i].criticality ELSE r.row.criticality
        BY <1>8, <2>1, <2>2 DEF Changed, ItemRows
    <3>4. r.row.scope \in Scopes /\ r.row.criticality \in Levels /\ r.row.criticality # NoRow
        BY <1>8, <2>1, AssetAssumption DEF ItemRows
    <3>5. Tells(told, row)
        BY <3>1, <3>2, <3>3, <3>4 DEF Tells
    <3>6. told = [scope |-> told.scope, created |-> told.created,
                  criticality |-> told.criticality]
        BY <2>3, <3>1 DEF DiffAndLog, Told
    <3>7. /\ told.scope \in Scopes /\ told.created \in Levels
          /\ told.criticality \in Levels \cup {NoRow}
        BY <3>1, <3>2, <3>4 DEF Told
    <3>8. QED
        BY <3>5, <3>6, <3>7 DEF Told
  <2>5. items' = [items EXCEPT ![i] = row] /\ history' = [history EXCEPT ![i] = told]
      BY <1>1, <1>5, <1>9, <2>2, <2>3 DEF CommitUpdate
  <2>6. QED
      BY <1>2, <1>7, <2>1, <2>2, <2>4, <2>5, RowWritten
<1>10. CASE CommitArchive(w)
  <2>1. r.op = "archive"
      BY <1>1, <1>10 DEF CommitArchive, ServingItem
  <2>2. PICK row \in ItemRows : row = Changed(items[i], r.loaded, r.row)
      BY <1>8, <2>1
  <2>3. Tells(history[i], row)
    <3>1. r.row = [r.loaded EXCEPT !.archived = TRUE]
        BY <1>4, <2>1 DEF Carried
    <3>2. row.scope = items[i].scope /\ row.criticality = items[i].criticality
        BY <3>1, <1>8, <2>1, <2>2 DEF Changed, ItemRows
    <3>3. QED
        BY <3>2, <1>8, <2>1 DEF Tells
  <2>4. items' = [items EXCEPT ![i] = row] /\ history' = [history EXCEPT ![i] = history[i]]
      BY <1>1, <1>5, <1>10, <2>2 DEF CommitArchive, RegisterInv, RegisterTyped, AssetTypeOK
  <2>5. QED
      BY <1>2, <1>7, <1>8, <2>1, <2>2, <2>3, <2>4, RowWritten
<1>11. QED
    BY <1>6, <1>9, <1>10

\* The links of an item to a target are few enough to be counted.
LEMMA TiesAreFinite ==
    ASSUME NEW p PROVE IsFiniteSet(Tied(p)) /\ Tied(p) \subseteq Ties
<1>1. IsFiniteSet(Ties)
    BY AssetAssumption, FS_AddElement DEF Ties
<1>2. Tied(p) \subseteq Ties
    BY DEF Tied
<1>3. QED
    BY <1>1, <1>2, FS_Subset

\* A link that is drawn.
LEMMA LinkStep ==
    ASSUME RegisterInv, NEW w \in Workers, NEW i \in Items, NEW target \in Targets,
           NEW tie \in Ties, AddLink(w, i, target, tie)
    PROVE  RegisterInv'
<1>0. PICK l \in LinkKeys : l = <<i, target, tie>>
    BY DEF LinkKeys
<1>1. PICK p \in Items \X Targets : p = <<i, target>>
    OBVIOUS
<1>2. /\ req[w] = Idle /\ links[l] = 0 /\ UNCHANGED <<items, history, req>>
      /\ links' = [links EXCEPT ![l] = drawnLinks']
      /\ linksTold' = [linksTold EXCEPT ![p] = linksTold[p] + 1]
    BY <1>0, <1>1 DEF AddLink
<1>3. /\ drawnLinks \in Nat /\ drawnLinks' = drawnLinks + 1 /\ drawnLinks' \in 0 .. MaxLinks
      /\ drawnLinks' # 0
    BY AssetAssumption DEF AddLink, RegisterInv, RegisterTyped, AssetTypeOK
<1>4. 0 .. drawnLinks \subseteq 0 .. drawnLinks' /\ drawnLinks' \in 0 .. drawnLinks'
    BY <1>3
<1>5. /\ itemsOverlapped' \in BOOLEAN
      /\ ~itemsOverlapped' => ~itemsOverlapped /\ \A v \in Workers : ~OnItems(v)
    BY <1>2 DEF AddLink, ItemOverlap, RegisterInv, RegisterTyped, AssetTypeOK, OnItems
<1>6. RegisterTyped'
  <2>1. links' \in [LinkKeys -> 0 .. drawnLinks']
      BY <1>2, <1>4 DEF RegisterInv, RegisterTyped, AssetTypeOK
  <2>2. linksTold' \in [Items \X Targets -> Int]
      BY <1>2 DEF RegisterInv, RegisterTyped, AssetTypeOK
  <2>3. QED
      BY <1>2, <1>3, <1>5, <2>1, <2>2 DEF RegisterInv, RegisterTyped, AssetTypeOK
<1>7. NumbersHaveGreatest' /\ CodesAreUnique' /\ Recorded' /\ HistoryIsCurrent'
    BY <1>2 DEF RegisterInv, Recorded, NumbersHaveGreatest, Present, CodesAreUnique,
       HistoryIsCurrent
<1>8. \A v \in Workers : (OnItems(v)' <=> OnItems(v)) /\ (OnItems(v) => Carried(req[v])')
    BY <1>2 DEF RegisterInv, OnItems, Carried
<1>9. \A m \in LinkKeys : links'[m] = IF m = l THEN drawnLinks' ELSE links[m]
    BY <1>2 DEF RegisterInv, RegisterTyped, AssetTypeOK
<1>10. Tied(p)' = Tied(p) \cup {tie} /\ tie \notin Tied(p)
    BY <1>0, <1>1, <1>2, <1>3, <1>9 DEF Tied, LinkKeys
<1>11. ASSUME NEW q \in Items \X Targets, q # p PROVE Tied(q)' = Tied(q)
    BY <1>0, <1>1, <1>9, <1>11 DEF Tied, LinkKeys
<1>12. Cardinality(Tied(p)') = Cardinality(Tied(p)) + 1
    BY <1>10, TiesAreFinite, FS_AddElement
<1>13. ASSUME ~itemsOverlapped' PROVE SerialRegister'
  <2>1. ASSUME NEW q \in Items \X Targets PROVE linksTold'[q] = Cardinality(Tied(q)')
    <3>1. linksTold[q] = Cardinality(Tied(q))
        BY <1>5, <1>13 DEF RegisterInv, SerialRegister
    <3>2. linksTold'[q] = IF q = p THEN linksTold[q] + 1 ELSE linksTold[q]
        BY <1>2 DEF RegisterInv, RegisterTyped, AssetTypeOK
    <3>3. QED
        BY <3>1, <3>2, <1>11, <1>12
  <2>2. \A q \in Items \X Targets : (linksTold[q] = Cardinality(Tied(q)))'
      BY <2>1
  <2>3. QED
      BY <2>2, <1>2, <1>5, <1>8, <1>13 DEF RegisterInv, SerialRegister, Present, Apart
<1>14. QED
    BY <1>6, <1>7, <1>8, <1>13 DEF RegisterInv

\* A link that is removed.
LEMMA UnlinkStep ==
    ASSUME RegisterInv, NEW w \in Workers, CommitUnlink(w) PROVE RegisterInv'
<1>1. PICK r : r = req[w]
    OBVIOUS
<1>2. /\ r \in Requests /\ r # Idle /\ r.op = "unlink" /\ OnItems(w)
      /\ UNCHANGED <<items, drawnLinks, history, itemsOverlapped>>
      /\ \A v \in Workers : req'[v] = IF v = w THEN Idle ELSE req[v]
      /\ req' \in [Workers -> Requests]
    BY <1>1 DEF CommitUnlink, ServingItem, OnItems, FinishOnItems, RegisterInv, RegisterTyped,
       Requests
<1>3. PICK l \in LinkKeys : l = <<r.item, r.target, r.tie>>
    BY <1>2, ItemRequestFields DEF LinkKeys
<1>4. PICK p \in Items \X Targets : p = <<r.item, r.target>>
    BY <1>2, ItemRequestFields
<1>5. /\ links' = IF links[l] = r.link THEN [links EXCEPT ![l] = 0] ELSE links
      /\ linksTold' = [linksTold EXCEPT ![p] = linksTold[p] - 1]
    BY <1>1, <1>3, <1>4 DEF CommitUnlink, ToldRemoved
<1>6. RegisterTyped'
  <2>1. 0 \in 0 .. drawnLinks
      BY AssetAssumption DEF RegisterInv, RegisterTyped, AssetTypeOK
  <2>2. links' \in [LinkKeys -> 0 .. drawnLinks]
      BY <1>5, <2>1 DEF RegisterInv, RegisterTyped, AssetTypeOK
  <2>3. linksTold' \in [Items \X Targets -> Int]
      BY <1>5 DEF RegisterInv, RegisterTyped, AssetTypeOK
  <2>4. QED
      BY <1>2, <2>2, <2>3 DEF RegisterInv, RegisterTyped, AssetTypeOK
<1>7. NumbersHaveGreatest' /\ CodesAreUnique' /\ Recorded' /\ HistoryIsCurrent'
    BY <1>2 DEF RegisterInv, Recorded, NumbersHaveGreatest, Present, CodesAreUnique,
       HistoryIsCurrent
<1>8. ASSUME NEW v \in Workers, OnItems(v)' PROVE OnItems(v) /\ Carried(req[v])'
    BY <1>2, <1>8 DEF RegisterInv, OnItems, Carried
<1>9. ASSUME ~itemsOverlapped' PROVE SerialRegister'
  <2>1. \A v \in Workers : ~OnItems(v)'
      BY <1>2, <1>8, <1>9 DEF RegisterInv, SerialRegister, OnItems
  <2>2. links[l] = r.link /\ r.link # 0
      BY <1>1, <1>2, <1>3, <1>9 DEF RegisterInv, SerialRegister, Undisturbed
  <2>3. \A m \in LinkKeys : links'[m] = IF m = l THEN 0 ELSE links[m]
      BY <1>5, <2>2 DEF RegisterInv, RegisterTyped, AssetTypeOK
  <2>4. Tied(p)' = Tied(p) \ {r.tie} /\ r.tie \in Tied(p)
      BY <1>3, <1>4, <2>2, <2>3 DEF Tied, LinkKeys
  <2>5. ASSUME NEW q \in Items \X Targets, q # p PROVE Tied(q)' = Tied(q)
      BY <1>3, <1>4, <2>3, <2>5 DEF Tied, LinkKeys
  <2>6. Cardinality(Tied(p)') = Cardinality(Tied(p)) - 1
      BY <2>4, TiesAreFinite, FS_RemoveElement
  <2>7. ASSUME NEW q \in Items \X Targets PROVE linksTold'[q] = Cardinality(Tied(q)')
    <3>1. linksTold[q] = Cardinality(Tied(q))
        BY <1>2, <1>9 DEF RegisterInv, SerialRegister
    <3>2. linksTold'[q] = IF q = p THEN linksTold[q] - 1 ELSE linksTold[q]
        BY <1>5 DEF RegisterInv, RegisterTyped, AssetTypeOK
    <3>3. QED
        BY <3>1, <3>2, <2>5, <2>6
  <2>8. \A q \in Items \X Targets : (linksTold[q] = Cardinality(Tied(q)))'
      BY <2>7
  <2>9. QED
      BY <1>2, <1>9, <2>1, <2>8 DEF RegisterInv, SerialRegister, Present, Apart
<1>10. QED
    BY <1>6, <1>7, <1>8, <1>9 DEF RegisterInv

\* A step on the register preserves its invariant.
LEMMA RegisterStep ==
    ASSUME RegisterInv, NEW w \in Workers, AssetStep(w) PROVE RegisterInv'
<1>1. CASE GiveUpOnItems(w)
  <2>1. UNCHANGED assetVars /\ req' \in [Workers -> Requests]
      BY <1>1 DEF GiveUpOnItems, FinishOnItems, assetVars, RegisterInv, RegisterTyped, Requests
  <2>2. \A v \in Workers : OnItems(v)' => req'[v] = req[v]
      BY <1>1 DEF GiveUpOnItems, FinishOnItems, OnItems, RegisterInv, RegisterTyped
  <2>3. QED
      BY <2>1, <2>2, QuietStep
<1>2. ASSUME NEW i \in Items, NEW target \in Targets, NEW tie \in Ties,
             AddLink(w, i, target, tie)
      PROVE  RegisterInv'
    BY <1>2, LinkStep
<1>3. QED
    BY <1>1, <1>2, ItemBegins, GenerateStep, RowCommits, UnlinkStep
       DEF AssetStep, AddRelationship, AddGapLink, RemoveRelationship, RemoveGapLink, Targets, Ties

----------------------------------------------------------------------------
(* Both.                                                                   *)

ExposedTyped == exposed \in [Kinds -> SUBSET (SeedCodes \X Items)]

\* The invariant of the module: catalogues and register.
Inv == IInv /\ RegisterInv /\ ExposedTyped

\* A step on the catalogues leaves the register as it is.
LEMMA CatalogIsApart ==
    ASSUME Inv, NEW w \in Workers, CatalogStep(w), UNCHANGED assetVars
    PROVE  RegisterInv' /\ ExposedTyped'
<1>1. ASSUME NEW r \in CatalogRequests, BeginOnCatalog(w, r)
      PROVE  RegisterInv' /\ ExposedTyped'
  <2>1. req' = [req EXCEPT ![w] = r] /\ req' \in [Workers -> Requests] /\ UNCHANGED exposed
      BY <1>1 DEF BeginOnCatalog, catalogVars, Inv, RegisterInv, RegisterTyped, Requests
  <2>2. r.op \notin {"create", "update", "archive", "unlink"}
      BY DEF CatalogRequests
  <2>3. \A v \in Workers : OnItems(v)' => req'[v] = req[v]
      BY <2>1, <2>2 DEF OnItems, Inv, RegisterInv, RegisterTyped
  <2>4. QED
      BY <2>1, <2>3, QuietStep DEF Inv, ExposedTyped
<1>2. ASSUME AnswerCatalog(w), ExposedTyped' PROVE RegisterInv' /\ ExposedTyped'
  <2>1. req' \in [Workers -> Requests] /\ \A v \in Workers : OnItems(v)' => req'[v] = req[v]
      BY <1>2 DEF AnswerCatalog, OnItems, Inv, RegisterInv, RegisterTyped, Requests
  <2>2. QED
      BY <2>1, <1>2, QuietStep DEF Inv
<1>3. ASSUME NEW k \in Kinds, BeginAdopt(w, k) PROVE RegisterInv' /\ ExposedTyped'
  <2>1. PICK r : r = [op |-> "adopt", kind |-> k, load |-> Unloaded, add |-> Lacking(k)]
      OBVIOUS
  <2>2. Seeds[release] \subseteq SeedCodes /\ seeded \subseteq SeedCodes
      BY SeedsGrow DEF Inv, IInv, Shape
  <2>3. r \in CatalogRequests
      BY <2>1, <2>2 DEF CatalogRequests, Unloaded, Lacking
  <2>4. QED
      BY <2>1, <2>3, <1>1, <1>3 DEF BeginAdopt
<1>4. ASSUME NEW k \in Kinds, BeginCustom(w, k) PROVE RegisterInv' /\ ExposedTyped'
  <2>1. PICK r : r = [op |-> "custom", kind |-> k, number |-> NextCustomCode(k)]
      OBVIOUS
  <2>2. NextCustomCode(k) \in Nat
    <3>1. Len(custom[k]) \in Nat
        BY DEF Inv, IInv, Shape
    <3>2. QED
        BY <3>1 DEF NextCustomCode
  <2>3. r \in CatalogRequests
      BY <2>1, <2>2 DEF CatalogRequests
  <2>4. QED
      BY <2>1, <2>3, <1>1, <1>4 DEF BeginCustom
<1>5. ASSUME NEW k \in Kinds, NEW c \in SeedCodes, BeginShelve(w, k, c)
      PROVE  RegisterInv' /\ ExposedTyped'
    BY <1>5, <1>1 DEF BeginShelve, CatalogRequests
<1>6. ASSUME NEW c \in SeedCodes, BeginEdit(w, c) PROVE RegisterInv' /\ ExposedTyped'
    BY <1>6, <1>1 DEF BeginEdit, CatalogRequests, Kinds
<1>7. ASSUME NEW k \in Kinds, NEW c \in SeedCodes, NEW i \in Items, BeginExpose(w, k, c, i)
      PROVE  RegisterInv' /\ ExposedTyped'
    BY <1>7, <1>1 DEF BeginExpose, CatalogRequests
<1>8. CASE CommitExpose(w)
  <2>1. req[w] \in Requests /\ req[w] # Idle /\ req[w].op = "expose"
      BY <1>8 DEF CommitExpose, ServingCatalog, Inv, RegisterInv, RegisterTyped
  <2>2. req[w].kind \in Kinds /\ <<req[w].code, req[w].item>> \in SeedCodes \X Items
      BY <2>1 DEF Requests, ItemRequests, CatalogRequests
  <2>3. ExposedTyped'
      BY <1>8, <2>2 DEF CommitExpose, Inv, ExposedTyped
  <2>4. QED
      BY <2>3, <1>2, <1>8 DEF CommitExpose
<1>9. CASE CommitAdopt(w) \/ CommitCustom(w) \/ CommitItem(w) \/ GiveUpOnCatalog(w)
  <2>1. AnswerCatalog(w) /\ UNCHANGED exposed
      BY <1>9 DEF CommitAdopt, CommitCustom, CommitItem, GiveUpOnCatalog, catalogVars
  <2>2. QED
      BY <2>1, <1>2 DEF Inv, ExposedTyped
<1>10. QED
    BY <1>3, <1>4, <1>5, <1>6, <1>7, <1>8, <1>9 DEF CatalogStep

\* Every step preserves catalogues and register.
LEMMA StepInv == Inv /\ [Next]_vars => Inv'
<1> SUFFICES ASSUME Inv, [Next]_vars PROVE Inv'
    OBVIOUS
<1>1. IInv'
    BY NextInv DEF Inv
<1>2. CASE UNCHANGED <<assetVars, exposed, req>>
    BY <1>1, <1>2, QuietStep DEF Inv, ExposedTyped, RegisterInv, RegisterTyped
<1>3. ASSUME NEW w \in Workers, AssetStep(w), UNCHANGED catalogVars PROVE Inv'
    BY <1>1, <1>3, RegisterStep DEF Inv, ExposedTyped, catalogVars
<1>4. ASSUME NEW w \in Workers, CatalogStep(w), UNCHANGED assetVars PROVE Inv'
    BY <1>1, <1>4, CatalogIsApart DEF Inv
<1>5. CASE Deploy
  <2>1. req' \in [Workers -> Requests] /\ \A v \in Workers : ~OnItems(v)'
      BY <1>5 DEF Deploy, OnItems, Requests
  <2>2. QED
      BY <1>1, <1>5, <2>1, QuietStep DEF Deploy, Inv, ExposedTyped
<1>6. QED
    BY <1>2, <1>3, <1>4, <1>5 DEF Next, vars, catalogVars, OtherAdopts

\* Catalogues and register are sound always.
LEMMA Invariant == Spec => []Inv
<1>1. Init => Inv
    BY InitInv, RegisterInit DEF Init, Inv, ExposedTyped
<1>2. QED
    BY <1>1, StepInv, PTL DEF Spec

----------------------------------------------------------------------------

\* However requests overlap, fail and follow deployments, every row keeps its
\* type and no two items share a code; while they do not overlap, every item
\* satisfies the rules of its scope and its criticality, and a duplicate name
\* is justified.
THEOREM SoundRegister == Spec => []RegisterIsSound
<1>1. Inv => TypeOK
  <2>1. Inv => seeded \in SUBSET SeedCodes
      BY SeedsGrow DEF Inv, IInv, Shape
  <2>2. QED
      BY <2>1 DEF Inv, IInv, Shape, RegisterInv, RegisterTyped, ExposedTyped, TypeOK, Requests
<1>2. Inv => ItemsAreConsistent
    BY DEF Inv, RegisterInv, SerialRegister, Present, ValidRow, ItemsAreConsistent
<1>3. Inv => DuplicatesAreExcused
    BY DEF Inv, RegisterInv, SerialRegister, Present, Apart, DuplicatesAreExcused
<1>4. Inv => RegisterIsSound
    BY <1>1, <1>2, <1>3 DEF Inv, RegisterInv, RegisterIsSound
<1>5. QED
    BY <1>4, Invariant, PTL

\* However updates overlap, the last word of an item's history on its scope and,
\* once it has changed, on its criticality is what the row says; while requests
\* do not overlap, it also tells how many links an item has to a target.
THEOREM HistoryTellsEverything == Spec => []HistoryTellsAll
<1>1. Inv => LinksAreTold
    BY DEF Inv, RegisterInv, SerialRegister, LinksAreTold
<1>2. Inv => HistoryTellsAll
    BY <1>1 DEF Inv, RegisterInv, HistoryTellsAll
<1>3. QED
    BY <1>2, Invariant, PTL

\* Whatever overlaps, fails or is deployed in between, an organization has
\* copied nothing of a seed or all of it, and its own items are numbered 1, 2,
\* 3, ...: a count is enough.
THEOREM NothingHalfAdopted == Spec => []CatalogIsWhole
<1>1. Inv => CatalogIsWhole
    BY DEF Inv, IInv, CatalogIsWhole
<1>2. QED
    BY <1>1, Invariant, PTL

\* A copy that is as edited and as archived as it was, if not more.
Keeps(old, new) ==
    /\ new # NoRow
    /\ old.edited => new.edited
    /\ old.archived => new.archived

\* No adoption, deployment or other step takes an edit, the archive or a link
\* back, or an item away.
THEOREM NothingTakenBack == Spec => AdoptionPreserves
<1> DEFINE Kept(k) ==
               /\ exposed[k] \subseteq exposed'[k]
               /\ \A c \in Copied(k) :
                      /\ adopted'[k][c] # NoRow
                      /\ adopted[k][c].edited => adopted'[k][c].edited
                      /\ adopted[k][c].archived => adopted'[k][c].archived
<1>1. Inv /\ [Next]_vars => \A k \in Kinds : Kept(k)
  <2> SUFFICES ASSUME Inv, [Next]_vars PROVE \A k \in Kinds : Kept(k)
      OBVIOUS
  <2> USE DEF Inv
  <2>1. CASE UNCHANGED <<adopted, exposed>>
      BY <2>1 DEF Copied
  <2>2. ASSUME NEW w \in Workers, CommitAdopt(w) PROVE \A k \in Kinds : Kept(k)
    <3>1. /\ req[w].kind \in Kinds /\ UNCHANGED exposed
        BY <2>2 DEF CommitAdopt, ServingCatalog, IInv, InFlight, Completes
    <3>2. ASSUME NEW k \in Kinds, NEW c \in Copied(k) PROVE adopted'[k][c] = adopted[k][c]
      <4> DEFINE r == req[w]
      <4>1. CASE UniqueKeys(r.kind, r.load, r.add)
        <5>1. adopted' = [adopted EXCEPT ![r.kind] =
                  [d \in SeedCodes |-> IF d \in r.add THEN NewRow ELSE @[d]]]
            BY <2>2, <4>1 DEF CommitAdopt
        <5>2. c \in SeedCodes /\ (k = r.kind => c \notin r.add)
            BY <3>2, <4>1 DEF UniqueKeys, Copied
        <5>3. QED
            BY <3>1, <5>1, <5>2 DEF IInv, Shape
      <4>2. CASE ~UniqueKeys(r.kind, r.load, r.add)
          BY <2>2, <4>2 DEF CommitAdopt
      <4>3. QED
          BY <4>1, <4>2
    <3>3. QED
        BY <3>1, <3>2 DEF Copied
  <2>3. ASSUME NEW w \in Workers, CommitItem(w) PROVE \A k \in Kinds : Kept(k)
    <3> DEFINE r == req[w]
               row == adopted[r.kind][r.code]
    <3>1. /\ r.kind \in Kinds /\ r.code \in Copied(r.kind) /\ UNCHANGED exposed
          /\ row \in CatalogRows
        BY <2>3 DEF CommitItem, ServingCatalog, IInv, InFlight, Shape, Copied
    <3>2. PICK new : /\ adopted' = [adopted EXCEPT ![r.kind][r.code] = new]
                     /\ new = [row EXCEPT !.edited = TRUE] \/ new = [row EXCEPT !.archived = TRUE]
        BY <2>3 DEF CommitItem
    <3>3. Keeps(row, new)
      <4>1. new \in CatalogRows
          BY <3>1, <3>2 DEF CatalogRows
      <4>2. (row.edited => new.edited) /\ (row.archived => new.archived)
          BY <3>1, <3>2 DEF CatalogRows
      <4>3. QED
          BY <4>1, <4>2, NullAssumption DEF Keeps
    <3>4. ASSUME NEW k \in Kinds, NEW c \in Copied(k)
          PROVE  Keeps(adopted[k][c], adopted'[k][c])
      <4>1. CASE k = r.kind /\ c = r.code
        <5>1. adopted'[k][c] = new /\ adopted[k][c] = row
            BY <3>1, <3>2, <4>1 DEF IInv, Shape, Copied
        <5>2. QED
            BY <5>1, <3>3
      <4>2. CASE ~(k = r.kind /\ c = r.code)
        <5>1. adopted'[k][c] = adopted[k][c] /\ adopted[k][c] # NoRow
            BY <3>1, <3>2, <3>4, <4>2 DEF IInv, Shape, Copied
        <5>2. QED
            BY <5>1 DEF Keeps
      <4>3. QED
          BY <4>1, <4>2
    <3>5. QED
        BY <3>1, <3>4 DEF Keeps
  <2>4. ASSUME NEW w \in Workers, CommitExpose(w) PROVE \A k \in Kinds : Kept(k)
    <3>1. adopted' = adopted
        BY <2>4 DEF CommitExpose
    <3>2. \A k \in Kinds : exposed[k] \subseteq exposed'[k]
      <4>1. PICK link : exposed' = [exposed EXCEPT ![req[w].kind] = @ \cup {link}]
          BY <2>4 DEF CommitExpose
      <4>2. exposed = [k \in Kinds |-> exposed[k]]
          BY DEF ExposedTyped
      <4>3. QED
          BY <4>1, <4>2
    <3>3. QED
        BY <3>1, <3>2 DEF Copied
  <2>5. CASE \E w \in Workers : AssetStep(w) /\ UNCHANGED catalogVars
      BY <2>1, <2>5 DEF catalogVars
  <2>6. CASE UNCHANGED vars \/ Deploy \/ OtherAdopts
      BY <2>1, <2>6 DEF vars, catalogVars, Deploy, OtherAdopts
  <2>7. ASSUME NEW w \in Workers, CatalogStep(w), ~CommitAdopt(w), ~CommitItem(w), ~CommitExpose(w)
        PROVE  UNCHANGED <<adopted, exposed>>
      BY <2>7 DEF CatalogStep, BeginAdopt, BeginCustom, BeginShelve, BeginExpose, BeginEdit,
         CommitCustom, GiveUpOnCatalog, BeginOnCatalog, catalogVars
  <2>8. QED
      BY <2>1, <2>2, <2>3, <2>4, <2>5, <2>6, <2>7 DEF Next
<1>2. QED
    BY <1>1, Invariant, PTL DEF Spec, AdoptionPreserves


----------------------------------------------------------------------------
(* Risks, their treatment and the statement.                               *)

PlanRequests == RiskRequests \cup SoaRequests

\* What has got a value keeps one.
Since(old, new) ==
    /\ old.prob # NoValue => new.prob # NoValue
    /\ old.impact # NoValue => new.impact # NoValue

\* A level is only given up for an impact off the scale.
KeepsLevel(old, new) ==
    old.level # NoValue /\ new.level = NoValue => new.impact \notin Scale

\* A level is one of a probability and an impact, and an assessed risk has both.
Levelled(row) ==
    /\ row \in RiskRows
    /\ row.level # NoValue => row.prob # NoValue /\ row.impact # NoValue
    /\ row.status \in {"assessed", "in_treatment"} =>
           row.prob # NoValue /\ row.impact # NoValue

\* A plan gives no risk as assessed that has not been rated.
Grounded(body) ==
    \A r \in Risks : body[r] # NoRow =>
        (body[r].status \in {"assessed", "in_treatment"} => body[r].rated)

\* The requests on a risk.
WorksOn(w, r) ==
    \/ AcceptRisk(w, r)
    \/ \E p \in Values, i \in Impacts, o \in BOOLEAN \cup {NoValue} : EvaluateRisk(w, r, p, i, o)
    \/ \E p, i \in Values, accepting \in BOOLEAN : SetTreatment(w, r, p, i, accepting)

AllComplete(its) == \A c \in Controls : its[c] # NoRow => Complete(its[c])

Backed(snapshot, n) ==
    /\ snapshot.kind = "normative" <=> snapshot.plan # 0
    /\ snapshot.plan \in 0 .. n

\* What a request has read and nothing takes back.
Brings(q) ==
    /\ q.op = "risk" =>
           /\ risks[q.risk] # NoRow /\ Levelled(q.loaded) /\ Levelled(q.row)
           /\ Since(q.loaded, q.row) /\ Since(q.loaded, risks[q.risk])
           /\ KeepsLevel(q.loaded, q.row)
    /\ q.op = "methodology" =>
           \A r \in Risks : q.loaded[r] # NoRow =>
               risks[r] # NoRow /\ Levelled(q.loaded[r]) /\ Since(q.loaded[r], risks[r])
    /\ q.op = "plan" => Grounded(q.body)
    /\ q.op = "consolidate" =>
           \A c \in Controls :
               /\ q.gap[c] # NoRow => gap[c] # NoRow
               /\ q.items[c] # NoRow => soaItems[c] # NoRow
    /\ q.op \in {"item", "reconcile"} => soaItems[q.control] # NoRow
    /\ q.op = "soa" =>
           /\ q.todo \in {<<"plan">>, <<>>} => AllComplete(q.snapshot.items)
           /\ q.todo = <<>> => Backed(q.snapshot, Len(plans))

\* What holds in every interleaving.
PlanInv ==
    /\ SoaTypeOK
    /\ \A r \in Risks : risks[r] # NoRow => Levelled(risks[r])
    /\ \A r \in Risks, c \in Controls : <<r, c>> \in controls => risks[r] # NoRow
    /\ \A c \in Controls : soaItems[c] # NoRow => gap[c] # NoRow
    /\ VersionsAreComplete /\ NormativeIsBacked
    /\ \A v \in DOMAIN plans : Grounded(plans[v])
    /\ \A w \in Workers : req[w] # Idle => Brings(req[w])

\* The columns of a request, by its operation.
LEMMA PlanFields ==
  ASSUME NEW q \in PlanRequests
  PROVE  /\ q.op = "risk" => q.risk \in Risks /\ q.loaded \in RiskRows /\ q.row \in RiskRows
         /\ q.op = "methodology" =>
                q.to \in Methodologies /\ q.loaded \in [Risks -> RiskRows \cup {NoRow}]
         /\ q.op = "plan" =>
                q.todo \in {<<"gate", "read">>, <<"read">>, <<>>} /\ q.body \in PlanBodies
         /\ q.op = "consolidate" =>
                /\ q.todo \in {<<"feed">>, <<>>} /\ q.gap \in Assessments
                /\ q.items \in Statements /\ q.feed \in Feeds
         /\ q.op = "reconcile" =>
                /\ q.todo \in {<<"feed">>, <<>>} /\ q.control \in Controls
                /\ q.loaded \in SoaRows /\ q.row \in SoaRows /\ q.feed \in Feeds
                /\ q.risk \in BOOLEAN
         /\ q.op = "item" =>
                q.control \in Controls /\ q.loaded \in SoaRows /\ q.row \in SoaRows
         /\ q.op = "soa" =>
                q.todo \in {<<"read", "plan">>, <<"plan">>, <<>>} /\ q.snapshot \in Snapshots
         /\ q.op \in {"risk", "methodology", "plan", "consolidate", "reconcile", "item", "soa"}
  BY DEF PlanRequests, RiskRequests, SoaRequests

\* What grows in every step.
PlanGrows ==
    /\ \A r \in Risks : risks[r] # NoRow => risks'[r] # NoRow /\ Since(risks[r], risks'[r])
    /\ \A c \in Controls : gap[c] # NoRow => gap'[c] # NoRow
    /\ \A c \in Controls : soaItems[c] # NoRow => soaItems'[c] # NoRow
    /\ Len(plans) <= Len(plans')

\* What a request brings it keeps as the tables grow.
LEMMA BringsKept ==
  ASSUME NEW q \in PlanRequests, Brings(q), PlanGrows, PlanInv, Len(plans') \in Nat
  PROVE  Brings(q)'
<1>1. CASE q.op = "risk"
  <2>1. q.risk \in Risks
    BY <1>1, PlanFields
  <2> QED
    BY <1>1, <2>1 DEF Brings, PlanGrows, Since, KeepsLevel
<1>2. CASE q.op = "methodology"
  BY <1>2 DEF Brings, PlanGrows, Since
<1>3. CASE q.op = "consolidate"
  BY <1>3 DEF Brings, PlanGrows
<1>4. CASE q.op \in {"item", "reconcile"}
  BY <1>4, PlanFields DEF Brings, PlanGrows
<1>5. CASE q.op = "soa"
  <2>1. q.snapshot.plan \in Nat
    BY <1>5, PlanFields DEF Snapshots
  <2>2. Len(plans) \in Nat
    BY DEF PlanInv, SoaTypeOK, RiskTypeOK
  <2>3. q.todo = <<>> => Backed(q.snapshot, Len(plans'))
    BY <1>5, <2>1, <2>2 DEF Brings, PlanGrows, Backed
  <2> QED
    BY <1>5, <2>3 DEF Brings
<1>6. CASE q.op = "plan"
  BY <1>6 DEF Brings, Grounded
<1> QED
  BY <1>1, <1>2, <1>3, <1>4, <1>5, <1>6, PlanFields

\* A table of rows does not lose its type to an UPDATE.
LEMMA UpdatedRow ==
  ASSUME NEW cur \in RiskRows, NEW old \in RiskRows, NEW new \in RiskRows
  PROVE  /\ Updated(cur, old, new) \in RiskRows
         /\ \A c \in {"status", "archived", "owner", "prob", "impact", "level", "rprob",
                      "rimpact", "rlevel"} :
                Updated(cur, old, new)[c] = Column(cur[c], old[c], new[c])
<1> DEFINE Columns == {"status", "archived", "owner", "prob", "impact", "level", "rprob",
                       "rimpact", "rlevel"}
<1>1. DOMAIN cur = Columns
  BY DEF RiskRows
<1>2. Updated(cur, old, new) = [c \in Columns |-> Column(cur[c], old[c], new[c])]
  BY <1>1 DEF Updated
<1>3. \A c \in Columns : Updated(cur, old, new)[c] = Column(cur[c], old[c], new[c])
  BY <1>2
<1>4. Updated(cur, old, new) =
        [status |-> Column(cur.status, old.status, new.status),
         archived |-> Column(cur.archived, old.archived, new.archived),
         owner |-> Column(cur.owner, old.owner, new.owner),
         prob |-> Column(cur.prob, old.prob, new.prob),
         impact |-> Column(cur.impact, old.impact, new.impact),
         level |-> Column(cur.level, old.level, new.level),
         rprob |-> Column(cur.rprob, old.rprob, new.rprob),
         rimpact |-> Column(cur.rimpact, old.rimpact, new.rimpact),
         rlevel |-> Column(cur.rlevel, old.rlevel, new.rlevel)]
  BY <1>2
<1>5. /\ Column(cur.status, old.status, new.status) \in Status
      /\ Column(cur.archived, old.archived, new.archived) \in BOOLEAN
      /\ Column(cur.owner, old.owner, new.owner) \in BOOLEAN
      /\ Column(cur.prob, old.prob, new.prob) \in Values
      /\ Column(cur.impact, old.impact, new.impact) \in Impacts
      /\ Column(cur.level, old.level, new.level) \in RiskLevels \cup {NoValue}
      /\ Column(cur.rprob, old.rprob, new.rprob) \in Values
      /\ Column(cur.rimpact, old.rimpact, new.rimpact) \in Values
      /\ Column(cur.rlevel, old.rlevel, new.rlevel) \in RiskLevels \cup {NoValue}
  BY DEF Column, RiskRows
<1> QED
  BY <1>3, <1>4, <1>5 DEF RiskRows

\* An UPDATE by a request that started from a row with less leaves a level of
\* what it is computed from.
LEMMA UpdatedLevel ==
  ASSUME NEW cur \in RiskRows, NEW old \in RiskRows, NEW new \in RiskRows,
         Levelled(cur), Levelled(old), Levelled(new), Since(old, new), Since(old, cur)
  PROVE  Levelled(Updated(cur, old, new)) /\ Since(cur, Updated(cur, old, new))
<1> PICK up : up = Updated(cur, old, new)
  OBVIOUS
<1>1. /\ up \in RiskRows
      /\ up.status = Column(cur.status, old.status, new.status)
      /\ up.prob = Column(cur.prob, old.prob, new.prob)
      /\ up.impact = Column(cur.impact, old.impact, new.impact)
      /\ up.level = Column(cur.level, old.level, new.level)
  BY UpdatedRow
<1>2. Levelled(up)
  BY <1>1 DEF Levelled, Since, Column
<1>3. Since(cur, up)
  BY <1>1 DEF Since, Column
<1> QED
  BY <1>2, <1>3

\* A level is one of the methodology's: there is one for what is on the scale,
\* and none without a probability and an impact.
LEMMA LevelOfIs ==
  ASSUME NEW m \in Methodologies, NEW p, NEW i
  PROVE  /\ LevelOf(m, p, i) \in RiskLevels \cup {NoValue}
         /\ LevelOf(m, p, i) # NoValue => p # NoValue /\ i # NoValue
         /\ p \in Scale /\ i \in Scale => LevelOf(m, p, i) # NoValue
<1>1. CASE <<p, i>> \in Scale \X Scale
  <2>1. Matrix[m][<<p, i>>] \in RiskLevels
    BY <1>1, RiskAssumption
  <2>2. p \in Scale /\ i \in Scale
    BY <1>1
  <2>3. NoValue \notin RiskLevels /\ NoValue \notin Scale
    BY RiskAssumption
  <2> QED
    BY <1>1, <2>1, <2>2, <2>3 DEF LevelOf
<1>2. CASE <<p, i>> \notin Scale \X Scale
  BY <1>2 DEF LevelOf
<1> QED
  BY <1>1, <1>2

\* A risk is classified by a methodology, before and after treatment.
Classified(row, m) ==
    /\ row.level = LevelOf(m, row.prob, row.impact)
    /\ row.rlevel = LevelOf(m, row.rprob, row.rimpact)

\* A row that only differs in what an evaluation sets.
LEMMA EvaluatedRow ==
  ASSUME NEW old \in RiskRows, Levelled(old), methodology \in Methodologies,
         NEW p \in Values, NEW i \in Impacts, NEW o \in BOOLEAN \cup {NoValue}
  PROVE  /\ Levelled(Evaluated(old, p, i, o))
         /\ Since(old, Evaluated(old, p, i, o)) /\ KeepsLevel(old, Evaluated(old, p, i, o))
         /\ Classified(old, methodology) => Classified(Evaluated(old, p, i, o), methodology)
<1> PICK np : np = Sent(p, old.prob)
  OBVIOUS
<1> PICK ni : ni = Sent(i, old.impact)
  OBVIOUS
<1> PICK no : no = Sent(o, old.owner)
  OBVIOUS
<1> PICK ns : ns = IF NoValue \notin {np, ni} /\ no /\ old.status = "identified"
                   THEN "assessed" ELSE old.status
  OBVIOUS
<1>1. np \in Values /\ ni \in Impacts
  BY DEF Sent, RiskRows
<1>2. no \in BOOLEAN
  BY Zenon DEF Sent, RiskRows
<1>3. (old.prob # NoValue => np # NoValue) /\ (old.impact # NoValue => ni # NoValue)
  BY DEF Sent
<1>4. ns \in Status /\ (ns # old.status => ns = "assessed" /\ np # NoValue /\ ni # NoValue)
  BY DEF Status, RiskRows
<1> PICK nl : nl = LevelOf(methodology, np, ni)
  OBVIOUS
<1>5. /\ nl \in RiskLevels \cup {NoValue}
      /\ nl # NoValue => np # NoValue /\ ni # NoValue
      /\ np \in Scale /\ ni \in Scale => nl # NoValue
  BY LevelOfIs
<1> PICK new : new = [old EXCEPT !.prob = np, !.impact = ni, !.owner = no, !.level = nl,
                                 !.status = ns]
  OBVIOUS
<1>6. new = Evaluated(old, p, i, o)
  BY DEF Evaluated
<1>7. /\ new \in RiskRows
      /\ new.prob = np /\ new.impact = ni /\ new.level = nl /\ new.status = ns
      /\ new.rprob = old.rprob /\ new.rimpact = old.rimpact /\ new.rlevel = old.rlevel
  BY <1>1, <1>2, <1>4, <1>5 DEF RiskRows
<1>8. Since(old, new) /\ KeepsLevel(old, new)
  <2>1. old.level # NoValue => np \in Scale
    BY <1>1, <1>3 DEF Levelled, Values
  <2> QED
    BY <1>3, <1>5, <1>7, <2>1 DEF Since, KeepsLevel
<1>9. Levelled(new)
  BY <1>3, <1>4, <1>5, <1>7 DEF Levelled
<1>10. Classified(old, methodology) => Classified(new, methodology)
  BY <1>7 DEF Classified
<1> QED
  BY <1>6, <1>8, <1>9, <1>10

\* A row that only differs in what a treatment sets.
Treated(old, p, i, s) ==
    [old EXCEPT !.rprob = p, !.rimpact = i, !.rlevel = LevelOf(methodology, p, i), !.status = s]

\* A treatment computes the level that remains, and starts what was assessed.
LEMMA TreatedRow ==
  ASSUME NEW old \in RiskRows, Levelled(old), methodology \in Methodologies,
         NEW p \in Values, NEW i \in Values, NEW s \in Status,
         s = old.status \/ (s = "in_treatment" /\ old.status = "assessed")
  PROVE  /\ Levelled(Treated(old, p, i, s)) /\ Since(old, Treated(old, p, i, s))
         /\ KeepsLevel(old, Treated(old, p, i, s))
         /\ Classified(old, methodology) => Classified(Treated(old, p, i, s), methodology)
<1> PICK new : new = Treated(old, p, i, s)
  OBVIOUS
<1> PICK nl : nl = LevelOf(methodology, p, i)
  OBVIOUS
<1>1. nl \in RiskLevels \cup {NoValue}
  BY LevelOfIs
<1>2. /\ new \in RiskRows
      /\ new.prob = old.prob /\ new.impact = old.impact /\ new.level = old.level
      /\ new.status = s /\ new.rprob = p /\ new.rimpact = i /\ new.rlevel = nl
  BY <1>1 DEF RiskRows, Treated
<1>3. Levelled(new)
  BY <1>2 DEF Levelled
<1>4. /\ Since(old, new) /\ KeepsLevel(old, new)
      /\ Classified(old, methodology) => Classified(new, methodology)
  BY <1>2 DEF Since, KeepsLevel, Classified
<1> QED
  BY <1>3, <1>4

\* A row that only differs in that the risk is accepted.
LEMMA AcceptedRow ==
  ASSUME NEW old \in RiskRows, Levelled(old), NEW new,
         new = [old EXCEPT !.status = "accepted"]
  PROVE  /\ Levelled(new) /\ Since(old, new) /\ KeepsLevel(old, new)
         /\ \A m : Classified(old, m) => Classified(new, m)
<1>1. /\ new \in RiskRows
      /\ new.prob = old.prob /\ new.impact = old.impact /\ new.level = old.level
      /\ new.status = "accepted" /\ new.rprob = old.rprob /\ new.rimpact = old.rimpact
      /\ new.rlevel = old.rlevel
  BY DEF RiskRows, Status
<1> QED
  BY <1>1 DEF Levelled, Since, KeepsLevel, Classified

\* A change of methodology computes every level again.
LEMMA RecomputedRow ==
  ASSUME NEW old \in RiskRows, Levelled(old), NEW m \in Methodologies
  PROVE  /\ Levelled(Recomputed(old, m)) /\ Since(old, Recomputed(old, m))
         /\ KeepsLevel(old, Recomputed(old, m)) /\ Recomputed(old, m).impact = old.impact
         /\ Classified(Recomputed(old, m), m)
<1> PICK nl : nl = LevelOf(m, old.prob, old.impact)
  OBVIOUS
<1> PICK nr : nr = LevelOf(m, old.rprob, old.rimpact)
  OBVIOUS
<1>1. /\ nl \in RiskLevels \cup {NoValue} /\ nr \in RiskLevels \cup {NoValue}
      /\ nl # NoValue => old.prob # NoValue /\ old.impact # NoValue
      /\ old.prob \in Scale /\ old.impact \in Scale => nl # NoValue
  BY LevelOfIs
<1> PICK new : new = [old EXCEPT !.level = nl, !.rlevel = nr]
  OBVIOUS
<1>2. new = Recomputed(old, m)
  BY DEF Recomputed
<1>3. /\ new \in RiskRows
      /\ new.prob = old.prob /\ new.impact = old.impact /\ new.level = nl
      /\ new.status = old.status /\ new.rprob = old.rprob /\ new.rimpact = old.rimpact
      /\ new.rlevel = nr
  BY <1>1 DEF RiskRows
<1>4. Levelled(new)
  BY <1>1, <1>3 DEF Levelled
<1>5. Since(old, new) /\ KeepsLevel(old, new)
  <2>1. old.level # NoValue => old.prob \in Scale
    BY DEF Levelled, RiskRows, Values
  <2> QED
    BY <1>1, <1>3, <2>1 DEF Since, KeepsLevel
<1>6. Classified(new, m)
  BY <1>3 DEF Classified
<1> QED
  BY <1>2, <1>3, <1>4, <1>5, <1>6

\* A risk when it is identified.
LEMMA NewRiskRow == NewRisk \in RiskRows /\ Levelled(NewRisk)
                    /\ \A m : Classified(NewRisk, m)
<1>1. NewRisk \in RiskRows
  BY DEF NewRisk, RiskRows, Status, Values, Impacts
<1>2. Levelled(NewRisk)
  BY <1>1 DEF NewRisk, Levelled
<1>3. \A m : Classified(NewRisk, m)
  <2>1. <<NoValue, NoValue>> \notin Scale \X Scale
    BY RiskAssumption
  <2> QED
    BY <2>1 DEF NewRisk, Classified, LevelOf
<1> QED
  BY <1>1, <1>2, <1>3

\* An item of the statement does not lose its type to an UPDATE.
LEMMA UpdatedItem ==
  ASSUME NEW cur \in SoaRows, NEW old \in SoaRows, NEW new \in SoaRows
  PROVE  /\ Updated(cur, old, new) \in SoaRows
         /\ cur = old => Updated(cur, old, new) = new
<1>1. DOMAIN cur = {"applicable", "reasons", "justified", "links"}
  BY DEF SoaRows
<1>2. Updated(cur, old, new) =
        [applicable |-> Column(cur.applicable, old.applicable, new.applicable),
         reasons |-> Column(cur.reasons, old.reasons, new.reasons),
         justified |-> Column(cur.justified, old.justified, new.justified),
         links |-> Column(cur.links, old.links, new.links)]
  BY <1>1 DEF Updated
<1>3. /\ Column(cur.applicable, old.applicable, new.applicable) \in BOOLEAN
      /\ Column(cur.reasons, old.reasons, new.reasons) \in SUBSET Reasons
      /\ Column(cur.justified, old.justified, new.justified) \in BOOLEAN
      /\ Column(cur.links, old.links, new.links) \in SUBSET Risks
  BY DEF Column, SoaRows
<1>4. cur = old => /\ Column(cur.applicable, old.applicable, new.applicable) = new.applicable
                   /\ Column(cur.reasons, old.reasons, new.reasons) = new.reasons
                   /\ Column(cur.justified, old.justified, new.justified) = new.justified
                   /\ Column(cur.links, old.links, new.links) = new.links
  BY DEF Column
<1>5. new = [applicable |-> new.applicable, reasons |-> new.reasons,
             justified |-> new.justified, links |-> new.links]
  BY DEF SoaRows
<1>6. cur = old => Updated(cur, old, new) = new
  BY <1>2, <1>4, <1>5
<1> QED
  BY <1>2, <1>3, <1>6 DEF SoaRows

\* What an item is made of at consolidation.
LEMMA ConsolidatedRow ==
  ASSUME NEW item \in SoaRows, NEW feed \in SUBSET Risks
  PROVE  /\ IncludedForRisks(item, feed) \in SoaRows
         /\ item.reasons \subseteq IncludedForRisks(item, feed).reasons
         /\ item.links # {} => IncludedForRisks(item, feed) = item
<1> PICK new : new = [item EXCEPT !.reasons = item.reasons \cup {"risk_treatment"},
                                  !.applicable = TRUE, !.links = feed]
  OBVIOUS
<1>1. new \in SoaRows /\ new.reasons = item.reasons \cup {"risk_treatment"}
  BY DEF SoaRows, Reasons
<1>2. IncludedForRisks(item, feed) \in {item, new}
  BY DEF IncludedForRisks
<1>3. item.links # {} => IncludedForRisks(item, feed) = item
  BY DEF IncludedForRisks
<1> QED
  BY <1>1, <1>2, <1>3

\* The item that an assessment makes.
LEMMA AssessedRow ==
  ASSUME NEW row \in GapRows
  PROVE  FromGap(row) \in SoaRows
<1>1. row.applicable \in BOOLEAN /\ (~row.applicable /\ row.justified) \in BOOLEAN
  BY DEF GapRows
<1> QED
  BY <1>1 DEF FromGap, SoaRows

\* The item that takes the assessment's values.
LEMMA ReassessedRow ==
  ASSUME NEW item \in SoaRows, NEW row \in GapRows, NEW fields \in SUBSET Fields
  PROVE  /\ FromAssessment(item, row, fields) \in SoaRows
         /\ FromAssessment(item, row, fields).reasons = item.reasons
         /\ FromAssessment(item, row, fields).links = item.links
<1> PICK a : a = IF "applicable" \in fields THEN row.applicable ELSE item.applicable
  OBVIOUS
<1> PICK j : j = IF "justified" \in fields THEN row.justified ELSE item.justified
  OBVIOUS
<1>1. a \in BOOLEAN /\ j \in BOOLEAN
  BY DEF GapRows, SoaRows
<1> PICK new : new = [item EXCEPT !.applicable = a, !.justified = j]
  OBVIOUS
<1>2. new = FromAssessment(item, row, fields)
  BY DEF FromAssessment
<1>3. new \in SoaRows /\ new.reasons = item.reasons /\ new.links = item.links
  BY <1>1 DEF SoaRows
<1> QED
  BY <1>2, <1>3

\* The item that is reconciled with the risks: it names them, and keeps the
\* reasons that are not the treatment of risks.
LEMMA ReconciledRow ==
  ASSUME NEW item \in SoaRows, NEW feed \in SUBSET Risks
  PROVE  /\ FromRisks(item, feed) \in SoaRows
         /\ item.reasons \ {"risk_treatment"} \subseteq FromRisks(item, feed).reasons
         /\ feed = {} => /\ "risk_treatment" \notin FromRisks(item, feed).reasons
                         /\ FromRisks(item, feed).links = {}
         /\ feed # {} => /\ FromRisks(item, feed).applicable
                         /\ "risk_treatment" \in FromRisks(item, feed).reasons
                         /\ FromRisks(item, feed).links = feed
<1>1. CASE feed = {}
  <2> PICK new : new = [item EXCEPT !.reasons = item.reasons \ {"risk_treatment"}, !.links = {}]
    OBVIOUS
  <2>1. new = FromRisks(item, feed)
    BY <1>1 DEF FromRisks
  <2>2. /\ new \in SoaRows /\ new.reasons = item.reasons \ {"risk_treatment"}
        /\ new.links = {}
    BY DEF SoaRows, Reasons
  <2> QED
    BY <1>1, <2>1, <2>2
<1>2. CASE feed # {}
  <2> PICK new : new = [item EXCEPT !.reasons = item.reasons \cup {"risk_treatment"},
                                    !.applicable = TRUE, !.links = feed]
    OBVIOUS
  <2>1. new = FromRisks(item, feed)
    BY <1>2 DEF FromRisks
  <2>2. /\ new \in SoaRows /\ new.reasons = item.reasons \cup {"risk_treatment"}
        /\ new.applicable = TRUE /\ new.links = feed
    BY DEF SoaRows, Reasons
  <2> QED
    BY <1>2, <2>1, <2>2
<1> QED
  BY <1>1, <1>2

\* The history is TRUE or FALSE.
LEMMA OverlapTyped ==
  ASSUME NEW w, Overlap(w)
  PROVE  overlapped' \in BOOLEAN
<1> PICK o : o = (overlapped \/ \E v \in Workers \ {w} : req[v] # Idle)
  OBVIOUS
<1>1. o \in BOOLEAN
  BY Zenon
<1>2. overlapped' = o
  BY DEF Overlap
<1> QED
  BY <1>1, <1>2

\* A step that only moves the request of a thread, or takes one.
LEMMA ThreadMoves ==
  ASSUME PlanInv, NEW w \in Workers, NEW r \in PlanRequests \cup {Idle},
         req' = [req EXCEPT ![w] = r], Overlap(w), UNCHANGED <<riskVars, soaVars>>,
         r # Idle => Brings(r)
  PROVE  PlanInv'
<1>1. /\ methodology' = methodology /\ risks' = risks /\ controls' = controls
      /\ plan' = plan /\ plans' = plans /\ gap' = gap /\ soa' = soa /\ soaItems' = soaItems
      /\ versions' = versions
  BY DEF riskVars, soaVars
<1>2. SoaTypeOK'
  <2>1. RiskTypeOK'
    BY <1>1 DEF PlanInv, SoaTypeOK, RiskTypeOK
  <2>2. req' \in [Workers -> RiskRequests \cup SoaRequests \cup {Idle}]
    BY DEF PlanInv, SoaTypeOK, PlanRequests
  <2> QED
    BY <1>1, <2>1, <2>2, OverlapTyped DEF PlanInv, SoaTypeOK
<1>3. VersionsAreComplete' /\ NormativeIsBacked'
  BY <1>1 DEF PlanInv, VersionsAreComplete, NormativeIsBacked
<1>4. ASSUME NEW v \in Workers, req'[v] # Idle
      PROVE  Brings(req[v])'
  <2> PICK q : q = req'[v]
    OBVIOUS
  <2>1. Brings(q)
    BY <1>4 DEF PlanInv, SoaTypeOK
  <2>2. Brings(q)'
    BY <1>1, <2>1 DEF Brings, Levelled, Since, KeepsLevel, Grounded, Backed, AllComplete
  <2> QED
    BY <2>2
<1> QED
  BY <1>1, <1>2, <1>3, <1>4 DEF PlanInv, Levelled, Grounded

\* A step that leaves the requests of the other threads alone, and ends at most
\* that of one.
LEMMA TablesMove ==
  ASSUME PlanInv, PlanGrows, Len(plans') \in Nat, NEW w \in Workers,
         Answer(w) \/ UNCHANGED req
  PROVE  /\ req' \in [Workers -> RiskRequests \cup SoaRequests \cup {Idle}]
         /\ \A v \in Workers : req'[v] # Idle => Brings(req[v])'
<1>1. req' \in [Workers -> RiskRequests \cup SoaRequests \cup {Idle}]
  BY DEF PlanInv, SoaTypeOK, Answer
<1>2. ASSUME NEW v \in Workers, req'[v] # Idle
      PROVE  Brings(req[v])'
  <2>1. req'[v] = req[v] /\ req[v] \in PlanRequests
    BY <1>2 DEF PlanInv, SoaTypeOK, Answer, PlanRequests
  <2> PICK q : q = req'[v]
    OBVIOUS
  <2>2. Brings(q)
    BY <1>2, <2>1 DEF PlanInv
  <2>3. Brings(q)'
    BY <2>1, <2>2, BringsKept
  <2> QED
    BY <2>3
<1> QED
  BY <1>1, <1>2

\* A step on the risks and their controls.
LEMMA RisksMove ==
  ASSUME PlanInv, NEW w \in Workers, Answer(w) \/ UNCHANGED req, Overlap(w),
         UNCHANGED <<plan, plans, soaVars>>, methodology' \in Methodologies,
         risks' \in [Risks -> RiskRows \cup {NoRow}],
         \A r \in Risks : risks'[r] # NoRow => Levelled(risks'[r]),
         \A r \in Risks :
             risks[r] # NoRow => risks'[r] # NoRow /\ Since(risks[r], risks'[r]),
         controls' \in SUBSET (Risks \X Controls),
         \A r \in Risks, c \in Controls : <<r, c>> \in controls' => risks'[r] # NoRow
  PROVE  PlanInv'
<1>1. /\ plan' = plan /\ plans' = plans /\ gap' = gap /\ soa' = soa /\ soaItems' = soaItems
      /\ versions' = versions
  BY DEF soaVars
<1>2. Len(plans') \in Nat /\ Len(plans) <= Len(plans')
  BY <1>1 DEF PlanInv, SoaTypeOK, RiskTypeOK
<1>3. PlanGrows
  BY <1>1, <1>2 DEF PlanGrows
<1>4. /\ req' \in [Workers -> RiskRequests \cup SoaRequests \cup {Idle}]
      /\ \A v \in Workers : req'[v] # Idle => Brings(req[v])'
  BY <1>2, <1>3, TablesMove
<1>5. SoaTypeOK'
  <2>1. RiskTypeOK'
    BY <1>1 DEF PlanInv, SoaTypeOK, RiskTypeOK
  <2> QED
    BY <1>1, <1>4, <2>1, OverlapTyped DEF PlanInv, SoaTypeOK
<1>6. VersionsAreComplete' /\ NormativeIsBacked'
  BY <1>1 DEF PlanInv, VersionsAreComplete, NormativeIsBacked
<1> QED
  BY <1>1, <1>4, <1>5, <1>6 DEF PlanInv, Grounded

\* A step on the treatment plan.
LEMMA PlanMoves ==
  ASSUME PlanInv, NEW w \in Workers, Answer(w) \/ UNCHANGED req, Overlap(w),
         UNCHANGED <<methodology, risks, controls, soaVars>>,
         plans' \in Seq(PlanBodies), Len(plans) <= Len(plans'),
         \A v \in DOMAIN plans' : Grounded(plans'[v]),
         plan' \in [draft : Drafts, current : 0 .. Len(plans')]
  PROVE  PlanInv'
<1>1. /\ methodology' = methodology /\ risks' = risks /\ controls' = controls
      /\ gap' = gap /\ soa' = soa /\ soaItems' = soaItems /\ versions' = versions
  BY DEF soaVars
<1>2. Len(plans') \in Nat /\ Len(plans) \in Nat
  BY DEF PlanInv, SoaTypeOK, RiskTypeOK
<1>3. PlanGrows
  BY <1>1 DEF PlanGrows, Since
<1>4. /\ req' \in [Workers -> RiskRequests \cup SoaRequests \cup {Idle}]
      /\ \A v \in Workers : req'[v] # Idle => Brings(req[v])'
  BY <1>2, <1>3, TablesMove
<1>5. SoaTypeOK'
  <2>1. RiskTypeOK'
    BY <1>1 DEF PlanInv, SoaTypeOK, RiskTypeOK
  <2> QED
    BY <1>1, <1>4, <2>1, OverlapTyped DEF PlanInv, SoaTypeOK
<1>6. VersionsAreComplete'
  BY <1>1 DEF PlanInv, VersionsAreComplete
<1>7. NormativeIsBacked'
  <2> SUFFICES ASSUME NEW v \in DOMAIN versions'
               PROVE  /\ versions'[v].kind = "normative" <=> versions'[v].plan # 0
                      /\ versions'[v].plan \in 0 .. Len(plans')
    BY DEF NormativeIsBacked
  <2>1. /\ versions[v].kind = "normative" <=> versions[v].plan # 0
        /\ versions[v].plan \in 0 .. Len(plans)
    BY <1>1 DEF PlanInv, NormativeIsBacked
  <2>2. versions[v].plan \in 0 .. Len(plans')
    BY <1>2, <2>1
  <2> QED
    BY <1>1, <2>1, <2>2
<1> QED
  BY <1>1, <1>4, <1>5, <1>6, <1>7 DEF PlanInv, Levelled, Grounded

\* A step on the assessment and the statement.
LEMMA StatementMoves ==
  ASSUME PlanInv, NEW w \in Workers, Answer(w) \/ UNCHANGED req, Overlap(w),
         UNCHANGED riskVars, gap' \in Assessments, soaItems' \in Statements,
         \A c \in Controls : gap[c] # NoRow => gap'[c] # NoRow,
         \A c \in Controls : soaItems[c] # NoRow => soaItems'[c] # NoRow,
         \A c \in Controls : soaItems'[c] # NoRow => gap'[c] # NoRow,
         versions' \in Seq(Snapshots), VersionsAreComplete', NormativeIsBacked',
         soa' \in [draft : Drafts, current : 0 .. Len(versions')] \cup {NoRow}
  PROVE  PlanInv'
<1>1. /\ methodology' = methodology /\ risks' = risks /\ controls' = controls
      /\ plan' = plan /\ plans' = plans
  BY DEF riskVars
<1>2. Len(plans') \in Nat /\ Len(plans) <= Len(plans')
  BY <1>1 DEF PlanInv, SoaTypeOK, RiskTypeOK
<1>3. PlanGrows
  BY <1>1, <1>2 DEF PlanGrows, Since
<1>4. /\ req' \in [Workers -> RiskRequests \cup SoaRequests \cup {Idle}]
      /\ \A v \in Workers : req'[v] # Idle => Brings(req[v])'
  BY <1>2, <1>3, TablesMove
<1>5. SoaTypeOK'
  <2>1. RiskTypeOK'
    BY <1>1 DEF PlanInv, SoaTypeOK, RiskTypeOK
  <2> QED
    BY <1>1, <1>4, <2>1, OverlapTyped DEF PlanInv, SoaTypeOK
<1> QED
  BY <1>1, <1>4, <1>5 DEF PlanInv, Levelled, Grounded

\* What the invariant says of a risk that is there.
LEMMA RiskThere ==
  ASSUME PlanInv, NEW r \in Risks, risks[r] # NoRow
  PROVE  risks[r] \in RiskRows /\ Levelled(risks[r])
BY DEF PlanInv, SoaTypeOK, RiskTypeOK

\* A row that nothing has changed keeps what it has.
LEMMA SinceItself == \A row : Since(row, row)
BY DEF Since

\* A risk is identified.
LEMMA CreateRiskKeeps ==
  ASSUME PlanInv, NEW w \in Workers, NEW r \in Risks, CreateRisk(w, r), UNCHANGED soaVars
  PROVE  PlanInv'
<1>1. risks' \in [Risks -> RiskRows \cup {NoRow}]
  BY NewRiskRow DEF CreateRisk, PlanInv, SoaTypeOK, RiskTypeOK
<1>2. ASSUME NEW s \in Risks
      PROVE  /\ risks'[s] # NoRow => Levelled(risks'[s])
             /\ risks[s] # NoRow => risks'[s] # NoRow /\ Since(risks[s], risks'[s])
  BY NewRiskRow, RiskThere, SinceItself DEF CreateRisk, PlanInv, SoaTypeOK, RiskTypeOK
<1>3. /\ methodology' = methodology /\ controls' = controls /\ plan' = plan /\ plans' = plans
      /\ UNCHANGED req /\ Overlap(w)
  BY DEF CreateRisk, AtOnce
<1>4. \A s \in Risks, c \in Controls : <<s, c>> \in controls' => risks'[s] # NoRow
  BY <1>2, <1>3 DEF PlanInv
<1>5. methodology' \in Methodologies /\ controls' \in SUBSET (Risks \X Controls)
  BY <1>3 DEF PlanInv, SoaTypeOK, RiskTypeOK
<1> QED
  BY <1>1, <1>2, <1>3, <1>4, <1>5, RisksMove

\* A risk is archived.
LEMMA ArchiveRiskKeeps ==
  ASSUME PlanInv, NEW w \in Workers, NEW r \in Risks, ArchiveRisk(w, r), UNCHANGED soaVars
  PROVE  PlanInv'
<1>1. risks[r] \in RiskRows /\ Levelled(risks[r])
  BY RiskThere DEF ArchiveRisk
<1> PICK new : new = [risks[r] EXCEPT !.archived = TRUE]
  OBVIOUS
<1>2. new \in RiskRows /\ Levelled(new) /\ Since(risks[r], new)
  <2>1. /\ new \in RiskRows /\ new.prob = risks[r].prob /\ new.impact = risks[r].impact
        /\ new.level = risks[r].level /\ new.status = risks[r].status
    BY <1>1 DEF RiskRows
  <2> QED
    BY <1>1, <2>1 DEF Levelled, Since
<1>3. risks' = [risks EXCEPT ![r] = new]
  BY DEF ArchiveRisk
<1>4. new # NoRow
  BY <1>2, NoRiskAssumption
<1>5. risks' \in [Risks -> RiskRows \cup {NoRow}]
  BY <1>2, <1>3 DEF PlanInv, SoaTypeOK, RiskTypeOK
<1>6. ASSUME NEW s \in Risks
      PROVE  /\ risks'[s] # NoRow => Levelled(risks'[s])
             /\ risks[s] # NoRow => risks'[s] # NoRow /\ Since(risks[s], risks'[s])
  BY <1>2, <1>3, <1>4, RiskThere, SinceItself DEF PlanInv, SoaTypeOK, RiskTypeOK
<1>7. /\ methodology' = methodology /\ controls' = controls /\ plan' = plan /\ plans' = plans
      /\ UNCHANGED req /\ Overlap(w)
  BY DEF ArchiveRisk, AtOnce
<1>8. \A s \in Risks, c \in Controls : <<s, c>> \in controls' => risks'[s] # NoRow
  BY <1>6, <1>7 DEF PlanInv
<1>9. methodology' \in Methodologies /\ controls' \in SUBSET (Risks \X Controls)
  BY <1>7 DEF PlanInv, SoaTypeOK, RiskTypeOK
<1> QED
  BY <1>5, <1>6, <1>7, <1>8, <1>9, RisksMove

\* A request on a risk is taken, with the row that it will write.
LEMMA RiskTaken ==
  ASSUME PlanInv, NEW w \in Workers, NEW r \in Risks, risks[r] # NoRow,
         NEW row, Levelled(row), Since(risks[r], row), KeepsLevel(risks[r], row),
         Begin(w, [op |-> "risk", risk |-> r, loaded |-> risks[r], row |-> row]),
         UNCHANGED soaVars
  PROVE  PlanInv'
<1> PICK q : q = [op |-> "risk", risk |-> r, loaded |-> risks[r], row |-> row]
  OBVIOUS
<1>1. risks[r] \in RiskRows /\ Levelled(risks[r]) /\ row \in RiskRows
  BY RiskThere DEF Levelled
<1>2. q \in PlanRequests
  BY <1>1 DEF PlanRequests, RiskRequests
<1>3. Brings(q)
  BY <1>1, SinceItself DEF Brings
<1>4. req' = [req EXCEPT ![w] = q] /\ Overlap(w) /\ UNCHANGED <<riskVars, soaVars>>
  BY DEF Begin
<1> QED
  BY <1>2, <1>3, <1>4, ThreadMoves

\* A risk is evaluated, treated or accepted: what is written is of the
\* methodology in use, if what was read is.
LEMMA RiskWork ==
  ASSUME PlanInv, NEW w \in Workers, NEW r \in Risks, WorksOn(w, r)
  PROVE  /\ risks[r] # NoRow
         /\ \E row :
                /\ Levelled(row) /\ Since(risks[r], row) /\ KeepsLevel(risks[r], row)
                /\ Classified(risks[r], methodology) => Classified(row, methodology)
                /\ Begin(w, [op |-> "risk", risk |-> r, loaded |-> risks[r], row |-> row])
<1> DEFINE Taken(row) ==
        /\ Levelled(row) /\ Since(risks[r], row) /\ KeepsLevel(risks[r], row)
        /\ Classified(risks[r], methodology) => Classified(row, methodology)
        /\ Begin(w, [op |-> "risk", risk |-> r, loaded |-> risks[r], row |-> row])
<1> HIDE DEF Taken
<1>1. risks[r] # NoRow
  BY DEF WorksOn, AcceptRisk, EvaluateRisk, SetTreatment
<1>2. risks[r] \in RiskRows /\ Levelled(risks[r]) /\ methodology \in Methodologies
  BY <1>1, RiskThere DEF PlanInv, SoaTypeOK, RiskTypeOK
<1>3. ASSUME AcceptRisk(w, r)
      PROVE  \E row : Taken(row)
  <2> PICK row : row = [risks[r] EXCEPT !.status = "accepted"]
    OBVIOUS
  <2>1. /\ Levelled(row) /\ Since(risks[r], row) /\ KeepsLevel(risks[r], row)
        /\ Classified(risks[r], methodology) => Classified(row, methodology)
    BY <1>2, AcceptedRow
  <2>2. Begin(w, [op |-> "risk", risk |-> r, loaded |-> risks[r], row |-> row])
    BY <1>3 DEF AcceptRisk
  <2> QED
    BY <2>1, <2>2 DEF Taken
<1>4. ASSUME NEW p \in Values, NEW i \in Impacts, NEW o \in BOOLEAN \cup {NoValue},
             EvaluateRisk(w, r, p, i, o)
      PROVE  \E row : Taken(row)
  <2> PICK row : row = Evaluated(risks[r], p, i, o)
    OBVIOUS
  <2>1. /\ Levelled(row) /\ Since(risks[r], row) /\ KeepsLevel(risks[r], row)
        /\ Classified(risks[r], methodology) => Classified(row, methodology)
    BY <1>2, EvaluatedRow
  <2>2. Begin(w, [op |-> "risk", risk |-> r, loaded |-> risks[r], row |-> row])
    BY <1>4 DEF EvaluateRisk
  <2> QED
    BY <2>1, <2>2 DEF Taken
<1>5. ASSUME NEW p \in Values, NEW i \in Values, NEW accepting \in BOOLEAN,
             SetTreatment(w, r, p, i, accepting)
      PROVE  \E row : Taken(row)
  <2> PICK np : np = Sent(p, risks[r].rprob)
    OBVIOUS
  <2> PICK ni : ni = Sent(i, risks[r].rimpact)
    OBVIOUS
  <2> PICK s : s = IF ~accepting /\ risks[r].status = "assessed" THEN "in_treatment"
                   ELSE risks[r].status
    OBVIOUS
  <2> PICK row : row = Treated(risks[r], np, ni, s)
    OBVIOUS
  <2>1. np \in Values /\ ni \in Values /\ s \in Status
    BY <1>2 DEF Sent, RiskRows, Status
  <2>2. s = risks[r].status \/ (s = "in_treatment" /\ risks[r].status = "assessed")
    OBVIOUS
  <2>3. /\ Levelled(row) /\ Since(risks[r], row) /\ KeepsLevel(risks[r], row)
        /\ Classified(risks[r], methodology) => Classified(row, methodology)
    BY <1>2, <2>1, <2>2, TreatedRow
  <2>4. Begin(w, [op |-> "risk", risk |-> r, loaded |-> risks[r], row |-> row])
    BY <1>5 DEF SetTreatment, Treated
  <2> QED
    BY <2>3, <2>4 DEF Taken
<1> QED
  BY <1>1, <1>3, <1>4, <1>5 DEF Taken, WorksOn

\* A request on a risk is taken.
LEMMA RiskWorkKeeps ==
  ASSUME PlanInv, NEW w \in Workers, NEW r \in Risks, UNCHANGED soaVars,
         WorksOn(w, r)
  PROVE  PlanInv'
<1>1. risks[r] # NoRow
  BY RiskWork
<1> PICK row : /\ Levelled(row) /\ Since(risks[r], row) /\ KeepsLevel(risks[r], row)
               /\ Begin(w, [op |-> "risk", risk |-> r, loaded |-> risks[r], row |-> row])
  BY RiskWork
<1> QED
  BY <1>1, RiskTaken

\* What a thread serves is one of the requests.
LEMMA Served ==
  ASSUME PlanInv, NEW w \in Workers, NEW ops, Serving(w, ops)
  PROVE  req[w] \in PlanRequests /\ req[w].op \in ops /\ Brings(req[w])
BY DEF Serving, PlanInv, SoaTypeOK, PlanRequests

\* The row that a request has worked on is written.
LEMMA CommitRiskKeeps ==
  ASSUME PlanInv, NEW w \in Workers, CommitRisk(w), UNCHANGED soaVars
  PROVE  PlanInv'
<1> PICK q : q = req[w]
  OBVIOUS
<1>1. q \in PlanRequests /\ q.op = "risk" /\ Brings(q)
  BY Served DEF CommitRisk
<1>2. q.risk \in Risks /\ q.loaded \in RiskRows /\ q.row \in RiskRows
  BY <1>1, PlanFields
<1>3. /\ risks[q.risk] # NoRow /\ Levelled(q.loaded) /\ Levelled(q.row)
      /\ Since(q.loaded, q.row) /\ Since(q.loaded, risks[q.risk])
  BY <1>1 DEF Brings
<1> PICK new : new = Updated(risks[q.risk], q.loaded, q.row)
  OBVIOUS
<1>4. Levelled(new) /\ Since(risks[q.risk], new)
  BY <1>2, <1>3, RiskThere, UpdatedLevel
<1>5. new \in RiskRows /\ new # NoRow
  BY <1>4, NoRiskAssumption DEF Levelled
<1>6. risks' = [risks EXCEPT ![q.risk] = new]
  BY DEF CommitRisk
<1>7. risks' \in [Risks -> RiskRows \cup {NoRow}]
  BY <1>5, <1>6 DEF PlanInv, SoaTypeOK, RiskTypeOK
<1>8. ASSUME NEW s \in Risks
      PROVE  /\ risks'[s] # NoRow => Levelled(risks'[s])
             /\ risks[s] # NoRow => risks'[s] # NoRow /\ Since(risks[s], risks'[s])
  BY <1>2, <1>4, <1>5, <1>6, RiskThere, SinceItself DEF PlanInv, SoaTypeOK, RiskTypeOK
<1>9. /\ methodology' = methodology /\ controls' = controls /\ plan' = plan /\ plans' = plans
      /\ Answer(w) /\ Overlap(w)
  BY DEF CommitRisk, Finish
<1>10. \A s \in Risks, c \in Controls : <<s, c>> \in controls' => risks'[s] # NoRow
  BY <1>8, <1>9 DEF PlanInv
<1>11. methodology' \in Methodologies /\ controls' \in SUBSET (Risks \X Controls)
  BY <1>9 DEF PlanInv, SoaTypeOK, RiskTypeOK
<1> QED
  BY <1>7, <1>8, <1>9, <1>10, <1>11, RisksMove

\* A change of methodology is taken.
LEMMA PutMethodologyKeeps ==
  ASSUME PlanInv, NEW w \in Workers, NEW m \in Methodologies, PutMethodology(w, m),
         UNCHANGED soaVars
  PROVE  PlanInv'
<1> PICK q : q = [op |-> "methodology", to |-> m, loaded |-> risks]
  OBVIOUS
<1>1. q \in PlanRequests
  BY DEF PlanRequests, RiskRequests, PlanInv, SoaTypeOK, RiskTypeOK
<1>2. Brings(q)
  BY RiskThere, SinceItself DEF Brings
<1>3. req' = [req EXCEPT ![w] = q] /\ Overlap(w) /\ UNCHANGED <<riskVars, soaVars>>
  BY DEF PutMethodology, Begin
<1> QED
  BY <1>1, <1>2, <1>3, ThreadMoves

\* Every risk that was there is computed again.
LEMMA CommitMethodologyKeeps ==
  ASSUME PlanInv, NEW w \in Workers, CommitMethodology(w), UNCHANGED soaVars
  PROVE  PlanInv'
<1> PICK q : q = req[w]
  OBVIOUS
<1>1. q \in PlanRequests /\ q.op = "methodology" /\ Brings(q)
  BY Served DEF CommitMethodology
<1>2. q.to \in Methodologies /\ q.loaded \in [Risks -> RiskRows \cup {NoRow}]
  BY <1>1, PlanFields
<1>3. ASSUME NEW s \in Risks, q.loaded[s] = NoRow
      PROVE  risks'[s] = risks[s]
  BY <1>3 DEF CommitMethodology
<1>4. ASSUME NEW s \in Risks, q.loaded[s] # NoRow
      PROVE  /\ risks'[s] \in RiskRows /\ Levelled(risks'[s])
             /\ risks[s] # NoRow /\ Since(risks[s], risks'[s])
  <2> PICK old : old = q.loaded[s]
    OBVIOUS
  <2>1. old \in RiskRows /\ risks[s] # NoRow /\ Levelled(old) /\ Since(old, risks[s])
    BY <1>1, <1>2, <1>4 DEF Brings
  <2> PICK new : new = Recomputed(old, q.to)
    OBVIOUS
  <2>2. Levelled(new) /\ Since(old, new)
    BY <1>2, <2>1, RecomputedRow
  <2> PICK up : up = Updated(risks[s], old, new)
    OBVIOUS
  <2>3. Levelled(up) /\ Since(risks[s], up)
    BY <2>1, <2>2, RiskThere, UpdatedLevel DEF Levelled
  <2>4. risks'[s] = up
    BY <1>4 DEF CommitMethodology
  <2> QED
    BY <2>1, <2>3, <2>4 DEF Levelled
<1>5. DOMAIN risks' = Risks /\ risks' = [s \in Risks |-> risks'[s]]
  BY DEF CommitMethodology
<1>6. risks' \in [Risks -> RiskRows \cup {NoRow}]
  <2>1. \A s \in Risks : risks'[s] \in RiskRows \cup {NoRow}
    BY <1>3, <1>4 DEF PlanInv, SoaTypeOK, RiskTypeOK
  <2> QED
    BY <1>5, <2>1
<1>7. ASSUME NEW s \in Risks
      PROVE  /\ risks'[s] # NoRow => Levelled(risks'[s])
             /\ risks[s] # NoRow => risks'[s] # NoRow /\ Since(risks[s], risks'[s])
  BY <1>3, <1>4, RiskThere, SinceItself, NoRiskAssumption
<1>8. /\ methodology' = q.to /\ controls' = controls /\ plan' = plan /\ plans' = plans
      /\ Answer(w) /\ Overlap(w)
  BY DEF CommitMethodology, Finish
<1>9. \A s \in Risks, c \in Controls : <<s, c>> \in controls' => risks'[s] # NoRow
  BY <1>7, <1>8 DEF PlanInv
<1>10. methodology' \in Methodologies /\ controls' \in SUBSET (Risks \X Controls)
  BY <1>2, <1>8 DEF PlanInv, SoaTypeOK, RiskTypeOK
<1> QED
  BY <1>6, <1>7, <1>8, <1>9, <1>10, RisksMove

\* A control is added to the treatment of a risk, or taken from it.
LEMMA ControlKeeps ==
  ASSUME PlanInv, NEW w \in Workers, NEW r \in Risks, NEW c \in Controls,
         AddControl(w, r, c) \/ RemoveControl(w, r, c), UNCHANGED soaVars
  PROVE  PlanInv'
<1>1. /\ methodology' = methodology /\ risks' = risks /\ plan' = plan /\ plans' = plans
      /\ UNCHANGED req /\ Overlap(w)
  BY DEF AddControl, RemoveControl, AtOnce
<1>2. controls' \in SUBSET (Risks \X Controls)
  BY DEF AddControl, RemoveControl, PlanInv, SoaTypeOK, RiskTypeOK
<1>3. \A s \in Risks, d \in Controls : <<s, d>> \in controls' => risks'[s] # NoRow
  <2> SUFFICES ASSUME NEW s \in Risks, NEW d \in Controls, <<s, d>> \in controls'
               PROVE  risks'[s] # NoRow
    OBVIOUS
  <2>1. CASE <<s, d>> \in controls
    BY <1>1, <2>1 DEF PlanInv
  <2>2. CASE AddControl(w, r, c) /\ <<s, d>> = <<r, c>>
    BY <1>1, <2>2 DEF AddControl
  <2> QED
    BY <2>1, <2>2 DEF AddControl, RemoveControl
<1>4. /\ risks' \in [Risks -> RiskRows \cup {NoRow}] /\ methodology' \in Methodologies
      /\ \A s \in Risks : risks'[s] # NoRow => Levelled(risks'[s])
      /\ \A s \in Risks :
             risks[s] # NoRow => risks'[s] # NoRow /\ Since(risks[s], risks'[s])
  BY <1>1, SinceItself DEF PlanInv, SoaTypeOK, RiskTypeOK
<1> QED
  BY <1>1, <1>2, <1>3, <1>4, RisksMove

\* The plan is submitted.
LEMMA SubmitPlanKeeps ==
  ASSUME PlanInv, NEW w \in Workers, SubmitPlan(w), UNCHANGED soaVars
  PROVE  PlanInv'
<1>1. /\ plans' = plans /\ UNCHANGED <<methodology, risks, controls, soaVars, req>>
      /\ Overlap(w) /\ plan' = [plan EXCEPT !.draft = "in_review"]
  BY DEF SubmitPlan, AtOnce
<1>2. /\ plans' \in Seq(PlanBodies) /\ Len(plans) <= Len(plans')
      /\ \A v \in DOMAIN plans' : Grounded(plans'[v])
  BY <1>1 DEF PlanInv, SoaTypeOK, RiskTypeOK
<1>3. plan' \in [draft : Drafts, current : 0 .. Len(plans')]
  BY <1>1 DEF PlanInv, SoaTypeOK, RiskTypeOK, Drafts
<1> QED
  BY <1>1, <1>2, <1>3, PlanMoves

\* Nothing of a plan is a body yet.
NoBody == [r \in Risks |-> NoRow]

\* A body is one of the plan's.
LEMMA BodyTyped ==
  ASSUME PlanInv
  PROVE  /\ NoBody \in PlanBodies /\ BodyNow \in PlanBodies
         /\ Grounded(NoBody) /\ Grounded(BodyNow)
         /\ \A r \in Active : r \in Risks /\ BodyNow[r] # NoRow
<1>1. \A r \in Active : r \in Risks /\ Levelled(risks[r])
  BY RiskThere DEF Active
<1>2. \A r \in Active : [status |-> risks[r].status, rated |-> Rated(risks[r])] \in Covered
  <2> TAKE r \in Active
  <2> PICK rated : rated = Rated(risks[r])
    OBVIOUS
  <2>1. rated \in BOOLEAN
    BY Zenon DEF Rated
  <2> QED
    BY <1>1, <2>1 DEF Levelled, RiskRows, Covered
<1>3. NoBody \in PlanBodies /\ BodyNow \in PlanBodies
  BY <1>2 DEF NoBody, BodyNow, PlanBodies
<1>4. Grounded(NoBody)
  BY DEF NoBody, Grounded
<1>5. Grounded(BodyNow)
  <2> SUFFICES ASSUME NEW r \in Risks, BodyNow[r] # NoRow,
                      BodyNow[r].status \in {"assessed", "in_treatment"}
               PROVE  BodyNow[r].rated
    BY DEF Grounded
  <2>1. r \in Active
    BY DEF BodyNow
  <2>2. Rated(risks[r])
    BY <1>1, <2>1 DEF Rated, Levelled, BodyNow
  <2> QED
    BY <2>1, <2>2 DEF BodyNow
<1>6. \A r \in Active : r \in Risks /\ BodyNow[r] # NoRow
  BY <1>1, <1>2, NoRiskAssumption DEF BodyNow
<1> QED
  BY <1>3, <1>4, <1>5, <1>6

\* The plan is approved, step by step.
LEMMA PlanStepKeeps ==
  ASSUME PlanInv, NEW w \in Workers, UNCHANGED soaVars,
         BeginApprovePlan(w) \/ GatePlan(w) \/ ReadPlan(w)
  PROVE  PlanInv'
<1>1. CASE BeginApprovePlan(w)
  <2> PICK q : q = [op |-> "plan", todo |-> <<"gate", "read">>, body |-> NoBody]
    OBVIOUS
  <2>1. q \in PlanRequests /\ Brings(q)
    BY BodyTyped DEF PlanRequests, RiskRequests, Brings
  <2>2. req' = [req EXCEPT ![w] = q] /\ Overlap(w) /\ UNCHANGED <<riskVars, soaVars>>
    BY <1>1 DEF BeginApprovePlan, Begin, NoBody
  <2> QED
    BY <2>1, <2>2, ThreadMoves
<1>2. CASE GatePlan(w)
  <2> PICK old : old = req[w]
    OBVIOUS
  <2>1. old \in PlanRequests /\ old.op = "plan"
    BY <1>2, Served DEF GatePlan
  <2> PICK new : new = [old EXCEPT !.todo = <<"read">>]
    OBVIOUS
  <2>2. old \in [op : {"plan"}, todo : {<<"gate", "read">>, <<"read">>, <<>>}, body : PlanBodies]
    BY <2>1 DEF PlanRequests, RiskRequests, SoaRequests
  <2>3. new \in PlanRequests /\ new.op = "plan" /\ new.body = old.body
    BY <2>2 DEF PlanRequests, RiskRequests
  <2>4. Brings(new)
    BY <1>2, <2>1, <2>3, Served DEF GatePlan, Brings
  <2> PICK r : r = IF PlanGate THEN new ELSE Idle
    OBVIOUS
  <2>5. /\ req' = [req EXCEPT ![w] = r] /\ Overlap(w) /\ UNCHANGED <<riskVars, soaVars>>
        /\ r \in PlanRequests \cup {Idle} /\ (r # Idle => Brings(r))
    BY <1>2, <2>3, <2>4 DEF GatePlan
  <2> QED
    BY <2>5, ThreadMoves
<1>3. CASE ReadPlan(w)
  <2> PICK old : old = req[w]
    OBVIOUS
  <2>1. old \in PlanRequests /\ old.op = "plan"
    BY <1>3, Served DEF ReadPlan
  <2> PICK body : body = BodyNow
    OBVIOUS
  <2>2. old \in [op : {"plan"}, todo : {<<"gate", "read">>, <<"read">>, <<>>}, body : PlanBodies]
    BY <2>1 DEF PlanRequests, RiskRequests, SoaRequests
  <2> PICK new : new = [old EXCEPT !.todo = <<>>, !.body = body]
    OBVIOUS
  <2>3. new \in PlanRequests /\ new.op = "plan" /\ new.body = body
    BY <2>2, BodyTyped DEF PlanRequests, RiskRequests
  <2>4. Brings(new)
    BY <2>3, BodyTyped DEF Brings
  <2>5. w \in DOMAIN req
    BY DEF PlanInv, SoaTypeOK
  <2>6. req' = [req EXCEPT ![w] = new] /\ Overlap(w) /\ UNCHANGED <<riskVars, soaVars>>
    BY <1>3, <2>5 DEF ReadPlan
  <2> QED
    BY <2>3, <2>4, <2>6, ThreadMoves
<1> QED
  BY <1>1, <1>2, <1>3

\* The plan is approved.
LEMMA CommitPlanKeeps ==
  ASSUME PlanInv, NEW w \in Workers, CommitPlan(w), UNCHANGED soaVars
  PROVE  PlanInv'
<1> PICK body : body = req[w].body
  OBVIOUS
<1>1. body \in PlanBodies /\ Grounded(body)
  BY Served, PlanFields DEF CommitPlan, Brings
<1>2. plans \in Seq(PlanBodies) /\ Len(plans) \in Nat
  BY DEF PlanInv, SoaTypeOK, RiskTypeOK
<1>3. /\ plans' = Append(plans, body) /\ plan' = [draft |-> "draft", current |-> Len(plans')]
      /\ UNCHANGED <<methodology, risks, controls, soaVars>> /\ Answer(w) /\ Overlap(w)
  BY DEF CommitPlan, Finish, InForce
<1>4. /\ plans' \in Seq(PlanBodies) /\ Len(plans') = Len(plans) + 1
      /\ \A v \in DOMAIN plans' :
             (v \in DOMAIN plans /\ plans'[v] = plans[v]) \/ plans'[v] = body
  BY <1>1, <1>2, <1>3
<1>5. Len(plans) <= Len(plans') /\ Len(plans') \in 0 .. Len(plans')
  BY <1>2, <1>4
<1>6. plan' \in [draft : Drafts, current : 0 .. Len(plans')]
  BY <1>3, <1>5 DEF Drafts
<1>7. \A v \in DOMAIN plans' : Grounded(plans'[v])
  BY <1>1, <1>4 DEF PlanInv
<1> QED
  BY <1>3, <1>4, <1>5, <1>6, <1>7, PlanMoves

\* The shapes of the requests on the statement.
ConsolidateRequests ==
    [op : {"consolidate"}, todo : {<<"feed">>, <<>>}, gap : Assessments,
     items : Statements, feed : Feeds]

ReconcileRequests ==
    [op : {"reconcile"}, todo : {<<"feed">>, <<>>}, control : Controls,
     loaded : SoaRows, row : SoaRows, feed : Feeds, risk : BOOLEAN]

VersionRequests ==
    [op : {"soa"}, todo : {<<"read", "plan">>, <<"plan">>, <<>>}, snapshot : Snapshots]

\* Requests of a shape are requests.
LEMMA StatementShapes ==
  /\ ConsolidateRequests \subseteq PlanRequests
  /\ ReconcileRequests \subseteq PlanRequests
  /\ VersionRequests \subseteq PlanRequests
  /\ \A q \in PlanRequests :
         /\ q.op = "consolidate" => q \in ConsolidateRequests
         /\ q.op = "reconcile" => q \in ReconcileRequests
         /\ q.op = "soa" => q \in VersionRequests
BY DEF ConsolidateRequests, ReconcileRequests, VersionRequests, PlanRequests, RiskRequests,
       SoaRequests

\* A control is assessed.
LEMMA AssessGapKeeps ==
  ASSUME PlanInv, NEW w \in Workers, NEW c \in Controls, NEW row \in GapRows,
         AssessGap(w, c, row)
  PROVE  PlanInv'
<1>1. /\ UNCHANGED riskVars /\ soa' = soa /\ soaItems' = soaItems /\ versions' = versions
      /\ plans' = plans
      /\ UNCHANGED req /\ Overlap(w) /\ gap' = [gap EXCEPT ![c] = row]
  BY DEF AssessGap, AtOnce, riskVars
<1>2. row # NoRow
  BY NoItemAssumption
<1>3. gap' \in Assessments /\ \A d \in Controls : gap[d] # NoRow => gap'[d] # NoRow
  BY <1>1, <1>2 DEF PlanInv, SoaTypeOK, Assessments
<1>4. \A d \in Controls : soaItems'[d] # NoRow => gap'[d] # NoRow
  BY <1>1, <1>3 DEF PlanInv
<1>5. VersionsAreComplete' /\ NormativeIsBacked'
  BY <1>1 DEF PlanInv, VersionsAreComplete, NormativeIsBacked
<1>6. /\ soaItems' \in Statements /\ versions' \in Seq(Snapshots)
      /\ soa' \in [draft : Drafts, current : 0 .. Len(versions')] \cup {NoRow}
      /\ \A d \in Controls : soaItems[d] # NoRow => soaItems'[d] # NoRow
  BY <1>1 DEF PlanInv, SoaTypeOK
<1> QED
  BY <1>1, <1>3, <1>4, <1>5, <1>6, StatementMoves

\* A consolidation is taken.
LEMMA BeginConsolidateKeeps ==
  ASSUME PlanInv, NEW w \in Workers, BeginConsolidate(w)
  PROVE  PlanInv'
<1> PICK q : q = [op |-> "consolidate", todo |-> <<"feed">>, gap |-> gap,
                  items |-> soaItems, feed |-> NoFeed]
  OBVIOUS
<1>1. q \in PlanRequests
  <2>1. NoFeed \in Feeds
    BY DEF NoFeed, Feeds
  <2> QED
    BY <2>1, StatementShapes DEF ConsolidateRequests, PlanInv, SoaTypeOK
<1>2. Brings(q)
  BY DEF Brings
<1>3. req' = [req EXCEPT ![w] = q] /\ Overlap(w) /\ UNCHANGED <<riskVars, soaVars>>
  BY DEF BeginConsolidate, Begin
<1> QED
  BY <1>1, <1>2, <1>3, ThreadMoves

\* The risks that each control treats.
FeedNow == [c \in Controls |-> Feed(c)]

\* They are risks.
LEMMA FeedTyped == FeedNow \in Feeds
BY DEF FeedNow, Feeds, Feed, Active

\* They are read.
LEMMA ReadFeedKeeps ==
  ASSUME PlanInv, NEW w \in Workers, ReadFeed(w)
  PROVE  PlanInv'
<1> PICK old : old = req[w]
  OBVIOUS
<1> PICK feed : feed = FeedNow
  OBVIOUS
<1>1. old \in PlanRequests /\ old.op \in {"consolidate", "reconcile"} /\ Brings(old)
  BY Served DEF ReadFeed
<1> PICK new : new = [old EXCEPT !.todo = <<>>, !.feed = feed]
  OBVIOUS
<1>2. w \in DOMAIN req
  BY DEF PlanInv, SoaTypeOK
<1>3. req' = [req EXCEPT ![w] = new] /\ Overlap(w) /\ UNCHANGED <<riskVars, soaVars>>
  BY <1>2 DEF ReadFeed, FeedNow
<1>4. CASE old.op = "consolidate"
  <2>1. old \in ConsolidateRequests
    BY <1>1, <1>4, StatementShapes
  <2>2. /\ new \in ConsolidateRequests /\ new.op = old.op /\ new.gap = old.gap
        /\ new.items = old.items
    BY <2>1, FeedTyped DEF ConsolidateRequests
  <2>3. Brings(new)
    BY <1>1, <1>4, <2>2 DEF Brings
  <2> QED
    BY <1>3, <2>2, <2>3, StatementShapes, ThreadMoves
<1>5. CASE old.op = "reconcile"
  <2>1. old \in ReconcileRequests
    BY <1>1, <1>5, StatementShapes
  <2>2. new \in ReconcileRequests /\ new.op = old.op /\ new.control = old.control
    BY <2>1, FeedTyped DEF ReconcileRequests
  <2>3. Brings(new)
    BY <1>1, <1>5, <2>2 DEF Brings
  <2> QED
    BY <1>3, <2>2, <2>3, StatementShapes, ThreadMoves
<1> QED
  BY <1>1, <1>4, <1>5

\* A consolidation that another has preceded is refused.
LEMMA RefuseConsolidateKeeps ==
  ASSUME PlanInv, NEW w \in Workers, RefuseConsolidate(w)
  PROVE  PlanInv'
<1>1. /\ req' = [req EXCEPT ![w] = Idle] /\ Overlap(w) /\ UNCHANGED <<riskVars, soaVars>>
  BY DEF RefuseConsolidate, Finish, Answer
<1> QED
  BY <1>1, ThreadMoves

\* An item is edited, or its reconciliation is taken.
LEMMA ItemTakenKeeps ==
  ASSUME PlanInv, NEW w \in Workers, NEW c \in Controls,
         \/ \E row \in SoaRows : BeginItem(w, c, row)
         \/ \E fields \in SUBSET Fields, risk \in BOOLEAN : BeginReconcile(w, c, fields, risk)
  PROVE  PlanInv'
<1>1. soaItems[c] # NoRow /\ soaItems[c] \in SoaRows /\ gap[c] # NoRow /\ gap[c] \in GapRows
  BY DEF BeginItem, BeginReconcile, PlanInv, SoaTypeOK, Statements, Assessments
<1>2. ASSUME NEW row \in SoaRows, BeginItem(w, c, row)
      PROVE  PlanInv'
  <2> PICK q : q = [op |-> "item", control |-> c, loaded |-> soaItems[c], row |-> row]
    OBVIOUS
  <2>1. q \in PlanRequests
    BY <1>1 DEF PlanRequests, SoaRequests
  <2>2. Brings(q)
    BY <1>1 DEF Brings
  <2>3. req' = [req EXCEPT ![w] = q] /\ Overlap(w) /\ UNCHANGED <<riskVars, soaVars>>
    BY <1>2 DEF BeginItem, Begin
  <2> QED
    BY <2>1, <2>2, <2>3, ThreadMoves
<1>3. ASSUME NEW fields \in SUBSET Fields, NEW risk \in BOOLEAN,
             BeginReconcile(w, c, fields, risk)
      PROVE  PlanInv'
  <2> PICK row : row = FromAssessment(soaItems[c], gap[c], fields)
    OBVIOUS
  <2> PICK todo : todo = IF risk THEN <<"feed">> ELSE <<>>
    OBVIOUS
  <2> PICK q : q = [op |-> "reconcile", todo |-> todo, control |-> c, loaded |-> soaItems[c],
                    row |-> row, feed |-> NoFeed, risk |-> risk]
    OBVIOUS
  <2>1. row \in SoaRows
    BY <1>1, ReassessedRow
  <2>2. NoFeed \in Feeds /\ todo \in {<<"feed">>, <<>>}
    BY DEF NoFeed, Feeds
  <2>3. q \in PlanRequests
    BY <1>1, <2>1, <2>2, StatementShapes DEF ReconcileRequests
  <2>4. Brings(q)
    BY <1>1 DEF Brings
  <2>5. req' = [req EXCEPT ![w] = q] /\ Overlap(w) /\ UNCHANGED <<riskVars, soaVars>>
    BY <1>3 DEF BeginReconcile, Begin
  <2> QED
    BY <2>3, <2>4, <2>5, ThreadMoves
<1> QED
  BY <1>2, <1>3

\* The item that a consolidation leaves.
LEMMA ConsolidatedItem ==
  ASSUME PlanInv, NEW w \in Workers, CommitConsolidate(w), NEW c \in Controls,
         NEW q, q = req[w]
  PROVE  /\ q.items[c] = NoRow /\ q.gap[c] # NoRow =>
                /\ soaItems[c] = NoRow
                /\ soaItems'[c] = IncludedForRisks(FromGap(q.gap[c]), q.feed[c])
         /\ q.items[c] # NoRow =>
                soaItems'[c] = Updated(soaItems[c], q.items[c],
                                       IncludedForRisks(q.items[c], q.feed[c]))
         /\ q.items[c] = NoRow /\ q.gap[c] = NoRow => soaItems'[c] = soaItems[c]
<1>1. c \in Added(q) <=> q.items[c] = NoRow /\ q.gap[c] # NoRow
  BY DEF Added
<1>2. \A d \in Added(q) : soaItems[d] = NoRow
  BY DEF CommitConsolidate
<1>3. soaItems'[c] =
        CASE c \in Added(q) -> IncludedForRisks(FromGap(q.gap[c]), q.feed[c])
          [] q.items[c] # NoRow ->
                 Updated(soaItems[c], q.items[c], IncludedForRisks(q.items[c], q.feed[c]))
          [] OTHER -> soaItems[c]
  BY DEF CommitConsolidate
<1> QED
  BY <1>1, <1>2, <1>3

\* The statement is consolidated.
LEMMA CommitConsolidateKeeps ==
  ASSUME PlanInv, NEW w \in Workers, CommitConsolidate(w)
  PROVE  PlanInv'
<1> PICK q : q = req[w]
  OBVIOUS
<1>1. q \in PlanRequests /\ q.op = "consolidate" /\ Brings(q)
  BY Served DEF CommitConsolidate
<1>2. q.gap \in Assessments /\ q.items \in Statements /\ q.feed \in Feeds
  BY <1>1, PlanFields
<1>3. ASSUME NEW c \in Controls
      PROVE  /\ soaItems'[c] \in SoaRows \cup {NoRow}
             /\ soaItems[c] # NoRow => soaItems'[c] # NoRow
             /\ soaItems'[c] # NoRow => gap[c] # NoRow
  <2>1. /\ q.feed[c] \in SUBSET Risks /\ q.gap[c] \in GapRows \cup {NoRow}
        /\ q.items[c] \in SoaRows \cup {NoRow} /\ soaItems[c] \in SoaRows \cup {NoRow}
        /\ soaItems[c] # NoRow => gap[c] # NoRow
    BY <1>2 DEF Assessments, Statements, Feeds, PlanInv, SoaTypeOK
  <2>2. CASE q.items[c] = NoRow /\ q.gap[c] # NoRow
    <3>1. soaItems'[c] = IncludedForRisks(FromGap(q.gap[c]), q.feed[c])
      BY <2>2, ConsolidatedItem
    <3>2. FromGap(q.gap[c]) \in SoaRows
      BY <2>1, <2>2, AssessedRow
    <3>3. soaItems'[c] \in SoaRows
      BY <2>1, <3>1, <3>2, ConsolidatedRow
    <3>4. gap[c] # NoRow
      BY <1>1, <2>2 DEF Brings
    <3> QED
      BY <3>3, <3>4, NoItemAssumption
  <2>3. CASE q.items[c] # NoRow
    <3>1. soaItems[c] # NoRow
      BY <1>1, <2>3 DEF Brings
    <3> PICK new : new = IncludedForRisks(q.items[c], q.feed[c])
      OBVIOUS
    <3>2. soaItems'[c] = Updated(soaItems[c], q.items[c], new) /\ new \in SoaRows
      BY <2>1, <2>3, ConsolidatedItem, ConsolidatedRow
    <3>3. soaItems'[c] \in SoaRows
      BY <2>1, <2>3, <3>1, <3>2, UpdatedItem
    <3> QED
      BY <2>1, <3>1, <3>3, NoItemAssumption
  <2>4. CASE q.items[c] = NoRow /\ q.gap[c] = NoRow
    BY <2>1, <2>4, ConsolidatedItem
  <2> QED
    BY <2>2, <2>3, <2>4
<1>4. soaItems' \in Statements
  <2>1. DOMAIN soaItems' = Controls /\ soaItems' = [c \in Controls |-> soaItems'[c]]
    BY DEF CommitConsolidate
  <2> QED
    BY <1>3, <2>1 DEF Statements
<1>5. UNCHANGED riskVars /\ gap' = gap /\ versions' = versions /\ plans' = plans
      /\ Answer(w) /\ Overlap(w)
  BY DEF CommitConsolidate, Finish, riskVars
<1>6. soa' \in [draft : Drafts, current : 0 .. Len(versions')] \cup {NoRow}
  <2>1. 0 \in 0 .. Len(versions)
    BY DEF PlanInv, SoaTypeOK
  <2>2. [draft |-> "draft", current |-> 0] \in [draft : Drafts, current : 0 .. Len(versions)]
    BY <2>1 DEF Drafts
  <2> QED
    BY <1>5, <2>2 DEF CommitConsolidate, PlanInv, SoaTypeOK
<1>7. VersionsAreComplete' /\ NormativeIsBacked'
  BY <1>5 DEF PlanInv, VersionsAreComplete, NormativeIsBacked
<1>8. gap' \in Assessments /\ versions' \in Seq(Snapshots)
  BY <1>5 DEF PlanInv, SoaTypeOK
<1> QED
  BY <1>3, <1>4, <1>5, <1>6, <1>7, <1>8, StatementMoves

\* The row that a request on an item has made of it.
SettledRow(q) ==
    IF q.op = "reconcile" /\ q.risk /\ DivergesFromRisks(q.row, q.feed[q.control])
    THEN FromRisks(q.row, q.feed[q.control]) ELSE q.row

\* It is an item.
LEMMA SettledTyped ==
  ASSUME NEW q \in PlanRequests, q.op \in {"item", "reconcile"}
  PROVE  SettledRow(q) \in SoaRows
<1>1. q.row \in SoaRows
  BY PlanFields
<1>2. CASE q.op = "reconcile"
  <2>1. q.feed[q.control] \in SUBSET Risks
    BY <1>2, PlanFields DEF Feeds
  <2> QED
    BY <1>1, <2>1, ReconciledRow DEF SettledRow
<1>3. CASE q.op = "item"
  BY <1>1, <1>3 DEF SettledRow
<1> QED
  BY <1>2, <1>3

\* An item is written.
LEMMA CommitSoaItemIs ==
  ASSUME PlanInv, NEW w \in Workers, CommitSoaItem(w), NEW q, q = req[w]
  PROVE  /\ q \in PlanRequests /\ q.op \in {"item", "reconcile"} /\ Brings(q)
         /\ q.op = "reconcile" => q.todo = <<>>
         /\ soaItems' = [soaItems EXCEPT
                ![q.control] = Updated(soaItems[q.control], q.loaded, SettledRow(q))]
<1>1. q \in PlanRequests /\ q.op \in {"item", "reconcile"} /\ Brings(q)
  BY Served DEF CommitSoaItem
<1>2. q.op = "reconcile" => q.todo = <<>>
  BY DEF CommitSoaItem, Serving
<1>3. soaItems' = [soaItems EXCEPT
          ![q.control] = Updated(soaItems[q.control], q.loaded, SettledRow(q))]
  BY DEF CommitSoaItem, SettledRow
<1> QED
  BY <1>1, <1>2, <1>3

\* The invariant is kept.
LEMMA CommitSoaItemKeeps ==
  ASSUME PlanInv, NEW w \in Workers, CommitSoaItem(w)
  PROVE  PlanInv'
<1> PICK q : q = req[w]
  OBVIOUS
<1>1. q \in PlanRequests /\ q.op \in {"item", "reconcile"} /\ Brings(q)
  BY CommitSoaItemIs
<1>2. q.control \in Controls /\ q.loaded \in SoaRows /\ SettledRow(q) \in SoaRows
  BY <1>1, PlanFields, SettledTyped
<1>3. soaItems[q.control] # NoRow /\ soaItems[q.control] \in SoaRows
  BY <1>1, <1>2 DEF Brings, PlanInv, SoaTypeOK, Statements
<1> PICK new : new = Updated(soaItems[q.control], q.loaded, SettledRow(q))
  OBVIOUS
<1>4. new \in SoaRows /\ new # NoRow
  BY <1>2, <1>3, UpdatedItem, NoItemAssumption
<1>5. soaItems' = [soaItems EXCEPT ![q.control] = new]
  BY CommitSoaItemIs
<1>6. /\ UNCHANGED riskVars /\ gap' = gap /\ soa' = soa /\ versions' = versions
      /\ plans' = plans /\ Answer(w) /\ Overlap(w)
  BY DEF CommitSoaItem, Finish, riskVars
<1>7. soaItems' \in Statements
  BY <1>2, <1>4, <1>5 DEF PlanInv, SoaTypeOK, Statements
<1>8. \A c \in Controls : /\ soaItems[c] # NoRow => soaItems'[c] # NoRow
                          /\ soaItems'[c] # NoRow => gap'[c] # NoRow
  BY <1>2, <1>3, <1>4, <1>5, <1>6 DEF PlanInv, SoaTypeOK, Statements
<1>9. VersionsAreComplete' /\ NormativeIsBacked'
  BY <1>6 DEF PlanInv, VersionsAreComplete, NormativeIsBacked
<1>10. /\ gap' \in Assessments /\ versions' \in Seq(Snapshots)
       /\ soa' \in [draft : Drafts, current : 0 .. Len(versions')] \cup {NoRow}
  BY <1>6 DEF PlanInv, SoaTypeOK
<1> QED
  BY <1>6, <1>7, <1>8, <1>9, <1>10, StatementMoves

\* The statement is submitted.
LEMMA SubmitReviewKeeps ==
  ASSUME PlanInv, NEW w \in Workers, SubmitReview(w)
  PROVE  PlanInv'
<1>1. /\ UNCHANGED riskVars /\ gap' = gap /\ soaItems' = soaItems /\ versions' = versions
      /\ plans' = plans /\ UNCHANGED req /\ Overlap(w)
      /\ soa # NoRow /\ soa' = [soa EXCEPT !.draft = "in_review"]
  BY DEF SubmitReview, AtOnce, riskVars
<1>2. soa' \in [draft : Drafts, current : 0 .. Len(versions')] \cup {NoRow}
  BY <1>1 DEF PlanInv, SoaTypeOK, Drafts
<1>3. VersionsAreComplete' /\ NormativeIsBacked'
  BY <1>1 DEF PlanInv, VersionsAreComplete, NormativeIsBacked
<1>4. /\ gap' \in Assessments /\ versions' \in Seq(Snapshots) /\ soaItems' \in Statements
      /\ \A c \in Controls : /\ gap[c] # NoRow => gap'[c] # NoRow
                             /\ soaItems[c] # NoRow => soaItems'[c] # NoRow
                             /\ soaItems'[c] # NoRow => gap'[c] # NoRow
  BY <1>1 DEF PlanInv, SoaTypeOK
<1> QED
  BY <1>1, <1>2, <1>3, <1>4, StatementMoves

\* An approval is taken.
LEMMA BeginApproveKeeps ==
  ASSUME PlanInv, NEW w \in Workers, BeginApprove(w)
  PROVE  PlanInv'
<1> PICK s : s = [items |-> NoItems, kind |-> "pre_soa", plan |-> 0]
  OBVIOUS
<1> PICK q : q = [op |-> "soa", todo |-> <<"read", "plan">>, snapshot |-> s]
  OBVIOUS
<1>1. s \in Snapshots
  BY DEF NoItems, Snapshots, Statements
<1>2. q \in PlanRequests
  BY <1>1, StatementShapes DEF VersionRequests
<1>3. Brings(q)
  BY DEF Brings
<1>4. req' = [req EXCEPT ![w] = q] /\ Overlap(w) /\ UNCHANGED <<riskVars, soaVars>>
  BY DEF BeginApprove, Begin
<1> QED
  BY <1>2, <1>3, <1>4, ThreadMoves

\* The items that will be sealed are read, all of them complete.
LEMMA ReadItemsKeeps ==
  ASSUME PlanInv, NEW w \in Workers, ReadItems(w)
  PROVE  PlanInv'
<1> PICK old : old = req[w]
  OBVIOUS
<1> PICK its : its = soaItems
  OBVIOUS
<1> PICK s : s = [old.snapshot EXCEPT !.items = its]
  OBVIOUS
<1> PICK new : new = [old EXCEPT !.todo = <<"plan">>, !.snapshot = s]
  OBVIOUS
<1>1. old \in VersionRequests
  BY Served, StatementShapes DEF ReadItems
<1>2. s \in Snapshots /\ s.items = its
  BY <1>1 DEF VersionRequests, Snapshots, PlanInv, SoaTypeOK
<1>3. new \in VersionRequests /\ new.snapshot = s /\ new.op = "soa" /\ new.todo = <<"plan">>
  BY <1>1, <1>2 DEF VersionRequests
<1>4. new = [old EXCEPT !.todo = <<"plan">>, !.snapshot.items = its]
  BY <1>1 DEF VersionRequests, Snapshots
<1> PICK r : r = IF Incomplete(soaItems) = {} THEN new ELSE Idle
  OBVIOUS
<1>5. req' = [req EXCEPT ![w] = r] /\ Overlap(w) /\ UNCHANGED <<riskVars, soaVars>>
  BY <1>4 DEF ReadItems
<1>6. ASSUME r # Idle
      PROVE  Brings(r)
  <2>1. Incomplete(its) = {} /\ r = new
    BY <1>6
  <2>2. AllComplete(its)
    BY <2>1 DEF Incomplete, AllComplete
  <2>3. <<"plan">> # <<>>
    OBVIOUS
  <2> QED
    BY <1>2, <1>3, <2>1, <2>2, <2>3 DEF Brings
<1> QED
  BY <1>3, <1>5, <1>6, StatementShapes, ThreadMoves

\* The plan in force is read.
LEMMA ReadPlanInForceKeeps ==
  ASSUME PlanInv, NEW w \in Workers, ReadPlanInForce(w)
  PROVE  PlanInv'
<1> PICK old : old = req[w]
  OBVIOUS
<1> PICK n : n = plan.current
  OBVIOUS
<1> PICK kind : kind = IF HasApprovedPlan THEN "normative" ELSE "pre_soa"
  OBVIOUS
<1> PICK s : s = [old.snapshot EXCEPT !.kind = kind, !.plan = n]
  OBVIOUS
<1> PICK new : new = [old EXCEPT !.todo = <<>>, !.snapshot = s]
  OBVIOUS
<1>1. old \in VersionRequests /\ Brings(old) /\ old.op = "soa" /\ old.todo = <<"plan">>
  BY Served, StatementShapes DEF ReadPlanInForce
<1>2. n \in 0 .. Len(plans) /\ n \in Nat
  BY DEF PlanInv, SoaTypeOK, RiskTypeOK
<1>3. /\ kind \in {"pre_soa", "normative"} /\ (kind = "normative" <=> n # 0)
  BY DEF HasApprovedPlan
<1>4. /\ s \in Snapshots /\ s.items = old.snapshot.items /\ s.kind = kind /\ s.plan = n
  BY <1>1, <1>2, <1>3 DEF VersionRequests, Snapshots
<1>5. new \in VersionRequests /\ new.snapshot = s /\ new.op = "soa" /\ new.todo = <<>>
  BY <1>1, <1>4 DEF VersionRequests
<1>6. new = [old EXCEPT !.todo = <<>>, !.snapshot.kind = kind, !.snapshot.plan = n]
  BY <1>1 DEF VersionRequests, Snapshots
<1>7. w \in DOMAIN req
  BY DEF PlanInv, SoaTypeOK
<1>8. req' = [req EXCEPT ![w] = new]
  BY <1>6, <1>7 DEF ReadPlanInForce
<1>9. Overlap(w) /\ UNCHANGED <<riskVars, soaVars>>
  BY DEF ReadPlanInForce
<1>10. Brings(new)
  <2>1. AllComplete(s.items)
    BY <1>1, <1>4 DEF Brings
  <2>2. Backed(s, Len(plans))
    BY <1>2, <1>3, <1>4 DEF Backed
  <2> QED
    BY <1>5, <2>1, <2>2 DEF Brings
<1> QED
  BY <1>5, <1>8, <1>9, <1>10, StatementShapes, ThreadMoves

\* The version is sealed.
LEMMA CommitVersionKeeps ==
  ASSUME PlanInv, NEW w \in Workers, CommitVersion(w)
  PROVE  PlanInv'
<1> PICK q : q = req[w]
  OBVIOUS
<1> PICK s : s = q.snapshot
  OBVIOUS
<1>1. q \in PlanRequests /\ q.op = "soa" /\ q.todo = <<>> /\ Brings(q)
  BY Served DEF CommitVersion
<1>2. s \in Snapshots /\ AllComplete(s.items) /\ Backed(s, Len(plans))
  BY <1>1, PlanFields DEF Brings
<1>3. /\ UNCHANGED riskVars /\ gap' = gap /\ soaItems' = soaItems /\ plans' = plans
      /\ Answer(w) /\ Overlap(w) /\ versions' = Append(versions, s)
      /\ soa' = [draft |-> "draft", current |-> Len(versions')]
  BY DEF CommitVersion, Finish, riskVars
<1>4. versions \in Seq(Snapshots) /\ Len(versions) \in Nat
  BY DEF PlanInv, SoaTypeOK
<1>5. /\ versions' \in Seq(Snapshots) /\ Len(versions') = Len(versions) + 1
      /\ \A v \in DOMAIN versions' :
             (v \in DOMAIN versions /\ versions'[v] = versions[v]) \/ versions'[v] = s
  BY <1>2, <1>3, <1>4
<1>6. Len(versions') \in 0 .. Len(versions')
  BY <1>4, <1>5
<1>7. soa' \in [draft : Drafts, current : 0 .. Len(versions')] \cup {NoRow}
  BY <1>3, <1>6 DEF Drafts
<1>8. VersionsAreComplete'
  BY <1>2, <1>5 DEF PlanInv, VersionsAreComplete, AllComplete
<1>9. NormativeIsBacked'
  BY <1>2, <1>3, <1>5 DEF PlanInv, NormativeIsBacked, Backed
<1>10. /\ gap' \in Assessments /\ soaItems' \in Statements
       /\ \A c \in Controls : /\ gap[c] # NoRow => gap'[c] # NoRow
                              /\ soaItems[c] # NoRow => soaItems'[c] # NoRow
                              /\ soaItems'[c] # NoRow => gap'[c] # NoRow
  BY <1>3 DEF PlanInv, SoaTypeOK
<1> QED
  BY <1>3, <1>5, <1>7, <1>8, <1>9, <1>10, StatementMoves

\* A step of a thread.
StatementStep(w) ==
    \/ RiskNext(w) /\ UNCHANGED soaVars
    \/ \E c \in Controls :
           \/ \E row \in GapRows : AssessGap(w, c, row)
           \/ \E row \in SoaRows : BeginItem(w, c, row)
           \/ \E fields \in SUBSET Fields, risk \in BOOLEAN :
                  BeginReconcile(w, c, fields, risk)
    \/ BeginConsolidate(w) \/ ReadFeed(w) \/ CommitConsolidate(w) \/ RefuseConsolidate(w)
    \/ CommitSoaItem(w)
    \/ SubmitReview(w) \/ BeginApprove(w) \/ ReadItems(w) \/ ReadPlanInForce(w)
    \/ CommitVersion(w)

\* Every step is one.
LEMMA StepsOfThreads == SoaNext => \E w \in Workers : StatementStep(w)
BY DEF SoaNext, StatementStep

\* Every step keeps the invariant.
LEMMA StatementStepKeeps ==
  ASSUME PlanInv, NEW w \in Workers, StatementStep(w)
  PROVE  PlanInv'
<1>1. CASE RiskNext(w) /\ UNCHANGED soaVars
  <2>1. ASSUME NEW r \in Risks, CreateRisk(w, r)
        PROVE  PlanInv'
    BY <1>1, <2>1, CreateRiskKeeps
  <2>2. ASSUME NEW r \in Risks, ArchiveRisk(w, r)
        PROVE  PlanInv'
    BY <1>1, <2>2, ArchiveRiskKeeps
  <2>3. ASSUME NEW r \in Risks, WorksOn(w, r)
        PROVE  PlanInv'
    BY <1>1, <2>3, RiskWorkKeeps
  <2>4. ASSUME NEW r \in Risks, NEW c \in Controls, AddControl(w, r, c) \/ RemoveControl(w, r, c)
        PROVE  PlanInv'
    BY <1>1, <2>4, ControlKeeps
  <2>5. ASSUME NEW m \in Methodologies, PutMethodology(w, m)
        PROVE  PlanInv'
    BY <1>1, <2>5, PutMethodologyKeeps
  <2>6. CASE BeginApprovePlan(w) \/ GatePlan(w) \/ ReadPlan(w)
    BY <1>1, <2>6, PlanStepKeeps
  <2>7. CASE SubmitPlan(w)
    BY <1>1, <2>7, SubmitPlanKeeps
  <2>8. CASE CommitRisk(w)
    BY <1>1, <2>8, CommitRiskKeeps
  <2>9. CASE CommitMethodology(w)
    BY <1>1, <2>9, CommitMethodologyKeeps
  <2>10. CASE CommitPlan(w)
    BY <1>1, <2>10, CommitPlanKeeps
  <2> QED
    BY <1>1, <2>1, <2>2, <2>3, <2>4, <2>5, <2>6, <2>7, <2>8, <2>9, <2>10
    DEF RiskNext, WorksOn
<1>2. ASSUME NEW c \in Controls, NEW row \in GapRows, AssessGap(w, c, row)
      PROVE  PlanInv'
  BY <1>2, AssessGapKeeps
<1>3. ASSUME NEW c \in Controls,
             \/ \E row \in SoaRows : BeginItem(w, c, row)
             \/ \E fields \in SUBSET Fields, risk \in BOOLEAN :
                    BeginReconcile(w, c, fields, risk)
      PROVE  PlanInv'
  BY <1>3, ItemTakenKeeps
<1> QED
  BY <1>1, <1>2, <1>3, BeginConsolidateKeeps, ReadFeedKeeps, CommitConsolidateKeeps,
     RefuseConsolidateKeeps, CommitSoaItemKeeps, SubmitReviewKeeps, BeginApproveKeeps,
     ReadItemsKeeps, ReadPlanInForceKeeps, CommitVersionKeeps DEF StatementStep

\* The invariant holds of the tables when there is nothing in them.
LEMMA StatementStarts ==
  ASSUME SoaInit
  PROVE  PlanInv
<1>1. /\ methodology = Default /\ risks = [r \in Risks |-> NoRow] /\ controls = {}
      /\ plan = [draft |-> "draft", current |-> 0] /\ plans = <<>> /\ overlapped = FALSE
      /\ req = [w \in Workers |-> Idle] /\ gap = [c \in Controls |-> NoRow] /\ soa = NoRow
      /\ soaItems = [c \in Controls |-> NoRow] /\ versions = <<>>
  BY DEF SoaInit, RiskInit, NoItems
<1>2. plans \in Seq(PlanBodies) /\ Len(plans) = 0 /\ versions \in Seq(Snapshots)
  BY <1>1
<1>3. 0 \in 0 .. Len(plans)
  BY <1>2
<1>4. RiskTypeOK
  BY <1>1, <1>2, <1>3, RiskAssumption DEF RiskTypeOK, Drafts
<1>5. SoaTypeOK
  BY <1>1, <1>2, <1>4 DEF SoaTypeOK, Assessments, Statements
<1>6. VersionsAreComplete /\ NormativeIsBacked
  BY <1>1 DEF VersionsAreComplete, NormativeIsBacked
<1> QED
  BY <1>1, <1>5, <1>6 DEF PlanInv

\* It holds in every state.
THEOREM PlanInvariant == SoaSpec => []PlanInv
<1>1. PlanInv /\ [SoaNext]_statementVars => PlanInv'
  <2> SUFFICES ASSUME PlanInv, [SoaNext]_statementVars
               PROVE  PlanInv'
    OBVIOUS
  <2>1. CASE SoaNext
    BY <2>1, StepsOfThreads, StatementStepKeeps
  <2>2. CASE UNCHANGED statementVars
    <3>1. /\ methodology' = methodology /\ risks' = risks /\ controls' = controls
          /\ plan' = plan /\ plans' = plans /\ gap' = gap /\ soa' = soa
          /\ soaItems' = soaItems /\ versions' = versions /\ overlapped' = overlapped
          /\ req' = req
      BY <2>2 DEF statementVars, riskVars, soaVars
    <3> QED
      BY <3>1 DEF PlanInv, SoaTypeOK, RiskTypeOK, VersionsAreComplete, NormativeIsBacked,
                  Brings, Levelled, Since, KeepsLevel, Grounded, Backed, AllComplete
  <2> QED
    BY <2>1, <2>2
<1> QED
  BY <1>1, StatementStarts, PTL DEF SoaSpec

----------------------------------------------------------------------------
(* Requests that do not overlap.                                           *)

\* Until two requests overlap, one thread at most is serving.
Alone ==
    ~overlapped => \A v, u \in Workers : v # u => req[v] = Idle \/ req[u] = Idle

\* Every risk is classified by the methodology in use.
AllClassified == \A r \in Risks : risks[r] # NoRow => Classified(risks[r], methodology)

\* A plan covers risks, and none that is only identified.
Covers(body) ==
    /\ \E r \in Risks : body[r] # NoRow
    /\ \A r \in Risks : body[r] # NoRow => body[r].status # "identified"

PlansCover == \A v \in DOMAIN plans : Covers(plans[v])

\* What the one request has read is still so.
Current(q) ==
    /\ q.op = "risk" => q.loaded = risks[q.risk] /\ Classified(q.row, methodology)
    /\ q.op = "methodology" => q.loaded = risks
    /\ q.op = "plan" =>
           /\ q.todo = <<"read">> => PlanGate
           /\ q.todo = <<>> => Covers(q.body)
    /\ q.op = "consolidate" => q.items = soaItems
    /\ q.op = "reconcile" =>
           /\ q.loaded = soaItems[q.control]
           /\ q.row.reasons = q.loaded.reasons /\ q.row.links = q.loaded.links
           /\ q.risk /\ q.todo = <<>> => q.feed = FeedNow

\* What holds as long as requests do not overlap.
SerialStatement ==
    /\ Alone
    /\ ~overlapped => AllClassified /\ PlansCover
    /\ ~overlapped => \A w \in Workers : req[w] # Idle => Current(req[w])

\* A thread whose step leaves no overlap is alone.
LEMMA OthersIdle ==
  ASSUME Alone, NEW w \in Workers, Overlap(w), ~overlapped'
  PROVE  ~overlapped /\ \A v \in Workers \ {w} : req[v] = Idle
<1>1. overlapped' = (overlapped \/ \E v \in Workers \ {w} : req[v] # Idle)
  BY DEF Overlap
<1> QED
  BY <1>1

\* Every step says whether it overlaps, and is of one thread.
LEMMA StepOfOne ==
  ASSUME PlanInv, NEW w \in Workers, StatementStep(w)
  PROVE  Overlap(w) /\ \A v \in Workers \ {w} : req'[v] = req[v]
<1>1. CASE RiskNext(w)
  BY <1>1 DEF RiskNext, CreateRisk, ArchiveRisk, AcceptRisk, EvaluateRisk, SetTreatment,
              AddControl, RemoveControl, PutMethodology, SubmitPlan, BeginApprovePlan,
              CommitRisk, CommitMethodology, GatePlan, ReadPlan, CommitPlan, AtOnce, Begin,
              Finish, Answer, PlanInv, SoaTypeOK
<1>2. CASE ~RiskNext(w)
  BY <1>2 DEF StatementStep, AssessGap, BeginItem, BeginReconcile, BeginConsolidate, ReadFeed,
              CommitConsolidate, RefuseConsolidate, CommitSoaItem, SubmitReview, BeginApprove,
              ReadItems, ReadPlanInForce, CommitVersion, AtOnce, Begin, Finish, Answer,
              PlanInv, SoaTypeOK
<1> QED
  BY <1>1, <1>2

\* What a step of the one thread has to keep.
StaysSerial(w) ==
    /\ AllClassified'
    /\ PlansCover'
    /\ req'[w] # Idle => Current(req[w])'

\* A step that only moves the request of the thread, or takes one.
LEMMA SerialThreadMoves ==
  ASSUME PlanInv, AllClassified, PlansCover, NEW w \in Workers, NEW r,
         req' = [req EXCEPT ![w] = r], UNCHANGED <<riskVars, soaVars>>, r # Idle => Current(r)
  PROVE  StaysSerial(w)
<1>1. /\ methodology' = methodology /\ risks' = risks /\ controls' = controls
      /\ plan' = plan /\ plans' = plans /\ soaItems' = soaItems
  BY DEF riskVars, soaVars
<1>2. AllClassified' /\ PlansCover'
  BY <1>1 DEF AllClassified, PlansCover, Classified
<1>3. req'[w] = r
  BY DEF PlanInv, SoaTypeOK
<1>4. r # Idle => Current(r)'
  BY <1>1 DEF Current, Classified, Covers, PlanGate, Active, FeedNow, Feed
<1> QED
  BY <1>2, <1>3, <1>4 DEF StaysSerial

\* A step after which the thread is idle.
LEMMA SerialEnds ==
  ASSUME PlanInv, NEW w \in Workers, Answer(w) \/ (req[w] = Idle /\ UNCHANGED req),
         AllClassified', PlansCover'
  PROVE  StaysSerial(w)
<1>1. req'[w] = Idle
  BY DEF PlanInv, SoaTypeOK, Answer
<1> QED
  BY <1>1 DEF StaysSerial

\* Risks and plans that do not change stay as they should be.
LEMMA SerialSame ==
  ASSUME AllClassified, PlansCover, UNCHANGED <<methodology, risks, plans>>
  PROVE  AllClassified' /\ PlansCover'
BY DEF AllClassified, PlansCover, Classified

\* An UPDATE of the row that was loaded writes the row.
LEMMA UpdatedFresh ==
  ASSUME NEW old \in RiskRows, NEW new \in RiskRows
  PROVE  Updated(old, old, new) = new
<1> PICK up : up = Updated(old, old, new)
  OBVIOUS
<1>1. /\ up \in RiskRows
      /\ up.status = new.status /\ up.archived = new.archived /\ up.owner = new.owner
      /\ up.prob = new.prob /\ up.impact = new.impact /\ up.level = new.level
      /\ up.rprob = new.rprob /\ up.rimpact = new.rimpact /\ up.rlevel = new.rlevel
  BY UpdatedRow DEF Column
<1>2. up = new
  BY <1>1 DEF RiskRows
<1> QED
  BY <1>2

\* Serially the steps on a risk keep every risk classified.
LEMMA SerialRisk ==
  ASSUME PlanInv, AllClassified, PlansCover, NEW w \in Workers, NEW r \in Risks,
         UNCHANGED soaVars, CreateRisk(w, r) \/ ArchiveRisk(w, r)
  PROVE  StaysSerial(w)
<1>1. /\ methodology' = methodology /\ plans' = plans /\ req[w] = Idle /\ UNCHANGED req
  BY DEF CreateRisk, ArchiveRisk, AtOnce
<1>2. PlansCover'
  BY <1>1 DEF PlansCover
<1>3. AllClassified'
  <2>1. CASE CreateRisk(w, r)
    BY <1>1, <2>1, NewRiskRow DEF CreateRisk, AllClassified, Classified, PlanInv, SoaTypeOK,
                              RiskTypeOK
  <2>2. CASE ArchiveRisk(w, r)
    <3> PICK new : new = [risks[r] EXCEPT !.archived = TRUE]
      OBVIOUS
    <3>1. risks[r] # NoRow /\ risks[r] \in RiskRows
      BY <2>2, RiskThere DEF ArchiveRisk
    <3>2. /\ new.prob = risks[r].prob /\ new.impact = risks[r].impact
          /\ new.level = risks[r].level /\ new.rprob = risks[r].rprob
          /\ new.rimpact = risks[r].rimpact /\ new.rlevel = risks[r].rlevel
      BY <3>1 DEF RiskRows
    <3>3. Classified(new, methodology)
      BY <3>1, <3>2 DEF AllClassified, Classified
    <3>4. risks' = [risks EXCEPT ![r] = new]
      BY <2>2 DEF ArchiveRisk
    <3> QED
      BY <1>1, <3>3, <3>4 DEF AllClassified, Classified, PlanInv, SoaTypeOK, RiskTypeOK
  <2> QED
    BY <2>1, <2>2
<1> QED
  BY <1>1, <1>2, <1>3, SerialEnds

\* Serially a request on a risk is taken with a row of the methodology in use.
LEMMA SerialRiskTaken ==
  ASSUME PlanInv, AllClassified, PlansCover, NEW w \in Workers, NEW r \in Risks,
         UNCHANGED soaVars, WorksOn(w, r)
  PROVE  StaysSerial(w)
<1>1. risks[r] # NoRow /\ Classified(risks[r], methodology)
  BY RiskWork DEF AllClassified
<1> PICK row : /\ Classified(risks[r], methodology) => Classified(row, methodology)
               /\ Begin(w, [op |-> "risk", risk |-> r, loaded |-> risks[r], row |-> row])
  BY RiskWork
<1> PICK q : q = [op |-> "risk", risk |-> r, loaded |-> risks[r], row |-> row]
  OBVIOUS
<1>2. Current(q)
  BY <1>1 DEF Current
<1>3. req' = [req EXCEPT ![w] = q] /\ UNCHANGED <<riskVars, soaVars>>
  BY DEF Begin
<1> QED
  BY <1>2, <1>3, SerialThreadMoves

\* Serially a request on a risk writes its row.
LEMMA SerialRiskCommits ==
  ASSUME PlanInv, AllClassified, PlansCover, NEW w \in Workers, Current(req[w]),
         CommitRisk(w), UNCHANGED soaVars
  PROVE  StaysSerial(w)
<1> PICK q : q = req[w]
  OBVIOUS
<1>1. q \in PlanRequests /\ q.op = "risk"
  BY Served DEF CommitRisk
<1>2. q.risk \in Risks /\ q.loaded \in RiskRows /\ q.row \in RiskRows
  BY <1>1, PlanFields
<1>3. q.loaded = risks[q.risk] /\ Classified(q.row, methodology)
  BY <1>1 DEF Current
<1>4. risks' = [risks EXCEPT ![q.risk] = q.row]
  BY <1>2, <1>3, UpdatedFresh DEF CommitRisk
<1>5. methodology' = methodology /\ plans' = plans /\ Answer(w)
  BY DEF CommitRisk, Finish
<1>6. AllClassified'
  BY <1>2, <1>3, <1>4, <1>5 DEF AllClassified, Classified, PlanInv, SoaTypeOK, RiskTypeOK
<1>7. PlansCover'
  BY <1>5 DEF PlansCover
<1> QED
  BY <1>5, <1>6, <1>7, SerialEnds

\* Serially a change of methodology classifies every risk by the new one.
LEMMA SerialMethodology ==
  ASSUME PlanInv, PlansCover, NEW w \in Workers, Current(req[w]),
         CommitMethodology(w), UNCHANGED soaVars
  PROVE  StaysSerial(w)
<1> PICK q : q = req[w]
  OBVIOUS
<1>1. q \in PlanRequests /\ q.op = "methodology"
  BY Served DEF CommitMethodology
<1>2. q.to \in Methodologies /\ q.loaded = risks
  BY <1>1, PlanFields DEF Current
<1>3. methodology' = q.to /\ plans' = plans /\ Answer(w)
  BY DEF CommitMethodology, Finish
<1>4. ASSUME NEW r \in Risks, risks'[r] # NoRow
      PROVE  Classified(risks'[r], q.to)
  <2>1. risks[r] # NoRow
    BY <1>2, <1>4 DEF CommitMethodology
  <2> PICK old : old = risks[r]
    OBVIOUS
  <2> PICK new : new = Recomputed(old, q.to)
    OBVIOUS
  <2>2. old \in RiskRows /\ Levelled(old)
    BY <2>1, RiskThere
  <2>3. new \in RiskRows /\ Classified(new, q.to)
    BY <1>2, <2>2, RecomputedRow DEF Levelled
  <2>4. risks'[r] = Updated(old, old, new)
    BY <1>2, <2>1 DEF CommitMethodology
  <2>5. risks'[r] = new
    BY <2>2, <2>3, <2>4, UpdatedFresh
  <2> QED
    BY <2>3, <2>5
<1>5. AllClassified'
  BY <1>3, <1>4 DEF AllClassified
<1>6. PlansCover'
  BY <1>3 DEF PlansCover
<1> QED
  BY <1>3, <1>5, <1>6, SerialEnds

\* Serially a change of methodology is taken with the risks there are.
LEMMA SerialPutMethodology ==
  ASSUME PlanInv, AllClassified, PlansCover, NEW w \in Workers, NEW m \in Methodologies,
         PutMethodology(w, m), UNCHANGED soaVars
  PROVE  StaysSerial(w)
<1> PICK q : q = [op |-> "methodology", to |-> m, loaded |-> risks]
  OBVIOUS
<1>1. Current(q)
  BY DEF Current
<1>2. req' = [req EXCEPT ![w] = q] /\ UNCHANGED <<riskVars, soaVars>>
  BY DEF PutMethodology, Begin
<1> QED
  BY <1>1, <1>2, SerialThreadMoves

\* Serially the plan that is read has passed the gate.
LEMMA SerialPlan ==
  ASSUME PlanInv, AllClassified, PlansCover, NEW w \in Workers, UNCHANGED soaVars,
         req[w] # Idle => Current(req[w]), BeginApprovePlan(w) \/ GatePlan(w) \/ ReadPlan(w)
  PROVE  StaysSerial(w)
<1>1. CASE BeginApprovePlan(w)
  <2> PICK q : q = [op |-> "plan", todo |-> <<"gate", "read">>, body |-> NoBody]
    OBVIOUS
  <2>1. <<"gate", "read">> # <<"read">> /\ <<"gate", "read">> # <<>>
    OBVIOUS
  <2>2. Current(q)
    BY <2>1 DEF Current
  <2>3. req' = [req EXCEPT ![w] = q] /\ UNCHANGED <<riskVars, soaVars>>
    BY <1>1 DEF BeginApprovePlan, Begin, NoBody
  <2> QED
    BY <2>2, <2>3, SerialThreadMoves
<1>2. CASE GatePlan(w)
  <2> PICK old : old = req[w]
    OBVIOUS
  <2>1. old \in PlanRequests /\ old.op = "plan"
    BY <1>2, Served DEF GatePlan
  <2> PICK new : new = [old EXCEPT !.todo = <<"read">>]
    OBVIOUS
  <2>2. old \in [op : {"plan"}, todo : {<<"gate", "read">>, <<"read">>, <<>>}, body : PlanBodies]
    BY <2>1 DEF PlanRequests, RiskRequests, SoaRequests
  <2>3. new.op = "plan" /\ new.todo = <<"read">>
    BY <2>2
  <2>4. <<"read">> # <<>>
    OBVIOUS
  <2>5. PlanGate => Current(new)
    BY <2>3, <2>4 DEF Current
  <2> PICK r : r = IF PlanGate THEN new ELSE Idle
    OBVIOUS
  <2>6. /\ req' = [req EXCEPT ![w] = r] /\ UNCHANGED <<riskVars, soaVars>>
        /\ r # Idle => Current(r)
    BY <1>2, <2>5 DEF GatePlan
  <2> QED
    BY <2>6, SerialThreadMoves
<1>3. CASE ReadPlan(w)
  <2> PICK old : old = req[w]
    OBVIOUS
  <2> PICK body : body = BodyNow
    OBVIOUS
  <2> PICK new : new = [old EXCEPT !.todo = <<>>, !.body = body]
    OBVIOUS
  <2>1. old \in PlanRequests /\ old.op = "plan" /\ old.todo = <<"read">>
    BY <1>3, Served DEF ReadPlan
  <2>2. old \in [op : {"plan"}, todo : {<<"gate", "read">>, <<"read">>, <<>>}, body : PlanBodies]
    BY <2>1 DEF PlanRequests, RiskRequests, SoaRequests
  <2>3. new.op = "plan" /\ new.todo = <<>> /\ new.body = body
    BY <2>2
  <2>4. old # Idle
    BY <1>3 DEF ReadPlan, Serving
  <2>5. Current(old)
    BY <2>4
  <2>6. PlanGate
    BY <2>1, <2>5 DEF Current
  <2>7. Covers(body)
    <3>1. PICK r \in Active : TRUE
      BY <2>6 DEF PlanGate
    <3>2. r \in Risks /\ body[r] # NoRow
      BY <3>1, BodyTyped
    <3>3. \A s \in Risks : body[s] # NoRow => body[s].status # "identified"
      BY <2>6 DEF PlanGate, BodyNow
    <3> QED
      BY <3>2, <3>3 DEF Covers
  <2>8. Current(new)
    <3>1. <<>> # <<"read">>
      OBVIOUS
    <3> QED
      BY <2>3, <2>7, <3>1 DEF Current
  <2>9. w \in DOMAIN req
    BY DEF PlanInv, SoaTypeOK
  <2>10. req' = [req EXCEPT ![w] = new] /\ UNCHANGED <<riskVars, soaVars>>
    BY <1>3, <2>9 DEF ReadPlan
  <2> QED
    BY <2>8, <2>10, SerialThreadMoves
<1> QED
  BY <1>1, <1>2, <1>3

\* Serially an approved plan covers risks that have been evaluated.
LEMMA SerialPlanCommits ==
  ASSUME PlanInv, AllClassified, PlansCover, NEW w \in Workers, Current(req[w]),
         CommitPlan(w), UNCHANGED soaVars
  PROVE  StaysSerial(w)
<1> PICK body : body = req[w].body
  OBVIOUS
<1>1. req[w].op = "plan" /\ req[w].todo = <<>>
  BY DEF CommitPlan, Serving
<1>2. Covers(body)
  BY <1>1 DEF Current
<1>3. /\ plans' = Append(plans, body) /\ methodology' = methodology /\ risks' = risks
      /\ Answer(w)
  BY DEF CommitPlan, Finish
<1>4. plans \in Seq(PlanBodies)
  BY DEF PlanInv, SoaTypeOK, RiskTypeOK
<1>5. \A v \in DOMAIN plans' : (v \in DOMAIN plans /\ plans'[v] = plans[v]) \/ plans'[v] = body
  BY <1>3, <1>4
<1>6. PlansCover'
  BY <1>2, <1>5 DEF PlansCover, Covers
<1>7. AllClassified'
  BY <1>3 DEF AllClassified, Classified
<1> QED
  BY <1>3, <1>6, <1>7, SerialEnds

\* Serially the steps that touch neither risks nor plans, and leave the thread
\* idle.
LEMMA SerialElsewhere ==
  ASSUME PlanInv, AllClassified, PlansCover, NEW w \in Workers,
         \/ \E r \in Risks, c \in Controls : AddControl(w, r, c) \/ RemoveControl(w, r, c)
         \/ SubmitPlan(w)
         \/ \E c \in Controls, row \in GapRows : AssessGap(w, c, row)
         \/ CommitConsolidate(w) \/ RefuseConsolidate(w) \/ CommitSoaItem(w)
         \/ SubmitReview(w) \/ CommitVersion(w)
  PROVE  StaysSerial(w)
<1>1. /\ UNCHANGED <<methodology, risks, plans>>
      /\ Answer(w) \/ (req[w] = Idle /\ UNCHANGED req)
  BY DEF AddControl, RemoveControl, SubmitPlan, AssessGap, CommitConsolidate,
         RefuseConsolidate, CommitSoaItem, SubmitReview, CommitVersion, AtOnce, Finish,
         riskVars
<1> QED
  BY <1>1, SerialSame, SerialEnds

\* Serially a consolidation is taken with the items there are.
LEMMA SerialConsolidateTaken ==
  ASSUME PlanInv, AllClassified, PlansCover, NEW w \in Workers, BeginConsolidate(w)
  PROVE  StaysSerial(w)
<1> PICK q : q = [op |-> "consolidate", todo |-> <<"feed">>, gap |-> gap,
                  items |-> soaItems, feed |-> NoFeed]
  OBVIOUS
<1>1. Current(q)
  BY DEF Current
<1>2. req' = [req EXCEPT ![w] = q] /\ UNCHANGED <<riskVars, soaVars>>
  BY DEF BeginConsolidate, Begin
<1> QED
  BY <1>1, <1>2, SerialThreadMoves

\* Serially the risks are read that controls treat.
LEMMA SerialReadFeed ==
  ASSUME PlanInv, AllClassified, PlansCover, NEW w \in Workers, Current(req[w]), ReadFeed(w)
  PROVE  StaysSerial(w)
<1> PICK old : old = req[w]
  OBVIOUS
<1> PICK feed : feed = FeedNow
  OBVIOUS
<1>1. old \in PlanRequests /\ old.op \in {"consolidate", "reconcile"} /\ Current(old)
  BY Served DEF ReadFeed
<1> PICK new : new = [old EXCEPT !.todo = <<>>, !.feed = feed]
  OBVIOUS
<1>2. w \in DOMAIN req
  BY DEF PlanInv, SoaTypeOK
<1>3. req' = [req EXCEPT ![w] = new] /\ UNCHANGED <<riskVars, soaVars>>
  BY <1>2 DEF ReadFeed, FeedNow
<1>4. Current(new)
  <2>1. CASE old.op = "consolidate"
    <3>1. old \in ConsolidateRequests
      BY <1>1, <2>1, StatementShapes
    <3>2. new.op = old.op /\ new.items = old.items
      BY <3>1 DEF ConsolidateRequests
    <3> QED
      BY <1>1, <2>1, <3>2 DEF Current
  <2>2. CASE old.op = "reconcile"
    <3>1. old \in ReconcileRequests
      BY <1>1, <2>2, StatementShapes
    <3>2. /\ new.op = old.op /\ new.control = old.control /\ new.loaded = old.loaded
          /\ new.row = old.row /\ new.feed = feed
      BY <3>1 DEF ReconcileRequests
    <3> QED
      BY <1>1, <2>2, <3>2 DEF Current
  <2> QED
    BY <1>1, <2>1, <2>2
<1> QED
  BY <1>3, <1>4, SerialThreadMoves

\* Serially an item is edited, or reconciled, as it is.
LEMMA SerialItemTaken ==
  ASSUME PlanInv, AllClassified, PlansCover, NEW w \in Workers, NEW c \in Controls,
         \/ \E row \in SoaRows : BeginItem(w, c, row)
         \/ \E fields \in SUBSET Fields, risk \in BOOLEAN : BeginReconcile(w, c, fields, risk)
  PROVE  StaysSerial(w)
<1>1. soaItems[c] \in SoaRows /\ gap[c] \in GapRows
  BY DEF BeginItem, BeginReconcile, PlanInv, SoaTypeOK, Statements, Assessments
<1>2. ASSUME NEW row \in SoaRows, BeginItem(w, c, row)
      PROVE  StaysSerial(w)
  <2> PICK q : q = [op |-> "item", control |-> c, loaded |-> soaItems[c], row |-> row]
    OBVIOUS
  <2>1. Current(q)
    BY DEF Current
  <2>2. req' = [req EXCEPT ![w] = q] /\ UNCHANGED <<riskVars, soaVars>>
    BY <1>2 DEF BeginItem, Begin
  <2> QED
    BY <2>1, <2>2, SerialThreadMoves
<1>3. ASSUME NEW fields \in SUBSET Fields, NEW risk \in BOOLEAN,
             BeginReconcile(w, c, fields, risk)
      PROVE  StaysSerial(w)
  <2> PICK row : row = FromAssessment(soaItems[c], gap[c], fields)
    OBVIOUS
  <2> PICK todo : todo = IF risk THEN <<"feed">> ELSE <<>>
    OBVIOUS
  <2> PICK q : q = [op |-> "reconcile", todo |-> todo, control |-> c, loaded |-> soaItems[c],
                    row |-> row, feed |-> NoFeed, risk |-> risk]
    OBVIOUS
  <2>1. row.reasons = soaItems[c].reasons /\ row.links = soaItems[c].links
    BY <1>1, ReassessedRow
  <2>2. <<"feed">> # <<>>
    OBVIOUS
  <2>3. q.risk => q.todo # <<>>
    BY <2>2
  <2>4. Current(q)
    BY <2>1, <2>3 DEF Current
  <2>5. req' = [req EXCEPT ![w] = q] /\ UNCHANGED <<riskVars, soaVars>>
    BY <1>3 DEF BeginReconcile, Begin
  <2> QED
    BY <2>4, <2>5, SerialThreadMoves
<1> QED
  BY <1>2, <1>3

\* Serially nothing is asked of an approval of the statement.
LEMMA SerialApproval ==
  ASSUME PlanInv, AllClassified, PlansCover, NEW w \in Workers,
         BeginApprove(w) \/ ReadItems(w) \/ ReadPlanInForce(w)
  PROVE  StaysSerial(w)
<1>1. UNCHANGED <<methodology, risks, plans>>
  BY DEF BeginApprove, ReadItems, ReadPlanInForce, Begin, riskVars
<1>2. AllClassified' /\ PlansCover'
  BY <1>1, SerialSame
<1>3. req'[w] = Idle \/ req'[w].op = "soa"
  <2>1. CASE BeginApprove(w)
    BY <2>1 DEF BeginApprove, Begin, PlanInv, SoaTypeOK
  <2>2. CASE ReadItems(w) \/ ReadPlanInForce(w)
    <3> PICK old : old = req[w]
      OBVIOUS
    <3>1. old \in VersionRequests
      BY <2>2, Served, StatementShapes DEF ReadItems, ReadPlanInForce
    <3>2. CASE ReadItems(w)
      <4> PICK its : its = soaItems
        OBVIOUS
      <4> PICK new : new = [old EXCEPT !.todo = <<"plan">>, !.snapshot.items = its]
        OBVIOUS
      <4>1. new.op = "soa"
        BY <3>1 DEF VersionRequests
      <4>2. req'[w] = IF Incomplete(soaItems) = {} THEN new ELSE Idle
        BY <3>2 DEF ReadItems, PlanInv, SoaTypeOK
      <4> QED
        BY <4>1, <4>2
    <3>3. CASE ReadPlanInForce(w)
      <4> PICK n : n = plan.current
        OBVIOUS
      <4> PICK kind : kind = IF HasApprovedPlan THEN "normative" ELSE "pre_soa"
        OBVIOUS
      <4> PICK new : new = [old EXCEPT !.todo = <<>>, !.snapshot.kind = kind,
                                       !.snapshot.plan = n]
        OBVIOUS
      <4>1. new.op = "soa"
        BY <3>1 DEF VersionRequests
      <4>2. req'[w] = new
        BY <3>3 DEF ReadPlanInForce, PlanInv, SoaTypeOK
      <4> QED
        BY <4>1, <4>2
    <3> QED
      BY <2>2, <3>2, <3>3
  <2> QED
    BY <2>1, <2>2
<1> PICK q : q = req'[w]
  OBVIOUS
<1>4. q # Idle => Current(q)'
  BY <1>3 DEF Current
<1> QED
  BY <1>2, <1>4 DEF StaysSerial

\* A serial step keeps what holds serially.
LEMMA SerialStepKeeps ==
  ASSUME PlanInv, SerialStatement, NEW w \in Workers, StatementStep(w), ~overlapped'
  PROVE  StaysSerial(w)
<1>1. ~overlapped
  BY StepOfOne, OthersIdle DEF SerialStatement
<1>2. AllClassified /\ PlansCover /\ (req[w] # Idle => Current(req[w]))
  BY <1>1 DEF SerialStatement
<1>3. CASE RiskNext(w) /\ UNCHANGED soaVars
  <2>1. ASSUME NEW r \in Risks, CreateRisk(w, r) \/ ArchiveRisk(w, r)
        PROVE  StaysSerial(w)
    BY <1>2, <1>3, <2>1, SerialRisk
  <2>2. ASSUME NEW r \in Risks, WorksOn(w, r)
        PROVE  StaysSerial(w)
    BY <1>2, <1>3, <2>2, SerialRiskTaken
  <2>3. ASSUME NEW r \in Risks, NEW c \in Controls, AddControl(w, r, c) \/ RemoveControl(w, r, c)
        PROVE  StaysSerial(w)
    BY <1>2, <2>3, SerialElsewhere
  <2>4. ASSUME NEW m \in Methodologies, PutMethodology(w, m)
        PROVE  StaysSerial(w)
    BY <1>2, <1>3, <2>4, SerialPutMethodology
  <2>5. CASE BeginApprovePlan(w) \/ GatePlan(w) \/ ReadPlan(w)
    BY <1>2, <1>3, <2>5, SerialPlan
  <2>6. CASE SubmitPlan(w)
    BY <1>2, <2>6, SerialElsewhere
  <2>7. CASE CommitRisk(w)
    <3>1. req[w] # Idle
      BY <2>7 DEF CommitRisk, Serving
    <3> QED
      BY <1>2, <1>3, <2>7, <3>1, SerialRiskCommits
  <2>8. CASE CommitMethodology(w)
    <3>1. req[w] # Idle
      BY <2>8 DEF CommitMethodology, Serving
    <3> QED
      BY <1>2, <1>3, <2>8, <3>1, SerialMethodology
  <2>9. CASE CommitPlan(w)
    <3>1. req[w] # Idle
      BY <2>9 DEF CommitPlan, Serving
    <3> QED
      BY <1>2, <1>3, <2>9, <3>1, SerialPlanCommits
  <2> QED
    BY <1>3, <2>1, <2>2, <2>3, <2>4, <2>5, <2>6, <2>7, <2>8, <2>9
    DEF RiskNext, WorksOn
<1>4. ASSUME NEW c \in Controls, NEW row \in GapRows, AssessGap(w, c, row)
      PROVE  StaysSerial(w)
  BY <1>2, <1>4, SerialElsewhere
<1>5. ASSUME NEW c \in Controls,
             \/ \E row \in SoaRows : BeginItem(w, c, row)
             \/ \E fields \in SUBSET Fields, risk \in BOOLEAN :
                    BeginReconcile(w, c, fields, risk)
      PROVE  StaysSerial(w)
  BY <1>2, <1>5, SerialItemTaken
<1>6. CASE BeginConsolidate(w)
  BY <1>2, <1>6, SerialConsolidateTaken
<1>7. CASE ReadFeed(w)
  <2>1. req[w] # Idle
    BY <1>7 DEF ReadFeed, Serving
  <2> QED
    BY <1>2, <1>7, <2>1, SerialReadFeed
<1>8. CASE CommitConsolidate(w) \/ RefuseConsolidate(w) \/ CommitSoaItem(w)
           \/ SubmitReview(w) \/ CommitVersion(w)
  BY <1>2, <1>8, SerialElsewhere
<1>9. CASE BeginApprove(w) \/ ReadItems(w) \/ ReadPlanInForce(w)
  BY <1>2, <1>9, SerialApproval
<1> QED
  BY <1>3, <1>4, <1>5, <1>6, <1>7, <1>8, <1>9 DEF StatementStep

\* A step keeps what holds serially.
LEMMA SerialStatementStep ==
  ASSUME PlanInv, SerialStatement, NEW w \in Workers, StatementStep(w)
  PROVE  SerialStatement'
<1> SUFFICES ASSUME ~overlapped'
             PROVE  /\ \A v, u \in Workers : v # u => req'[v] = Idle \/ req'[u] = Idle
                    /\ AllClassified' /\ PlansCover'
                    /\ \A v \in Workers : req'[v] # Idle => Current(req[v])'
  BY DEF SerialStatement, Alone
<1>1. \A v \in Workers \ {w} : req'[v] = Idle
  BY StepOfOne, OthersIdle DEF SerialStatement
<1>2. StaysSerial(w)
  BY SerialStepKeeps
<1>3. \A v, u \in Workers : v # u => req'[v] = Idle \/ req'[u] = Idle
  BY <1>1
<1>4. ASSUME NEW v \in Workers, req'[v] # Idle
      PROVE  Current(req[v])'
  <2>1. v = w
    BY <1>1, <1>4
  <2> QED
    BY <1>2, <1>4, <2>1 DEF StaysSerial
<1> QED
  BY <1>2, <1>3, <1>4 DEF StaysSerial

\* As long as requests do not overlap.
LEMMA SerialStatementHolds == SoaSpec => []SerialStatement
<1>1. SoaInit => SerialStatement
  <2> SUFFICES ASSUME SoaInit
               PROVE  SerialStatement
    OBVIOUS
  <2>1. /\ risks = [r \in Risks |-> NoRow] /\ plans = <<>>
        /\ req = [w \in Workers |-> Idle]
    BY DEF SoaInit, RiskInit
  <2> QED
    BY <2>1 DEF SerialStatement, Alone, AllClassified, PlansCover
<1>2. PlanInv /\ SerialStatement /\ [SoaNext]_statementVars => SerialStatement'
  <2> SUFFICES ASSUME PlanInv, SerialStatement, [SoaNext]_statementVars
               PROVE  SerialStatement'
    OBVIOUS
  <2>1. CASE SoaNext
    BY <2>1, StepsOfThreads, SerialStatementStep
  <2>2. CASE UNCHANGED statementVars
    <3>1. /\ methodology' = methodology /\ risks' = risks /\ controls' = controls
          /\ plan' = plan /\ plans' = plans /\ gap' = gap /\ soa' = soa
          /\ soaItems' = soaItems /\ versions' = versions /\ overlapped' = overlapped
          /\ req' = req
      BY <2>2 DEF statementVars, riskVars, soaVars
    <3> QED
      BY <3>1 DEF SerialStatement, Alone, AllClassified, PlansCover, Current, Classified,
                  Covers, PlanGate, Active, FeedNow, Feed
  <2> QED
    BY <2>1, <2>2
<1> QED
  BY <1>1, <1>2, PlanInvariant, PTL DEF SoaSpec

\* The only steps that change risks that are there.
LEMMA RisksChange ==
  ASSUME PlanInv, NEW w \in Workers, StatementStep(w), NEW r \in Risks, risks[r] # NoRow,
         risks'[r].level # risks[r].level
  PROVE  CommitRisk(w) \/ CommitMethodology(w)
<1>1. CASE RiskNext(w) /\ UNCHANGED soaVars
  <2>1. ASSUME NEW s \in Risks, CreateRisk(w, s)
        PROVE  risks'[r] = risks[r]
    BY <2>1 DEF CreateRisk, PlanInv, SoaTypeOK, RiskTypeOK
  <2>2. ASSUME NEW s \in Risks, ArchiveRisk(w, s)
        PROVE  risks'[r].level = risks[r].level
    <3>1. risks[r] \in RiskRows
      BY RiskThere
    <3> QED
      BY <2>2, <3>1 DEF ArchiveRisk, PlanInv, SoaTypeOK, RiskTypeOK, RiskRows
  <2>3. ASSUME NEW s \in Risks, WorksOn(w, s)
        PROVE  risks' = risks
    BY <2>3 DEF WorksOn, AcceptRisk, EvaluateRisk, SetTreatment, Begin, riskVars
  <2>4. ASSUME NEW s \in Risks, NEW c \in Controls, AddControl(w, s, c) \/ RemoveControl(w, s, c)
        PROVE  risks' = risks
    BY <2>4 DEF AddControl, RemoveControl
  <2>5. ASSUME \/ \E m \in Methodologies : PutMethodology(w, m)
               \/ SubmitPlan(w) \/ BeginApprovePlan(w) \/ GatePlan(w) \/ ReadPlan(w)
               \/ CommitPlan(w)
        PROVE  risks' = risks
    BY <2>5 DEF PutMethodology, SubmitPlan, BeginApprovePlan, GatePlan, ReadPlan, CommitPlan,
                Begin, riskVars
  <2> QED
    BY <1>1, <2>1, <2>2, <2>3, <2>4, <2>5 DEF RiskNext, WorksOn
<1>2. CASE ~(RiskNext(w) /\ UNCHANGED soaVars)
  BY <1>2 DEF StatementStep, AssessGap, BeginItem, BeginReconcile, BeginConsolidate, ReadFeed,
              CommitConsolidate, RefuseConsolidate, CommitSoaItem, SubmitReview, BeginApprove,
              ReadItems, ReadPlanInForce, CommitVersion, Begin, riskVars
<1> QED
  BY <1>1, <1>2

\* What takes a level has worked with an impact off the scale.
LEMMA LevelTaken ==
  ASSUME PlanInv, NEW w \in Workers, StatementStep(w), NEW r \in Risks, risks[r] # NoRow,
         risks[r].level # NoValue, risks'[r].level = NoValue
  PROVE  /\ req'[w] = Idle
         /\ \/ Serving(w, {"risk"}) /\ req[w].risk = r /\ req[w].row.impact \notin Scale
            \/ Serving(w, {"methodology"}) /\ req[w].loaded[r] # NoRow
                     /\ req[w].loaded[r].impact \notin Scale
<1>1. CommitRisk(w) \/ CommitMethodology(w)
  BY RisksChange
<1>2. req'[w] = Idle
  BY <1>1 DEF CommitRisk, CommitMethodology, Finish, Answer, PlanInv, SoaTypeOK
<1> PICK q : q = req[w]
  OBVIOUS
<1>3. CASE CommitRisk(w)
  <2>1. Serving(w, {"risk"}) /\ q \in PlanRequests /\ q.op = "risk" /\ Brings(q)
    BY <1>3, Served DEF CommitRisk
  <2>2. q.risk \in Risks /\ q.loaded \in RiskRows /\ q.row \in RiskRows
    BY <2>1, PlanFields
  <2> PICK new : new = Updated(risks[q.risk], q.loaded, q.row)
    OBVIOUS
  <2>3. risks' = [risks EXCEPT ![q.risk] = new]
    BY <1>3 DEF CommitRisk
  <2>4. q.risk = r /\ risks'[r] = new
    BY <2>2, <2>3 DEF PlanInv, SoaTypeOK, RiskTypeOK
  <2>5. new.level = Column(risks[r].level, q.loaded.level, q.row.level)
    BY <2>2, <2>4, RiskThere, UpdatedRow
  <2>6. q.loaded.level # NoValue /\ q.row.level = NoValue
    BY <2>4, <2>5 DEF Column
  <2>7. q.row.impact \notin Scale
    BY <2>1, <2>6 DEF Brings, KeepsLevel
  <2> QED
    BY <1>2, <2>1, <2>4, <2>7
<1>4. CASE CommitMethodology(w)
  <2>1. Serving(w, {"methodology"}) /\ q \in PlanRequests /\ q.op = "methodology" /\ Brings(q)
    BY <1>4, Served DEF CommitMethodology
  <2>2. q.to \in Methodologies /\ q.loaded \in [Risks -> RiskRows \cup {NoRow}]
    BY <2>1, PlanFields
  <2>3. q.loaded[r] # NoRow
    BY <1>4 DEF CommitMethodology
  <2> PICK old : old = q.loaded[r]
    OBVIOUS
  <2> PICK new : new = Recomputed(old, q.to)
    OBVIOUS
  <2>4. old \in RiskRows /\ Levelled(old)
    BY <2>1, <2>2, <2>3 DEF Brings
  <2>5. new \in RiskRows /\ KeepsLevel(old, new) /\ new.impact = old.impact
    BY <2>2, <2>4, RecomputedRow DEF Levelled
  <2>6. risks'[r] = Updated(risks[r], old, new)
    BY <1>4, <2>3 DEF CommitMethodology
  <2>7. risks'[r].level = Column(risks[r].level, old.level, new.level)
    BY <2>4, <2>5, <2>6, RiskThere, UpdatedRow
  <2>8. old.impact \notin Scale
    BY <2>5, <2>7 DEF Column, KeepsLevel
  <2> QED
    BY <1>2, <2>1, <2>3, <2>8
<1> QED
  BY <1>1, <1>3, <1>4

\* A risk has what its level is computed from, and does not lose the level to a
\* stale copy; serially the level is that of the methodology in use, however
\* evaluations, treatments and changes of methodology follow each other.
THEOREM SoundLevels == SoaSpec => LevelsAreCurrent
<1>1. PlanInv /\ SerialStatement => SoaTypeOK /\ AssessedIsRated /\ LevelsFollowMethodology
  <2> SUFFICES ASSUME PlanInv, SerialStatement
               PROVE  SoaTypeOK /\ AssessedIsRated /\ LevelsFollowMethodology
    OBVIOUS
  <2>1. SoaTypeOK
    BY DEF PlanInv
  <2>2. AssessedIsRated
    BY DEF PlanInv, AssessedIsRated, Rated, Levelled
  <2>3. LevelsFollowMethodology
    BY DEF SerialStatement, LevelsFollowMethodology, Serial, AllClassified, Classified
  <2> QED
    BY <2>1, <2>2, <2>3
<1> DEFINE Kept(r) ==
        risks[r] # NoRow /\ risks[r].level # NoValue /\ risks'[r].level = NoValue =>
            \E w \in Workers :
                /\ req'[w] = Idle
                /\ \/ Serving(w, {"risk"}) /\ req[w].risk = r
                         /\ req[w].row.impact \notin Scale
                   \/ Serving(w, {"methodology"}) /\ req[w].loaded[r] # NoRow
                         /\ req[w].loaded[r].impact \notin Scale
<1>2. PlanInv /\ [SoaNext]_statementVars => [\A r \in Risks : Kept(r)]_statementVars
  <2> SUFFICES ASSUME PlanInv, SoaNext, NEW r \in Risks
               PROVE  Kept(r)
    OBVIOUS
  <2>1. PICK w \in Workers : StatementStep(w)
    BY StepsOfThreads
  <2> QED
    BY <2>1, LevelTaken
<1> QED
  BY <1>1, <1>2, PlanInvariant, SerialStatementHolds, PTL
  DEF SoaSpec, LevelsAreCurrent, LevelsAreKept

\* What was approved was complete when it was sealed: versions of the statement
\* in every interleaving, plans as long as requests do not overlap; in every
\* interleaving a plan gives none as assessed that was not rated.
THEOREM SoundApprovals == SoaSpec => []ApprovedIsComplete
<1>1. PlanInv /\ SerialStatement => ApprovedIsComplete
  <2> SUFFICES ASSUME PlanInv, SerialStatement
               PROVE  ApprovedIsComplete
    OBVIOUS
  <2>1. PlansAreDecided
    BY DEF PlanInv, Grounded, SerialStatement, PlansAreDecided, Serial, PlansCover, Covers
  <2> QED
    BY <2>1 DEF ApprovedIsComplete, PlanInv
<1> QED
  BY <1>1, PlanInvariant, SerialStatementHolds, PTL

\* The items change only where one is written or the statement consolidated.
LEMMA ItemsChange ==
  ASSUME NEW w \in Workers, StatementStep(w)
  PROVE  soaItems' = soaItems \/ CommitConsolidate(w) \/ CommitSoaItem(w)
<1>1. CASE RiskNext(w) /\ UNCHANGED soaVars
  BY <1>1 DEF soaVars
<1>2. ASSUME NEW c \in Controls, NEW row \in GapRows, AssessGap(w, c, row)
      PROVE  soaItems' = soaItems
  BY <1>2 DEF AssessGap
<1>3. ASSUME NEW c \in Controls,
             \/ \E row \in SoaRows : BeginItem(w, c, row)
             \/ \E fields \in SUBSET Fields, risk \in BOOLEAN :
                    BeginReconcile(w, c, fields, risk)
      PROVE  soaItems' = soaItems
  BY <1>3 DEF BeginItem, BeginReconcile, soaVars
<1>4. CASE \/ BeginConsolidate(w) \/ ReadFeed(w) \/ RefuseConsolidate(w) \/ SubmitReview(w)
           \/ BeginApprove(w) \/ ReadItems(w) \/ ReadPlanInForce(w) \/ CommitVersion(w)
  BY <1>4 DEF BeginConsolidate, ReadFeed, RefuseConsolidate, SubmitReview, BeginApprove,
              ReadItems, ReadPlanInForce, CommitVersion, soaVars
<1> QED
  BY <1>1, <1>2, <1>3, <1>4 DEF StatementStep

\* Serially a consolidation changes nothing of an item that carries risks, and
\* takes no reason from any; a reconciliation takes none that somebody gave.
THEOREM ReasonsSurvive == SoaSpec => DecisionsSurvive
<1> DEFINE Kept(w, c) ==
        Serving(w, {"consolidate", "reconcile"}) /\ soaItems[c] # NoRow /\ ~overlapped' =>
            /\ soaItems[c].reasons \ {"risk_treatment"} \subseteq soaItems'[c].reasons
            /\ Serving(w, {"consolidate"}) /\ soaItems[c].links # {} =>
                   soaItems'[c] = soaItems[c]
<1>1. PlanInv /\ SerialStatement /\ [SoaNext]_statementVars =>
          [\A w \in Workers, c \in Controls : Kept(w, c)]_statementVars
  <2> SUFFICES ASSUME PlanInv, SerialStatement, SoaNext, NEW w \in Workers, NEW c \in Controls,
                      Serving(w, {"consolidate", "reconcile"}), soaItems[c] # NoRow,
                      ~overlapped'
               PROVE  /\ soaItems[c].reasons \ {"risk_treatment"} \subseteq soaItems'[c].reasons
                      /\ Serving(w, {"consolidate"}) /\ soaItems[c].links # {} =>
                             soaItems'[c] = soaItems[c]
    OBVIOUS
  <2>1. StatementStep(w)
    <3>1. PICK u \in Workers : StatementStep(u)
      BY StepsOfThreads
    <3>2. u = w
      BY <3>1, StepOfOne, OthersIdle DEF SerialStatement, Serving
    <3> QED
      BY <3>1, <3>2
  <2> PICK q : q = req[w]
    OBVIOUS
  <2>2. q \in PlanRequests /\ Current(q) /\ q # Idle
    BY <2>1, Served, StepOfOne, OthersIdle DEF SerialStatement, Serving
  <2>3. soaItems[c] \in SoaRows
    BY DEF PlanInv, SoaTypeOK, Statements
  <2>4. CASE soaItems' = soaItems
    BY <2>4
  <2>5. CASE CommitConsolidate(w)
    <3>1. q.op = "consolidate" /\ q.items = soaItems
      BY <2>2, <2>5 DEF CommitConsolidate, Serving, Current
    <3>2. q.feed[c] \in SUBSET Risks
      BY <2>2, <3>1, PlanFields DEF Feeds
    <3> PICK new : new = IncludedForRisks(soaItems[c], q.feed[c])
      OBVIOUS
    <3>3. /\ new \in SoaRows /\ soaItems[c].reasons \subseteq new.reasons
          /\ soaItems[c].links # {} => new = soaItems[c]
      BY <2>3, <3>2, ConsolidatedRow
    <3>4. soaItems'[c] = Updated(soaItems[c], soaItems[c], new)
      BY <2>5, <3>1, ConsolidatedItem
    <3>5. soaItems'[c] = new
      BY <2>3, <3>3, <3>4, UpdatedItem
    <3> QED
      BY <3>3, <3>5
  <2>6. CASE CommitSoaItem(w)
    <3>1. q.op = "reconcile"
      BY <2>6, CommitSoaItemIs DEF Serving
    <3>2. q.control \in Controls /\ q.row \in SoaRows /\ q.feed[q.control] \in SUBSET Risks
      BY <2>2, <3>1, PlanFields DEF Feeds
    <3>3. q.loaded = soaItems[q.control] /\ q.row.reasons = q.loaded.reasons
      BY <2>2, <3>1 DEF Current
    <3>4. SettledRow(q) \in SoaRows
      BY <2>2, <3>1, SettledTyped
    <3>5. q.row.reasons \ {"risk_treatment"} \subseteq SettledRow(q).reasons
      BY <3>2, ReconciledRow DEF SettledRow
    <3>6. soaItems' = [soaItems EXCEPT
              ![q.control] = Updated(soaItems[q.control], q.loaded, SettledRow(q))]
      BY <2>6, CommitSoaItemIs
    <3>7. ~Serving(w, {"consolidate"})
      BY <3>1 DEF Serving
    <3>8. CASE c = q.control
      <4>1. soaItems'[c] = Updated(soaItems[c], soaItems[c], SettledRow(q))
        BY <3>3, <3>6, <3>8 DEF PlanInv, SoaTypeOK, Statements
      <4>2. soaItems'[c] = SettledRow(q)
        BY <2>3, <3>4, <4>1, UpdatedItem
      <4> QED
        BY <3>3, <3>5, <3>7, <3>8, <4>2
    <3>9. CASE c # q.control
      BY <3>6, <3>7, <3>9 DEF PlanInv, SoaTypeOK, Statements
    <3> QED
      BY <3>8, <3>9
  <2> QED
    BY <2>1, <2>4, <2>5, <2>6, ItemsChange
<1> QED
  BY <1>1, PlanInvariant, SerialStatementHolds, PTL DEF SoaSpec, DecisionsSurvive

\* Serially an item that has been reconciled with the risks names exactly those
\* that its control treats; those it named before are only left if there are
\* none and treatment was no reason any more.
THEOREM RisksAreNamed == SoaSpec => ReconciledWithRisks
<1> DEFINE Named(w) ==
        Serving(w, {"reconcile"}) /\ req'[w] = Idle /\ req[w].risk /\ ~overlapped' =>
            LET old == soaItems[req[w].control]
                item == soaItems'[req[w].control]
                treated == {r \in Risks : /\ <<r, req[w].control>> \in controls
                                          /\ ~risks[r].archived}
            IN  IF treated # {}
                THEN item.applicable /\ "risk_treatment" \in item.reasons
                         /\ item.links = treated
                ELSE /\ "risk_treatment" \notin item.reasons
                     /\ item.links = IF "risk_treatment" \in old.reasons THEN {} ELSE old.links
<1>1. PlanInv /\ SerialStatement /\ [SoaNext]_statementVars =>
          [\A w \in Workers : Named(w)]_statementVars
  <2> SUFFICES ASSUME PlanInv, SerialStatement, SoaNext, NEW w \in Workers,
                      Serving(w, {"reconcile"}), req'[w] = Idle, req[w].risk, ~overlapped'
               PROVE  Named(w)
    OBVIOUS
  <2> PICK q : q = req[w]
    OBVIOUS
  <2> PICK c : c = q.control
    OBVIOUS
  <2> PICK treated : treated = {r \in Risks : <<r, c>> \in controls /\ ~risks[r].archived}
    OBVIOUS
  <2>1. StatementStep(w)
    <3>1. PICK u \in Workers : StatementStep(u)
      BY StepsOfThreads
    <3>2. u = w
      BY <3>1, StepOfOne, OthersIdle DEF SerialStatement, Serving
    <3> QED
      BY <3>1, <3>2
  <2>2. q \in PlanRequests /\ Current(q) /\ q # Idle /\ q.op = "reconcile" /\ Brings(q)
    BY <2>1, Served, StepOfOne, OthersIdle DEF SerialStatement, Serving
  <2>3. CommitSoaItem(w)
    <3>1. ~RiskNext(w)
      BY <2>2 DEF RiskNext, CreateRisk, ArchiveRisk, AcceptRisk, EvaluateRisk, SetTreatment,
                  AddControl, RemoveControl, PutMethodology, SubmitPlan, BeginApprovePlan,
                  CommitRisk, CommitMethodology, GatePlan, ReadPlan, CommitPlan, AtOnce,
                  Begin, Serving
    <3>2. ~ReadFeed(w)
      <4> PICK feed : feed = FeedNow
        OBVIOUS
      <4> PICK new : new = [q EXCEPT !.todo = <<>>, !.feed = feed]
        OBVIOUS
      <4>1. q \in ReconcileRequests
        BY <2>2, StatementShapes
      <4>2. new \in PlanRequests
        BY <4>1, FeedTyped, StatementShapes DEF ReconcileRequests
      <4>3. new # Idle
        BY <4>2, NoItemAssumption DEF PlanRequests
      <4>4. ReadFeed(w) => req'[w] = new
        BY DEF ReadFeed, FeedNow, PlanInv, SoaTypeOK
      <4> QED
        BY <4>3, <4>4
    <3> QED
      BY <2>1, <2>2, <3>1, <3>2 DEF StatementStep, AssessGap, BeginItem, BeginReconcile,
             BeginConsolidate, CommitConsolidate, RefuseConsolidate, SubmitReview,
             BeginApprove, ReadItems, ReadPlanInForce, CommitVersion, AtOnce, Begin, Serving
  <2>4. c \in Controls /\ q.row \in SoaRows /\ q.risk = TRUE
    BY <2>2, PlanFields
  <2>5. /\ q.feed = FeedNow /\ q.loaded = soaItems[c]
        /\ q.row.reasons = soaItems[c].reasons /\ q.row.links = soaItems[c].links
    BY <2>2, <2>3, <2>4, CommitSoaItemIs DEF Current
  <2>6. treated = q.feed[c]
    <3>1. \A r \in Risks : <<r, c>> \in controls => risks[r] # NoRow
      BY <2>4 DEF PlanInv
    <3> QED
      BY <2>4, <2>5, <3>1 DEF FeedNow, Feed, Active
  <2>7. soaItems[c] \in SoaRows /\ SettledRow(q) \in SoaRows
    BY <2>2, <2>4, SettledTyped DEF Brings, PlanInv, SoaTypeOK, Statements
  <2>8. soaItems'[c] = SettledRow(q)
    <3>1. soaItems' = [soaItems EXCEPT ![c] = Updated(soaItems[c], q.loaded, SettledRow(q))]
      BY <2>3, CommitSoaItemIs
    <3>2. soaItems'[c] = Updated(soaItems[c], soaItems[c], SettledRow(q))
      BY <2>4, <2>5, <3>1 DEF PlanInv, SoaTypeOK, Statements
    <3> QED
      BY <2>7, <3>2, UpdatedItem
  <2> PICK item : item = SettledRow(q)
    OBVIOUS
  <2>9. /\ treated # {} => item.applicable
        /\ treated # {} => "risk_treatment" \in item.reasons /\ item.links = treated
        /\ treated = {} => "risk_treatment" \notin item.reasons
        /\ treated = {} =>
               item.links = IF "risk_treatment" \in soaItems[c].reasons THEN {}
                            ELSE soaItems[c].links
    <3>1. treated \in SUBSET Risks
      OBVIOUS
    <3>2. CASE DivergesFromRisks(q.row, treated)
      <4>1. item = FromRisks(q.row, treated)
        BY <2>2, <2>4, <2>6, <3>2 DEF SettledRow
      <4> PICK new : new = FromRisks(q.row, treated)
        OBVIOUS
      <4>2. /\ treated = {} => "risk_treatment" \notin new.reasons /\ new.links = {}
            /\ treated # {} => new.applicable
            /\ treated # {} => "risk_treatment" \in new.reasons /\ new.links = treated
        BY <2>4, <3>1, ReconciledRow
      <4>3. treated = {} => "risk_treatment" \in soaItems[c].reasons
        BY <2>5, <3>2 DEF DivergesFromRisks
      <4>4. item = new
        BY <4>1
      <4> QED
        BY <4>2, <4>3, <4>4, Zenon
    <3>3. CASE ~DivergesFromRisks(q.row, treated)
      <4>1. item = q.row
        BY <2>6, <3>3 DEF SettledRow
      <4>2. treated = {} => "risk_treatment" \notin soaItems[c].reasons
        BY <2>5, <3>3 DEF DivergesFromRisks
      <4>3. treated # {} => /\ item.applicable /\ "risk_treatment" \in item.reasons
                            /\ item.links = treated
        BY <2>4, <3>3, <4>1 DEF DivergesFromRisks, SoaRows
      <4> QED
        BY <2>5, <4>1, <4>2, <4>3
    <3> QED
      BY <3>2, <3>3
  <2> QED
    BY <2>8, <2>9
<1> QED
  BY <1>1, PlanInvariant, SerialStatementHolds, PTL DEF SoaSpec, ReconciledWithRisks
====
