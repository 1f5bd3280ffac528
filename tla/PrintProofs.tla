----------------------------- MODULE PrintProofs -----------------------------
(***************************************************************************)
(* What holds of templates, previews and signed documents for every set of *)
(* threads, contents and templates, however requests overlap, fail and     *)
(* die.                                                                    *)
(*                                                                         *)
(* Three numbers are taken from what is committed: a placement's revision, *)
(* a document's version, a template's version.  Each stays that of a row   *)
(* or the next one while the request is in flight (Carried, TakenBy), and  *)
(* the unique key lets in only the next one.  A key that was flushed is    *)
(* held by one request (Apart), so it is still free at the commit.         *)
(***************************************************************************)
EXTENDS PrintDocuments, TLAPS

Printing(w) == req[w] # Idle /\ ~AboutTemplates(w)

Holds(r) == r.new /\ r.step # "placing"

\* Every earlier revision of the preview is committed.
AllBelow(s) ==
    \A k \in 1 .. s.revision - 1 : [preview |-> s.preview, revision |-> k] \in placements

OfPreview(r) ==
    /\ r.preview \in DOMAIN previews
    /\ r.content = previews[r.preview].content
    /\ r.template = previews[r.preview].template

SealOf(r) ==
    /\ r.seal \in Placements
    /\ r.seal.preview = r.preview
    /\ r.new => AllBelow(r.seal)
    /\ Holds(r) => r.seal \notin placements
    /\ ~r.new => r.seal \in placements

ToldSent(f) == \E e \in log : e.event \in {"preview_viewed", "signed_downloaded"} /\ e.file = f

\* What a request has read and nothing takes back.
Carried(r) ==
    /\ r.op \in {"mark", "confirm", "sign"} => OfPreview(r)
    /\ r.op \in {"confirm", "sign"} /\ r.step # "loaded" => SealOf(r)
    /\ r.new => r.op \in {"confirm", "sign"} /\ r.step # "loaded"
    /\ r.step = "placing" => r.new
    /\ r.op = "sign" /\ r.step \in {"numbered", "stored"} => r.version \in 1 .. Len(signed) + 1
    /\ r.step = "stored" => r.file \in files
    /\ r.op \in Readings => r.file \in files
    /\ r.step = "logged" => r.op = "verify" \/ ToldSent(r.file)

Apart(r, q) == Holds(r) /\ Holds(q) => r.seal # q.seal

InFlight ==
    /\ \A w \in Workers : Printing(w) => Carried(req[w])
    /\ \A v, w \in Workers : v # w /\ Printing(v) /\ Printing(w) => Apart(req[v], req[w])

----------------------------------------------------------------------------
(* The rows of the documents.                                              *)

\* The revisions of a preview are 1, 2, ..., n.
PlacementsInOrder ==
    \A p \in Ids : \E n \in Nat : \A k \in Ids :
        [preview |-> p, revision |-> k] \in placements <=> k <= n

Numbered == \A d \in DOMAIN signed : signed[d].version = d

RowsAreTold ==
    /\ \A p \in DOMAIN previews :
           \E e \in log : e.event = "preview_created" /\ e.file = previews[p].file
    /\ \A d \in DOMAIN signed : \E e \in log : e.event = "signed" /\ e.file = signed[d].file
    /\ \A s \in placements : \E e \in log : e.event = "placement_confirmed" /\ e.seal = s
    /\ \A f \in sent : ToldSent(f)

EventIsTrue(e) ==
    /\ e.valid
    /\ e.event = "preview_created" => \E p \in DOMAIN previews : previews[p].file = e.file
    /\ e.event = "signed" => \E d \in DOMAIN signed : signed[d].file = e.file
    /\ e.event = "placement_confirmed" => e.seal \in placements

DocumentRows ==
    /\ PlacementsInOrder
    /\ Numbered
    /\ RowsHaveTheirFile
    /\ SealsThePreview
    /\ RowsAreTold
    /\ \A e \in log : EventIsTrue(e)

----------------------------------------------------------------------------
(* The templates.                                                          *)

HoldsNumber(r) == r.op = "version" /\ r.step = "flushed"

\* What a request about templates has read and nothing takes back.
TakenBy(r) ==
    /\ r.op = "version" =>
           /\ templates[r.name] # NoRow
           /\ r.loaded # 0 => templates[r.name].versions # <<>>
           /\ r.step # "loaded" => r.number \in 1 .. Len(templates[r.name].versions) + 1
           /\ r.step = "flushed" => r.number \notin VersionNumbers(r.name)
    /\ r.op = "activate" => templates[r.name] # NoRow /\ r.number \in VersionNumbers(r.name)
    /\ r.op = "patch" => catalog[r.key] # NoRow

\* Serially, what is about to be written was read from what is there.
Undisturbed(r) ==
    /\ r.op = "seed" => system = 0
    /\ r.op = "variable" => Exclusive(r.row)
    /\ r.op = "patch" => r.loaded = catalog[r.key] /\ Exclusive(r.row)

TemplatesInFlight ==
    /\ \A w \in Workers : AboutTemplates(w) => TakenBy(req[w])
    /\ \A v, w \in Workers :
           v # w /\ AboutTemplates(v) /\ AboutTemplates(w) /\ HoldsNumber(req[v]) /\ HoldsNumber(req[w])
               => req[v].name # req[w].name
    /\ ~overlapped =>
           /\ \A v, w \in Workers : AboutTemplates(v) /\ AboutTemplates(w) => v = w
           /\ \A w \in Workers : AboutTemplates(w) => Undisturbed(req[w])

TemplateRows ==
    /\ VersionsInOrder
    /\ ActiveHasVersion
    /\ SerialCatalogIsSound

\* The inductive invariant.
IInv ==
    /\ TypeOK
    /\ DocumentRows
    /\ InFlight
    /\ TemplateRows
    /\ TemplatesInFlight

\* The invariant holds at first.
LEMMA InitInv == Init => IInv
<1> SUFFICES ASSUME Init PROVE IInv
    OBVIOUS
<1> USE DEF Init, TemplateInit
<1>1. TypeOK
  <2>1. TemplateTypeOK
      BY DEF TemplateTypeOK
  <2>2. req \in [Workers -> Requests \cup TemplateRequests \cup {Idle}]
      OBVIOUS
  <2>3. previews \in Seq(Previews) /\ signed \in Seq(Signed)
      OBVIOUS
  <2>4. placements \in SUBSET Placements /\ files \in SUBSET Ids /\ log \in SUBSET Events
            /\ sent \in SUBSET Ids
      OBVIOUS
  <2>5. QED
      BY <2>1, <2>2, <2>3, <2>4 DEF TypeOK
<1>2. DocumentRows
  <2>1. PlacementsInOrder
    <3>1. \A p \in Ids : \A k \in Ids :
              [preview |-> p, revision |-> k] \in placements <=> k <= 0
        BY DEF Ids
    <3>2. QED
        BY <3>1 DEF PlacementsInOrder
  <2>2. QED
      BY <2>1 DEF DocumentRows, Numbered, RowsHaveTheirFile, SealsThePreview, RowsAreTold
<1>3. InFlight /\ TemplatesInFlight
    BY DEF InFlight, Printing, TemplatesInFlight, AboutTemplates
<1>4. TemplateRows
    BY DEF TemplateRows, VersionsInOrder, ActiveHasVersion, SerialCatalogIsSound
<1>5. QED
    BY <1>1, <1>2, <1>3, <1>4 DEF IInv

----------------------------------------------------------------------------
(* Numbers taken from what is committed.                                   *)

\* The maximum of 0 and the numbers up to n is n.
LEMMA MaxOfNumbers ==
    ASSUME NEW n \in Nat, NEW S, S = 1 .. n PROVE Max(S \cup {0}) = n
<1> DEFINE T == S \cup {0}
<1>1. n \in T /\ \A x \in T : n >= x
    OBVIOUS
<1>2. Max(T) \in T /\ \A x \in T : Max(T) >= x
    BY <1>1 DEF Max
<1>3. \A m \in T : n >= m /\ m >= n => m = n
    OBVIOUS
<1> HIDE DEF T
<1>4. Max(T) = n
    BY <1>1, <1>2, <1>3
<1>5. QED
    BY <1>4 DEF T

\* The next revision is one nobody has.
LEMMA NextRevisionIsFree ==
    ASSUME TypeOK, PlacementsInOrder, NEW p \in Ids
    PROVE  /\ NextRevision(p) \in Ids
           /\ AllBelow([preview |-> p, revision |-> NextRevision(p)])
<1>1. PICK n \in Nat : \A k \in Ids : [preview |-> p, revision |-> k] \in placements <=> k <= n
    BY DEF PlacementsInOrder
<1>2. {s.revision : s \in Revisions(p)} = 1 .. n
  <2>1. ASSUME NEW s \in Revisions(p) PROVE s.revision \in 1 .. n
    <3>1. s \in Placements /\ s.preview = p /\ s \in placements
        BY DEF Revisions, TypeOK
    <3>2. s = [preview |-> p, revision |-> s.revision] /\ s.revision \in Ids
        BY <3>1 DEF Placements
    <3>3. QED
        BY <1>1, <3>1, <3>2 DEF Ids
  <2>2. ASSUME NEW k \in 1 .. n PROVE \E s \in Revisions(p) : s.revision = k
    <3>1. [preview |-> p, revision |-> k] \in Revisions(p)
        BY <1>1 DEF Revisions, Ids
    <3>2. QED
        BY <3>1
  <2>3. QED
      BY <2>1, <2>2
<1>3. NextRevision(p) = n + 1
    BY <1>2, MaxOfNumbers DEF NextRevision
<1>4. QED
    BY <1>1, <1>3 DEF AllBelow, Ids

\* The number of the next version follows the last.
LEMMA NextVersionIsNext ==
    ASSUME TypeOK, Numbered PROVE NextVersion = Len(signed) + 1
<1>1. {signed[d].version : d \in DOMAIN signed} = 1 .. Len(signed)
    BY DEF TypeOK, Numbered
<1>2. Len(signed) \in Nat
    BY DEF TypeOK
<1>3. QED
    BY <1>1, <1>2, MaxOfNumbers DEF NextVersion

\* A template's versions are numbered 1, 2, 3; the next number follows.
LEMMA NumbersOfVersions ==
    ASSUME TypeOK, VersionsInOrder, NEW n \in Names, templates[n] # NoRow
    PROVE  /\ templates[n] \in Templates
           /\ VersionNumbers(n) = 1 .. Len(templates[n].versions)
           /\ NextVersionNumber(n) = Len(templates[n].versions) + 1
<1>1. templates[n] \in Templates
    BY DEF TypeOK, TemplateTypeOK
<1>2. templates[n].versions \in Seq(Versions)
    BY <1>1 DEF Templates
<1>3. VersionNumbers(n) = 1 .. Len(templates[n].versions)
    BY <1>2 DEF VersionNumbers, VersionsInOrder
<1>4. QED
    BY <1>1, <1>2, <1>3, MaxOfNumbers DEF NextVersionNumber

\* A request on documents, or on templates, has the type of one.
LEMMA PrintingIsRequest ==
    ASSUME TypeOK, NEW w \in Workers
    PROVE  /\ Printing(w) => req[w] \in Requests
           /\ AboutTemplates(w) => req[w] \in TemplateRequests
<1>1. req[w] \in Requests \cup TemplateRequests \cup {Idle}
    BY DEF TypeOK
<1>2. req[w] \in Requests =>
          req[w].op \notin {"seed", "template", "version", "activate", "variable", "patch"}
    BY DEF Requests, Readings
<1>3. req[w] \in TemplateRequests =>
          req[w].op \in {"seed", "template", "version", "activate", "variable", "patch"}
    BY DEF TemplateRequests
<1>4. QED
    BY <1>1, <1>2, <1>3, IdleAssumption DEF Printing, AboutTemplates

----------------------------------------------------------------------------
(* Documents and templates do not touch each other.                        *)

\* A step that leaves the templates leaves what is said of them and relied on.
LEMMA TemplatesUntouched ==
    ASSUME IInv, UNCHANGED templateVars,
           \A v \in Workers : AboutTemplates(v)' => AboutTemplates(v) /\ req'[v] = req[v]
    PROVE  TemplateRows' /\ TemplatesInFlight'
<1>1. UNCHANGED <<system, templates, catalog, overlapped>>
    BY DEF templateVars
<1>2. TemplateRows'
    BY <1>1 DEF IInv, TemplateRows, VersionsInOrder, ActiveHasVersion, VersionNumbers,
       SerialCatalogIsSound
<1>3. ASSUME NEW v \in Workers, AboutTemplates(v)' PROVE TakenBy(req[v])'
  <2>1. req'[v] = req[v] /\ TakenBy(req[v])
      BY <1>3 DEF IInv, TemplatesInFlight
  <2>2. \A n : VersionNumbers(n)' = VersionNumbers(n)
      BY <1>1 DEF VersionNumbers
  <2>3. QED
      BY <1>1, <2>1, <2>2 DEF TakenBy
<1>4. \A v, w \in Workers :
          v # w /\ AboutTemplates(v)' /\ AboutTemplates(w)' /\ HoldsNumber(req'[v])
                /\ HoldsNumber(req'[w])
              => req'[v].name # req'[w].name
    BY DEF IInv, TemplatesInFlight
<1>5. ~overlapped' =>
          /\ \A v, w \in Workers : AboutTemplates(v)' /\ AboutTemplates(w)' => v = w
          /\ \A w \in Workers : AboutTemplates(w)' => Undisturbed(req[w])'
    BY <1>1 DEF IInv, TemplatesInFlight, Undisturbed
<1>6. QED
    BY <1>2, <1>3, <1>4, <1>5 DEF TemplatesInFlight, HoldsNumber

\* A step that leaves documents and storage leaves what is said of them.
LEMMA DocumentsUntouched ==
    ASSUME IInv, UNCHANGED <<rows, storage>>,
           \A v \in Workers : Printing(v)' => Printing(v) /\ req'[v] = req[v]
    PROVE  DocumentRows' /\ InFlight'
<1>1. UNCHANGED <<previews, placements, signed, files, log, sent>>
    BY DEF rows, storage, access
<1>2. DocumentRows'
    BY <1>1 DEF IInv, DocumentRows, PlacementsInOrder, Numbered, RowsHaveTheirFile,
       SealsThePreview, Active, RowsAreTold, ToldSent, EventIsTrue
<1>3. \A v \in Workers : Printing(v)' => Carried(req[v])'
    BY <1>1 DEF IInv, InFlight, Carried, OfPreview, SealOf, AllBelow, ToldSent
<1>4. QED
    BY <1>2, <1>3 DEF IInv, InFlight, Apart, Holds

----------------------------------------------------------------------------
(* What is in flight while previews, placements, documents, files and      *)
(* events only become more.                                                *)

Grows(w) ==
    /\ \A p \in DOMAIN previews :
           /\ p \in DOMAIN previews'
           /\ previews'[p].content = previews[p].content
           /\ previews'[p].template = previews[p].template
    /\ placements \subseteq placements'
    /\ \A s \in placements' \ placements : Printing(w) /\ Holds(req[w]) /\ s = req[w].seal
    /\ Len(signed) <= Len(signed') /\ Len(signed') \in Nat
    /\ files \subseteq files'
    /\ log \subseteq log'

\* What requests rely on outlasts a step that only adds.
LEMMA InFlightGrows ==
    ASSUME IInv, NEW w \in Workers, Grows(w),
           \A v \in Workers \ {w} : req'[v] = req[v],
           Printing(w)' =>
               /\ Carried(req[w])'
               /\ \A v \in Workers \ {w} : Printing(v) => Apart(req'[w], req[v])
    PROVE  InFlight'
<1>1. ASSUME NEW v \in Workers, v # w, Printing(v)'
      PROVE  Carried(req[v])'
  <2>1. req'[v] = req[v] /\ Printing(v)
      BY <1>1 DEF Printing, AboutTemplates
  <2> DEFINE r == req[v]
  <2>2. Carried(r)
      BY <2>1 DEF IInv, InFlight
  <2>3. r.op \in {"mark", "confirm", "sign"} => OfPreview(r)'
      BY <2>1, <2>2 DEF Carried, OfPreview, Grows
  <2>4. r.op \in {"confirm", "sign"} /\ r.step # "loaded" => SealOf(r)'
    <3> SUFFICES ASSUME r.op \in {"confirm", "sign"}, r.step # "loaded" PROVE SealOf(r)'
        BY <2>1
    <3>1. SealOf(r)
        BY <2>2 DEF Carried
    <3>2. Holds(r) => r.seal \notin placements'
      <4>1. Holds(r) /\ Printing(w) => Apart(req[v], req[w])
          BY <1>1, <2>1 DEF IInv, InFlight
      <4>2. QED
          BY <4>1, <3>1 DEF SealOf, Grows, Apart
    <3>3. r.new => AllBelow(r.seal)'
        BY <2>1, <3>1 DEF SealOf, AllBelow, Grows
    <3>4. QED
        BY <2>1, <3>1, <3>2, <3>3 DEF SealOf, Grows, Holds
  <2>5. r.op = "sign" /\ r.step \in {"numbered", "stored"} => r.version \in 1 .. Len(signed') + 1
    <3>1. Len(signed) \in Nat
        BY DEF IInv, TypeOK
    <3>2. QED
        BY <3>1, <2>2 DEF Carried, Grows
  <2>6. ToldSent(r.file) => ToldSent(r.file)'
      BY <2>1 DEF ToldSent, Grows
  <2>7. QED
      BY <2>1, <2>2, <2>3, <2>4, <2>5, <2>6 DEF Carried, Grows
<1>2. ASSUME NEW u \in Workers, NEW v \in Workers, u # v, Printing(u)', Printing(v)'
      PROVE  Apart(req'[u], req'[v])
  <2>1. \A x \in Workers \ {w} : Printing(x)' => Printing(x)
      BY DEF Printing, AboutTemplates
  <2>2. QED
      BY <1>2, <2>1 DEF IInv, InFlight, Apart
<1>3. QED
    BY <1>1, <1>2 DEF InFlight, Apart, Holds

----------------------------------------------------------------------------
(* Steps on documents.                                                     *)

\* The thread w goes on with r, or answers; templates rest.
LEMMA DocumentStep ==
    ASSUME IInv, NEW w \in Workers, NEW r \in Requests \cup {Idle},
           req' = [req EXCEPT ![w] = r], UNCHANGED templateVars
    PROVE  /\ req' \in [Workers -> Requests \cup TemplateRequests \cup {Idle}]
           /\ TemplateTypeOK'
           /\ TemplateRows' /\ TemplatesInFlight'
           /\ req'[w] = r
           /\ \A v \in Workers \ {w} : req'[v] = req[v]
           /\ Printing(w)' <=> r # Idle
<1>1. req \in [Workers -> Requests \cup TemplateRequests \cup {Idle}]
    BY DEF IInv, TypeOK
<1>2. \A v \in Workers : req'[v] = IF v = w THEN r ELSE req[v]
    BY <1>1
<1>3. r # Idle => r.op \notin {"seed", "template", "version", "activate", "variable", "patch"}
    BY DEF Requests, Readings
<1>4. ~AboutTemplates(w)'
    BY <1>2, <1>3 DEF AboutTemplates
<1>5. TemplateRows' /\ TemplatesInFlight'
  <2>1. \A v \in Workers : AboutTemplates(v)' => AboutTemplates(v) /\ req'[v] = req[v]
      BY <1>2, <1>4 DEF AboutTemplates
  <2>2. QED
      BY <2>1, TemplatesUntouched
<1>6. TemplateTypeOK'
    BY DEF IInv, TypeOK, TemplateTypeOK, templateVars
<1>7. QED
    BY <1>1, <1>2, <1>4, <1>5, <1>6 DEF Printing

\* A step that writes nothing.
LEMMA RequestStep ==
    ASSUME IInv, NEW w \in Workers, NEW r \in Requests \cup {Idle},
           req' = [req EXCEPT ![w] = r],
           UNCHANGED <<artifact, suspended, rows, storage, templateVars>>,
           r # Idle => Carried(r),
           r # Idle /\ Holds(r) =>
               \A v \in Workers \ {w} : Printing(v) /\ Holds(req[v]) => req[v].seal # r.seal
    PROVE  IInv'
<1>1. UNCHANGED <<artifact, suspended, previews, placements, signed, drawn, files, log, sent>>
    BY DEF rows, storage, access
<1>2. UNCHANGED templateVars
    OBVIOUS
<1>3. /\ req' \in [Workers -> Requests \cup TemplateRequests \cup {Idle}]
      /\ TemplateTypeOK'
      /\ TemplateRows' /\ TemplatesInFlight'
      /\ req'[w] = r
      /\ \A v \in Workers \ {w} : req'[v] = req[v]
      /\ Printing(w)' <=> r # Idle
    BY <1>2, DocumentStep
<1>4. TypeOK'
    BY <1>1, <1>3 DEF IInv, TypeOK
<1>5. DocumentRows'
    BY <1>1 DEF IInv, DocumentRows, PlacementsInOrder, Numbered, RowsHaveTheirFile,
       SealsThePreview, Active, RowsAreTold, ToldSent, EventIsTrue
<1>6. Grows(w)
    BY <1>1 DEF Grows, IInv, TypeOK
<1>7. Printing(w)' => Carried(req[w])'
  <2>1. Carried(r) => Carried(r)'
      BY <1>1 DEF Carried, OfPreview, SealOf, AllBelow, ToldSent
  <2>2. QED
      BY <1>3, <2>1 DEF Carried, OfPreview, SealOf, AllBelow, ToldSent, Holds
<1>8. Printing(w)' => \A v \in Workers \ {w} : Printing(v) => Apart(req'[w], req[v])
    BY <1>3 DEF Apart
<1>9. QED
    BY <1>3, <1>4, <1>5, <1>6, <1>7, <1>8, InFlightGrows DEF IInv

PrintOps == {"preview", "mark", "confirm", "sign"} \cup Readings

\* What a request in flight relies on.
LEMMA AtIsCarried ==
    ASSUME IInv, NEW w \in Workers, NEW ops \in SUBSET PrintOps, NEW step, At(w, ops, step)
    PROVE  Printing(w) /\ req[w] \in Requests /\ Carried(req[w])
<1>1. Printing(w)
    BY DEF At, PrintOps, Readings, Printing, AboutTemplates
<1>2. QED
    BY <1>1, PrintingIsRequest DEF IInv, InFlight

\* A preview's id and row have their types.
LEMMA PreviewsAreTyped ==
    ASSUME TypeOK, NEW p \in DOMAIN previews
    PROVE  p \in Ids /\ previews[p] \in Previews
BY DEF TypeOK, Ids

\* A request that ends with an error preserves the invariant.
LEMMA FailStep ==
    ASSUME IInv, NEW w \in Workers, Fail(w) PROVE IInv'
BY RequestStep DEF Fail, Answer

\* A request that loads its preview preserves the invariant.
LEMMA LoadStep ==
    ASSUME IInv, NEW w \in Workers, NEW op \in {"preview", "mark", "confirm", "sign"},
           NEW p \in Nat, NEW content \in Contents, NEW template \in Printables,
           Load(w, op, p, content, template),
           op # "preview" => /\ p \in DOMAIN previews
                             /\ content = previews[p].content
                             /\ template = previews[p].template
    PROVE  IInv'
<1> DEFINE r == [op |-> op, step |-> "loaded", preview |-> p, content |-> content,
                 template |-> template, seal |-> NoSeal, new |-> FALSE, version |-> 0, file |-> 0]
<1>1. r \in Requests
    BY DEF Requests, Steps
<1>2. Carried(r) /\ ~Holds(r)
    BY DEF Carried, OfPreview, Readings, Holds
<1>3. req' = [req EXCEPT ![w] = r] /\ UNCHANGED <<artifact, suspended, rows, storage, templateVars>>
    BY DEF Load
<1> HIDE DEF r
<1>4. QED
    BY <1>1, <1>2, <1>3, RequestStep

\* A request to read a document preserves the invariant.
LEMMA ReadingStep ==
    ASSUME IInv, NEW w \in Workers, NEW op \in Readings, NEW file \in files,
           BeginReading(w, op, file)
    PROVE  IInv'
<1> DEFINE r == [op |-> op, step |-> "loaded", preview |-> 0, content |-> artifact,
                 template |-> System, seal |-> NoSeal, new |-> FALSE, version |-> 0,
                 file |-> file]
<1>1. artifact \in Contents /\ file \in Nat /\ System \in Printables
    BY DEF IInv, TypeOK, Ids, Printables
<1>2. r \in Requests
    BY <1>1 DEF Requests, Steps
<1>3. Carried(r) /\ ~Holds(r)
    BY DEF Carried, Readings, Holds
<1>4. req' = [req EXCEPT ![w] = r] /\ UNCHANGED <<artifact, suspended, rows, storage, templateVars>>
    BY DEF BeginReading
<1> HIDE DEF r
<1>5. QED
    BY <1>2, <1>3, <1>4, RequestStep

\* NumberPlacement preserves the invariant.
LEMMA NumberPlacementInv ==
    ASSUME IInv, NEW w \in Workers, NumberPlacement(w) PROVE IInv'
<1> DEFINE q == req[w]
           n == [preview |-> q.preview, revision |-> NextRevision(q.preview)]
           r == [q EXCEPT !.step = "placing", !.new = TRUE, !.seal = n]
<1>1. q \in Requests /\ Carried(q) /\ q.op \in {"confirm", "sign"}
    BY AtIsCarried DEF NumberPlacement, At, PrintOps
<1>2. OfPreview(q) /\ q.preview \in Ids
    BY <1>1, PreviewsAreTyped DEF Carried, OfPreview, IInv
<1>3. n \in Placements /\ AllBelow(n)
    BY <1>2, NextRevisionIsFree DEF IInv, DocumentRows, Placements
<1>4. req' = [req EXCEPT ![w] = r] /\ UNCHANGED <<artifact, suspended, rows, storage, templateVars>>
    BY DEF NumberPlacement, Advance
<1> HIDE DEF q
<1>5. n.preview = q.preview
    OBVIOUS
<1> HIDE DEF n
<1>6. r \in Requests
    BY <1>1, <1>3 DEF Requests, Steps
<1>7. Carried(r) /\ ~Holds(r)
    BY <1>1, <1>2, <1>3, <1>5 DEF Requests, Carried, OfPreview, SealOf, Holds, Readings
<1> HIDE DEF r
<1>8. QED
    BY <1>4, <1>6, <1>7, RequestStep

\* FlushPlacement preserves the invariant.
LEMMA FlushPlacementInv ==
    ASSUME IInv, NEW w \in Workers, FlushPlacement(w) PROVE IInv'
<1>1. CASE req[w].seal \in placements
    BY <1>1, FailStep DEF FlushPlacement
<1>2. CASE req[w].seal \notin placements
  <2> DEFINE q == req[w]
             r == [q EXCEPT !.step = "placed"]
  <2>1. q \in Requests /\ Carried(q) /\ q.op \in {"confirm", "sign"} /\ q.step = "placing"
      BY AtIsCarried DEF FlushPlacement, At, PrintOps
  <2>2. req' = [req EXCEPT ![w] = r] /\ UNCHANGED <<artifact, suspended, rows, storage, templateVars>>
      BY <1>2 DEF FlushPlacement, Advance
  <2>3. \A v \in Workers \ {w} : Printing(v) /\ Holds(req[v]) => req[v].seal # q.seal
      BY DEF FlushPlacement, Held, Printing, Holds
  <2>4. q.seal \notin placements
      BY <1>2
  <2> HIDE DEF q
  <2>5. r \in Requests /\ r.seal = q.seal
      BY <2>1 DEF Requests, Steps
  <2>6. Carried(r)
      BY <2>1, <2>4 DEF Requests, Carried, OfPreview, SealOf, Holds, Readings
  <2> HIDE DEF r
  <2>7. QED
      BY <2>2, <2>3, <2>5, <2>6, RequestStep
<1>3. QED
    BY <1>1, <1>2

\* NamePlacement preserves the invariant.
LEMMA NamePlacementInv ==
    ASSUME IInv, NEW w \in Workers, NEW seal \in placements, NamePlacement(w, seal) PROVE IInv'
<1> DEFINE q == req[w]
           r == [q EXCEPT !.step = "placed", !.seal = seal]
<1>1. q \in Requests /\ Carried(q) /\ q.op = "sign" /\ q.step = "loaded"
    BY AtIsCarried DEF NamePlacement, At, PrintOps
<1>2. seal \in Placements /\ seal.preview = q.preview
    BY DEF NamePlacement, Confirmed, Revisions, IInv, TypeOK
<1>3. req' = [req EXCEPT ![w] = r] /\ UNCHANGED <<artifact, suspended, rows, storage, templateVars>>
    BY DEF NamePlacement, Advance
<1> HIDE DEF q
<1>4. r \in Requests
    BY <1>1, <1>2 DEF Requests, Steps
<1>5. Carried(r) /\ ~Holds(r)
    BY <1>1, <1>2 DEF Requests, Carried, OfPreview, SealOf, Holds, Readings
<1> HIDE DEF r
<1>6. QED
    BY <1>3, <1>4, <1>5, RequestStep

\* NumberDocument preserves the invariant.
LEMMA NumberDocumentInv ==
    ASSUME IInv, NEW w \in Workers, NumberDocument(w) PROVE IInv'
<1> DEFINE q == req[w]
           n == NextVersion
           r == [q EXCEPT !.step = "numbered", !.version = n]
<1>1. q \in Requests /\ Carried(q) /\ q.op = "sign" /\ q.step = "placed" /\ Printing(w)
    BY AtIsCarried DEF NumberDocument, At, PrintOps
<1>2. n \in Nat /\ n \in 1 .. Len(signed) + 1
    BY NextVersionIsNext DEF IInv, DocumentRows, TypeOK
<1>3. req' = [req EXCEPT ![w] = r] /\ UNCHANGED <<artifact, suspended, rows, storage, templateVars>>
    BY DEF NumberDocument, Advance
<1>4. \A v \in Workers \ {w} : Printing(v) => Apart(q, req[v])
    BY <1>1 DEF IInv, InFlight
<1> HIDE DEF q, n
<1>5. r \in Requests
    BY <1>1, <1>2 DEF Requests, Steps
<1>6. r.seal = q.seal /\ r.new = q.new /\ r.step = "numbered"
    BY <1>1 DEF Requests
<1>7. Holds(r) => Holds(q)
    BY <1>1, <1>6 DEF Holds
<1>8. Carried(r)
    BY <1>1, <1>2 DEF Requests, Carried, OfPreview, SealOf, Holds, Readings
<1> HIDE DEF r
<1>9. QED
    BY <1>3, <1>4, <1>5, <1>6, <1>7, <1>8, RequestStep DEF Apart

----------------------------------------------------------------------------
(* Steps that write.                                                       *)

\* A step of a request on documents preserves the invariant if the rows stay sound.
LEMMA WriteStep ==
    ASSUME IInv, NEW w \in Workers, NEW r \in Requests \cup {Idle},
           req' = [req EXCEPT ![w] = r], UNCHANGED <<artifact, suspended, templateVars>>,
           previews' \in Seq(Previews), placements' \subseteq Placements,
           signed' \in Seq(Signed), drawn' \in Nat, files' \subseteq Ids,
           log' \subseteq Events, sent' \subseteq Ids,
           DocumentRows', Grows(w),
           r # Idle => Carried(req[w])',
           r # Idle /\ Holds(r) =>
               \A v \in Workers \ {w} : Printing(v) /\ Holds(req[v]) => req[v].seal # r.seal
    PROVE  IInv'
<1>1. UNCHANGED templateVars
    OBVIOUS
<1>2. /\ req' \in [Workers -> Requests \cup TemplateRequests \cup {Idle}]
      /\ TemplateTypeOK'
      /\ TemplateRows' /\ TemplatesInFlight'
      /\ req'[w] = r
      /\ \A v \in Workers \ {w} : req'[v] = req[v]
      /\ Printing(w)' <=> r # Idle
    BY <1>1, DocumentStep
<1>3. TypeOK'
    BY <1>2 DEF IInv, TypeOK
<1>4. Printing(w)' => \A v \in Workers \ {w} : Printing(v) => Apart(req'[w], req[v])
    BY <1>2 DEF Apart
<1>5. QED
    BY <1>2, <1>3, <1>4, InFlightGrows DEF IInv

\* StorePdf preserves the invariant.
LEMMA StorePdfInv ==
    ASSUME IInv, NEW w \in Workers, StorePdf(w) PROVE IInv'
<1>q. PICK q : q = req[w]
    OBVIOUS
<1>d. PICK d : d = drawn + 1
    OBVIOUS
<1>1. /\ q \in Requests /\ Carried(q) /\ Printing(w)
      /\ \/ q.op = "preview" /\ q.step = "loaded"
         \/ q.op = "sign" /\ q.step = "numbered"
  <2>1. CASE At(w, {"preview"}, "loaded")
      BY <2>1, <1>q, AtIsCarried DEF At, PrintOps
  <2>2. CASE At(w, {"sign"}, "numbered")
      BY <2>2, <1>q, AtIsCarried DEF At, PrintOps
  <2>3. QED
      BY <2>1, <2>2 DEF StorePdf
<1>r. PICK r : r = [q EXCEPT !.step = "stored", !.file = d]
    OBVIOUS
<1>2. req' = [req EXCEPT ![w] = r] /\ req'[w] = r
    BY <1>q, <1>d, <1>r DEF StorePdf, IInv, TypeOK
<1>3. UNCHANGED <<artifact, suspended, previews, placements, signed, log, sent, templateVars>>
    BY DEF StorePdf, rows, access
<1>4. drawn' = d /\ d \in Ids /\ files' = files \cup {d}
  <2>1. drawn' = d /\ files' \in Stored(drawn')
      BY <1>d DEF StorePdf
  <2>2. d \in Ids
      BY <1>d DEF IInv, TypeOK, Ids
  <2>3. QED
      BY <2>1, <2>2 DEF Stored
<1>5. r \in Requests
    BY <1>1, <1>4, <1>r DEF Requests, Steps, Ids
<1>6. /\ r.op = q.op /\ r.step = "stored" /\ r.new = q.new /\ r.seal = q.seal /\ r.file = d
      /\ r.preview = q.preview /\ r.content = q.content /\ r.template = q.template
      /\ r.version = q.version
    BY <1>1, <1>r DEF Requests
<1>7. DocumentRows'
    BY <1>3, <1>4 DEF IInv, DocumentRows, PlacementsInOrder, Numbered, RowsHaveTheirFile,
       SealsThePreview, Active, RowsAreTold, ToldSent, EventIsTrue
<1>8. Grows(w)
    BY <1>3, <1>4 DEF Grows, IInv, TypeOK
<1>9. Carried(req[w])'
  <2>1. q.op = "sign" => OfPreview(r)' /\ SealOf(r)'
      BY <1>1, <1>3, <1>6 DEF Carried, OfPreview, SealOf, Holds, AllBelow
  <2>2. q.op = "sign" => r.version \in 1 .. Len(signed') + 1
      BY <1>1, <1>3, <1>6 DEF Carried
  <2>3. r.new => r.op = "sign"
      BY <1>1, <1>6 DEF Carried
  <2>4. Carried(r)'
      BY <1>1, <1>4, <1>6, <2>1, <2>2, <2>3 DEF Carried, Readings
  <2>5. QED
      BY <1>2, <2>4 DEF Carried, OfPreview, SealOf, Holds, AllBelow, ToldSent
<1>10. \A v \in Workers \ {w} : Printing(v) /\ Holds(req[v]) /\ Holds(r) => req[v].seal # r.seal
    BY <1>1, <1>6, <1>q DEF IInv, InFlight, Apart, Holds
<1>11. /\ previews' \in Seq(Previews) /\ placements' \subseteq Placements
       /\ signed' \in Seq(Signed) /\ drawn' \in Nat /\ files' \subseteq Ids
       /\ log' \subseteq Events /\ sent' \subseteq Ids
    BY <1>3, <1>4 DEF IInv, TypeOK, Ids
<1>12. QED
    BY <1>2, <1>3, <1>5, <1>7, <1>8, <1>9, <1>10, <1>11, WriteStep

\* Placements stay in order when the next one, or one already there, is added.
LEMMA InOrderGrows ==
    ASSUME TypeOK, PlacementsInOrder, NEW s \in Placements, AllBelow(s) \/ s \in placements,
           placements' = placements \cup {s}
    PROVE  PlacementsInOrder'
<1> SUFFICES ASSUME NEW p \in Ids
             PROVE  \E n \in Nat : \A k \in Ids :
                        [preview |-> p, revision |-> k] \in placements' <=> k <= n
    BY DEF PlacementsInOrder
<1>1. PICK n \in Nat : \A k \in Ids : [preview |-> p, revision |-> k] \in placements <=> k <= n
    BY DEF PlacementsInOrder
<1>2. s = [preview |-> s.preview, revision |-> s.revision] /\ s.revision \in Ids
    BY DEF Placements
<1>3. CASE s.preview # p \/ s \in placements
  <2>1. \A k \in Ids : [preview |-> p, revision |-> k] \in placements'
                           <=> [preview |-> p, revision |-> k] \in placements
      BY <1>3
  <2>2. QED
      BY <1>1, <2>1
<1>4. CASE s.preview = p /\ s \notin placements
  <2>1. ~(s.revision <= n)
      BY <1>1, <1>2, <1>4
  <2>2. ASSUME NEW k \in 1 .. s.revision - 1 PROVE k <= n
    <3>1. k \in Ids
        BY <1>2 DEF Ids
    <3>2. [preview |-> p, revision |-> k] \in placements
        BY <1>4 DEF AllBelow
    <3>3. QED
        BY <1>1, <3>1, <3>2
  <2>3. s.revision = n + 1
      BY <1>2, <2>1, <2>2 DEF Ids
  <2>4. \A k \in Ids : [preview |-> p, revision |-> k] = s <=> k = n + 1
      BY <1>2, <1>4, <2>3
  <2>5. \A k \in Ids : [preview |-> p, revision |-> k] \in placements' <=> k <= n + 1
      BY <1>1, <2>4 DEF Ids
  <2>6. QED
      BY <2>5
<1>5. QED
    BY <1>3, <1>4

\* CommitPreview preserves the invariant.
LEMMA CommitPreviewInv ==
    ASSUME IInv, NEW w \in Workers, CommitPreview(w) PROVE IInv'
<1>q. PICK q : q = req[w]
    OBVIOUS
<1>1. q \in Requests /\ Carried(q) /\ q.step = "stored"
    BY <1>q, AtIsCarried DEF CommitPreview, At, PrintOps
<1>n. PICK n : n = [content |-> q.content, template |-> q.template, file |-> q.file,
                    expired |-> FALSE, status |-> "active"]
    OBVIOUS
<1>e. PICK e : e = [event |-> "preview_created", file |-> q.file, seal |-> NoSeal, valid |-> TRUE]
    OBVIOUS
<1>2. q.file \in files /\ q.file \in Ids
    BY <1>1 DEF Carried, IInv, TypeOK
<1>3. n \in Previews /\ n.file = q.file
    BY <1>1, <1>2, <1>n DEF Requests, Previews
<1>4. e \in Events /\ e.valid /\ e.event = "preview_created" /\ e.file = q.file
    BY <1>2, <1>e DEF Events, EventTypes, Ids
<1>5. previews' = Append(previews, n) /\ log' = log \cup {e}
    BY <1>q, <1>n, <1>e DEF CommitPreview, Logged
<1>6. UNCHANGED <<artifact, suspended, placements, signed, drawn, files, sent, templateVars>>
    BY DEF CommitPreview
<1>7. req' = [req EXCEPT ![w] = Idle]
    BY DEF CommitPreview, Answer
<1>8. previews \in Seq(Previews)
    BY DEF IInv, TypeOK
<1>9. /\ previews' \in Seq(Previews)
      /\ DOMAIN previews' = DOMAIN previews \cup {Len(previews) + 1}
      /\ \A p \in DOMAIN previews : previews'[p] = previews[p]
      /\ previews'[Len(previews) + 1] = n
    BY <1>3, <1>5, <1>8
<1>10. Grows(w)
    BY <1>5, <1>6, <1>9 DEF Grows, IInv, TypeOK
<1>11. DocumentRows'
  <2>1. PlacementsInOrder' /\ Numbered'
      BY <1>6 DEF IInv, DocumentRows, PlacementsInOrder, Numbered
  <2>2. RowsHaveTheirFile'
      BY <1>2, <1>3, <1>6, <1>9 DEF IInv, DocumentRows, RowsHaveTheirFile
  <2>3. SealsThePreview'
      BY <1>6, <1>9 DEF IInv, DocumentRows, SealsThePreview, Active
  <2>4. RowsAreTold'
      BY <1>3, <1>4, <1>5, <1>6, <1>9 DEF IInv, DocumentRows, RowsAreTold, ToldSent
  <2>5. \A x \in log' : EventIsTrue(x)'
      BY <1>3, <1>4, <1>5, <1>6, <1>9 DEF IInv, DocumentRows, EventIsTrue
  <2>6. QED
      BY <2>1, <2>2, <2>3, <2>4, <2>5 DEF DocumentRows
<1>12. placements' \subseteq Placements /\ signed' \in Seq(Signed) /\ drawn' \in Nat
           /\ files' \subseteq Ids /\ log' \subseteq Events /\ sent' \subseteq Ids
    BY <1>4, <1>5, <1>6 DEF IInv, TypeOK
<1>13. QED
    BY <1>6, <1>7, <1>9, <1>10, <1>11, <1>12, WriteStep

\* What changes the status or the expiry of one preview that it does not
\* make active.
PreviewChanged(p, row) ==
    /\ p \in DOMAIN previews
    /\ row \in Previews
    /\ row.content = previews[p].content /\ row.template = previews[p].template
    /\ row.file = previews[p].file
    /\ row.status = "active" => previews[p].status = "active"
    /\ previews' = [previews EXCEPT ![p] = row]

\* An update of one preview leaves what is said of the documents.
LEMMA PreviewChangedRows ==
    ASSUME IInv, NEW p, NEW row, PreviewChanged(p, row),
           UNCHANGED <<placements, signed, drawn, files, log, sent>>
    PROVE  DocumentRows' /\ previews' \in Seq(Previews) /\ \A w \in Workers : Grows(w)
<1>1. previews \in Seq(Previews)
    BY DEF IInv, TypeOK
<1>2. /\ previews' \in Seq(Previews)
      /\ DOMAIN previews' = DOMAIN previews
      /\ \A x \in DOMAIN previews : previews'[x] = IF x = p THEN row ELSE previews[x]
    BY <1>1 DEF PreviewChanged
<1>3. \A x \in DOMAIN previews :
          /\ previews'[x].content = previews[x].content
          /\ previews'[x].template = previews[x].template
          /\ previews'[x].file = previews[x].file
          /\ previews'[x].status = "active" => previews[x].status = "active"
    BY <1>2 DEF PreviewChanged
<1>4. PlacementsInOrder' /\ Numbered' /\ RowsHaveTheirFile'
    BY <1>2, <1>3 DEF IInv, DocumentRows, PlacementsInOrder, Numbered, RowsHaveTheirFile
<1>5. SealsThePreview'
    BY <1>2, <1>3 DEF IInv, DocumentRows, SealsThePreview, Active
<1>6. RowsAreTold' /\ \A e \in log' : EventIsTrue(e)'
    BY <1>2, <1>3 DEF IInv, DocumentRows, RowsAreTold, ToldSent, EventIsTrue
<1>7. \A w \in Workers : Grows(w)
    BY <1>2, <1>3 DEF Grows, IInv, TypeOK
<1>8. QED
    BY <1>2, <1>4, <1>5, <1>6, <1>7 DEF DocumentRows

\* CommitMark preserves the invariant.
LEMMA CommitMarkInv ==
    ASSUME IInv, NEW w \in Workers, NEW status \in {"expired", "stale"}, CommitMark(w, status)
    PROVE  IInv'
<1>p. PICK p : p = req[w].preview
    OBVIOUS
<1>r. PICK row : row = [previews[p] EXCEPT !.status = status]
    OBVIOUS
<1>1. p \in DOMAIN previews
    BY <1>p, AtIsCarried DEF CommitMark, At, PrintOps, Carried, OfPreview
<1>2. previews[p] \in Previews
    BY <1>1, PreviewsAreTyped DEF IInv
<1>3. previews' = [previews EXCEPT ![p] = row]
    BY <1>p, <1>r DEF CommitMark
<1>4. PreviewChanged(p, row)
    BY <1>1, <1>2, <1>3, <1>r DEF PreviewChanged, Previews
<1>5. UNCHANGED <<artifact, suspended, placements, signed, drawn, files, log, sent, templateVars>>
    BY DEF CommitMark, storage, access
<1>6. req' = [req EXCEPT ![w] = Idle]
    BY DEF CommitMark, Answer
<1>7. DocumentRows' /\ previews' \in Seq(Previews) /\ Grows(w)
    BY <1>4, <1>5, PreviewChangedRows
<1>8. placements' \subseteq Placements /\ signed' \in Seq(Signed) /\ drawn' \in Nat
          /\ files' \subseteq Ids /\ log' \subseteq Events /\ sent' \subseteq Ids
    BY <1>5 DEF IInv, TypeOK
<1>9. QED
    BY <1>5, <1>6, <1>7, <1>8, WriteStep

\* CommitConfirm preserves the invariant.
LEMMA CommitConfirmInv ==
    ASSUME IInv, NEW w \in Workers, CommitConfirm(w) PROVE IInv'
<1>q. PICK q : q = req[w]
    OBVIOUS
<1>1. q \in Requests /\ Carried(q) /\ Printing(w) /\ q.op = "confirm" /\ q.step = "placed"
    BY <1>q, AtIsCarried DEF CommitConfirm, At, PrintOps
<1>e. PICK e : e = [event |-> "placement_confirmed", file |-> 0, seal |-> q.seal, valid |-> TRUE]
    OBVIOUS
<1>2. SealOf(q)
    BY <1>1 DEF Carried
<1>3. e \in Events /\ e.valid /\ e.event = "placement_confirmed" /\ e.seal = q.seal
    BY <1>2, <1>e DEF Events, EventTypes, SealOf
<1>4. placements' = placements \cup {q.seal} /\ log' = log \cup {e}
    BY <1>q, <1>e DEF CommitConfirm, Logged
<1>5. UNCHANGED <<artifact, suspended, previews, signed, drawn, files, sent, templateVars>>
    BY DEF CommitConfirm
<1>6. req' = [req EXCEPT ![w] = Idle]
    BY DEF CommitConfirm, Answer
<1>7. Grows(w)
    BY <1>q, <1>1, <1>2, <1>4, <1>5 DEF Grows, IInv, TypeOK, SealOf, Holds
<1>8. DocumentRows'
  <2>1. PlacementsInOrder'
    <3>1. q.seal \in Placements /\ (AllBelow(q.seal) \/ q.seal \in placements)
        BY <1>1, <1>2 DEF SealOf, Requests
    <3>2. QED
        BY <3>1, <1>4, InOrderGrows DEF IInv, DocumentRows
  <2>2. Numbered' /\ RowsHaveTheirFile' /\ SealsThePreview'
      BY <1>4, <1>5 DEF IInv, DocumentRows, Numbered, RowsHaveTheirFile, SealsThePreview, Active
  <2>3. RowsAreTold'
      BY <1>3, <1>4, <1>5 DEF IInv, DocumentRows, RowsAreTold, ToldSent
  <2>4. \A x \in log' : EventIsTrue(x)'
      BY <1>3, <1>4, <1>5 DEF IInv, DocumentRows, EventIsTrue
  <2>5. QED
      BY <2>1, <2>2, <2>3, <2>4 DEF DocumentRows
<1>9. previews' \in Seq(Previews) /\ placements' \subseteq Placements /\ signed' \in Seq(Signed)
          /\ drawn' \in Nat /\ files' \subseteq Ids /\ log' \subseteq Events /\ sent' \subseteq Ids
    BY <1>2, <1>3, <1>4, <1>5 DEF IInv, TypeOK, SealOf
<1>10. QED
    BY <1>5, <1>6, <1>7, <1>8, <1>9, WriteStep

\* CommitSign preserves the invariant.
LEMMA CommitSignInv ==
    ASSUME IInv, NEW w \in Workers, CommitSign(w) PROVE IInv'
<1>q. PICK q : q = req[w]
    OBVIOUS
<1>1. q \in Requests /\ Carried(q) /\ Printing(w) /\ q.op = "sign" /\ q.step = "stored"
    BY <1>q, AtIsCarried DEF CommitSign, At, PrintOps
<1>2. req' = [req EXCEPT ![w] = Idle]
    BY DEF CommitSign, Answer
<1>3. UNCHANGED <<artifact, suspended, drawn, files, sent, templateVars>>
    BY DEF CommitSign
<1>4. CASE ~UniqueVersion(q.version)
  <2>1. UNCHANGED <<rows, log>>
      BY <1>q, <1>4 DEF CommitSign
  <2>2. UNCHANGED <<artifact, suspended, rows, storage, templateVars>>
      BY <1>3, <2>1 DEF storage, access
  <2>3. QED
      BY <1>2, <2>2, RequestStep
<1>5. CASE UniqueVersion(q.version)
  <2>n. PICK n : n = [preview |-> q.preview, content |-> q.content, template |-> q.template,
                      seal |-> q.seal, version |-> q.version, file |-> q.file]
      OBVIOUS
  <2>e. PICK e : e = [event |-> "placement_confirmed", file |-> 0, seal |-> q.seal, valid |-> TRUE]
      OBVIOUS
  <2>f. PICK f : f = [event |-> "signed", file |-> q.file, seal |-> NoSeal, valid |-> TRUE]
      OBVIOUS
  <2>r. PICK row : row = [previews[q.preview] EXCEPT !.status = "signed"]
      OBVIOUS
  <2>1. OfPreview(q) /\ SealOf(q) /\ q.file \in files /\ q.version \in 1 .. Len(signed) + 1
      BY <1>1 DEF Carried
  <2>2. q.file \in Ids /\ q.preview \in Ids /\ previews[q.preview] \in Previews
      BY <2>1, PreviewsAreTyped DEF OfPreview, IInv, TypeOK
  <2>3. /\ signed' = Append(signed, n) /\ placements' = placements \cup {q.seal}
        /\ previews' = [previews EXCEPT ![q.preview] = row]
        /\ log' = log \cup {e, f}
      BY <1>q, <1>5, <2>n, <2>e, <2>f, <2>r DEF CommitSign, MarkSigned, Logged
  <2>4. signed \in Seq(Signed) /\ previews \in Seq(Previews) /\ Len(signed) \in Nat
      BY DEF IInv, TypeOK
  <2>5. q.version = Len(signed) + 1
    <3>1. \A d \in 1 .. Len(signed) : d # q.version
        BY <1>5, <2>4 DEF UniqueVersion, IInv, DocumentRows, Numbered
    <3>2. QED
        BY <2>1, <2>4, <3>1
  <2>6. n \in Signed
      BY <1>1, <2>1, <2>2, <2>5, <2>4, <2>n DEF Signed, Requests, SealOf, Ids
  <2>7. /\ signed' \in Seq(Signed) /\ Len(signed') = Len(signed) + 1
        /\ DOMAIN signed' = DOMAIN signed \cup {Len(signed) + 1}
        /\ \A d \in DOMAIN signed : signed'[d] = signed[d] /\ d # Len(signed) + 1
        /\ signed'[Len(signed) + 1] = n
      BY <2>3, <2>4, <2>6
  <2>8. row \in Previews /\ row.status = "signed" /\ row.content = previews[q.preview].content
            /\ row.template = previews[q.preview].template /\ row.file = previews[q.preview].file
      BY <2>2, <2>r DEF Previews
  <2>9. /\ previews' \in Seq(Previews) /\ DOMAIN previews' = DOMAIN previews
        /\ \A x \in DOMAIN previews :
               previews'[x] = IF x = q.preview THEN row ELSE previews[x]
      BY <2>1, <2>3, <2>4, <2>8 DEF OfPreview
  <2>10. \A x \in DOMAIN previews :
             /\ previews'[x].content = previews[x].content
             /\ previews'[x].template = previews[x].template
             /\ previews'[x].file = previews[x].file
             /\ previews'[x].status = "active" => previews[x].status = "active"
      BY <2>8, <2>9
  <2>11. /\ e \in Events /\ e.valid /\ e.event = "placement_confirmed" /\ e.seal = q.seal
         /\ f \in Events /\ f.valid /\ f.event = "signed" /\ f.file = q.file
      BY <2>1, <2>2, <2>e, <2>f DEF Events, EventTypes, SealOf, Ids
  <2>12. Grows(w)
      BY <1>q, <1>1, <1>3, <2>1, <2>3, <2>4, <2>7, <2>9, <2>10 DEF Grows, SealOf, Holds
  <2>13. DocumentRows'
    <3>1. PlacementsInOrder'
      <4>1. q.seal \in Placements /\ (AllBelow(q.seal) \/ q.seal \in placements)
          BY <1>1, <2>1 DEF SealOf, Requests
      <4>2. QED
          BY <4>1, <2>3, InOrderGrows DEF IInv, DocumentRows
    <3>2. Numbered'
        BY <2>5, <2>7, <2>n DEF IInv, DocumentRows, Numbered
    <3>3. RowsHaveTheirFile'
        BY <1>3, <2>1, <2>7, <2>9, <2>10, <2>n DEF IInv, DocumentRows, RowsHaveTheirFile
    <3>4. SealsThePreview'
      <4>1. ASSUME NEW d \in DOMAIN signed
            PROVE  LET p == signed'[d].preview
                   IN  /\ p \in DOMAIN previews'
                       /\ signed'[d].content = previews'[p].content
                       /\ signed'[d].template = previews'[p].template
                       /\ signed'[d].seal.preview = p
                       /\ signed'[d].seal \in placements'
                       /\ previews'[p].status # "active"
        <5>p. PICK p : p = signed[d].preview
            OBVIOUS
        <5>1. /\ p \in DOMAIN previews
              /\ signed[d].content = previews[p].content
              /\ signed[d].template = previews[p].template
              /\ signed[d].seal.preview = p
              /\ signed[d].seal \in placements
              /\ previews[p].status # "active"
            BY <5>p DEF IInv, DocumentRows, SealsThePreview, Active
        <5>2. signed'[d] = signed[d]
            BY <2>7
        <5>3. /\ p \in DOMAIN previews'
              /\ previews'[p].content = previews[p].content
              /\ previews'[p].template = previews[p].template
              /\ previews'[p].status # "active"
            BY <5>1, <2>9, <2>10
        <5>4. QED
            BY <5>p, <5>1, <5>2, <5>3, <2>3
      <4>2. LET p == q.preview
            IN  /\ p \in DOMAIN previews'
                /\ n.preview = p
                /\ n.content = previews'[p].content
                /\ n.template = previews'[p].template
                /\ n.seal.preview = p
                /\ n.seal \in placements'
                /\ previews'[p].status # "active"
          BY <2>1, <2>3, <2>8, <2>9, <2>n DEF OfPreview, SealOf
      <4>3. QED
          BY <4>1, <4>2, <2>7 DEF SealsThePreview, Active
    <3>5. RowsAreTold'
        BY <1>3, <2>3, <2>7, <2>9, <2>10, <2>11, <2>n
        DEF IInv, DocumentRows, RowsAreTold, ToldSent
    <3>6. \A x \in log' : EventIsTrue(x)'
      <4>1. \A x \in log : EventIsTrue(x)'
          BY <2>3, <2>7, <2>9, <2>10 DEF IInv, DocumentRows, EventIsTrue
      <4>2. EventIsTrue(e)' /\ EventIsTrue(f)'
          BY <2>3, <2>7, <2>11, <2>n DEF EventIsTrue
      <4>3. QED
          BY <4>1, <4>2, <2>3
    <3>7. QED
        BY <3>1, <3>2, <3>3, <3>4, <3>5, <3>6 DEF DocumentRows
  <2>14. placements' \subseteq Placements /\ drawn' \in Nat /\ files' \subseteq Ids
             /\ log' \subseteq Events /\ sent' \subseteq Ids
      BY <1>3, <2>1, <2>3, <2>11 DEF IInv, TypeOK, SealOf
  <2>15. QED
      BY <1>2, <1>3, <2>7, <2>9, <2>12, <2>13, <2>14, WriteStep
<1>6. QED
    BY <1>4, <1>5

----------------------------------------------------------------------------
(* Readings.                                                               *)

\* An event that tells of no row.
LEMMA LogRows ==
    ASSUME IInv, NEW e \in Events, e.valid,
           e.event \notin {"preview_created", "signed", "placement_confirmed"},
           log' = log \cup {e}, UNCHANGED <<previews, placements, signed, drawn, files, sent>>
    PROVE  DocumentRows' /\ log' \subseteq Events /\ \A w \in Workers : Grows(w)
<1>1. PlacementsInOrder' /\ Numbered' /\ RowsHaveTheirFile'
    BY DEF IInv, DocumentRows, PlacementsInOrder, Numbered, RowsHaveTheirFile
<1>2. SealsThePreview'
    BY DEF IInv, DocumentRows, SealsThePreview, Active
<1>3. RowsAreTold'
    BY DEF IInv, DocumentRows, RowsAreTold, ToldSent
<1>4. \A x \in log' : EventIsTrue(x)'
    BY DEF IInv, DocumentRows, EventIsTrue
<1>5. QED
    BY <1>1, <1>2, <1>3, <1>4 DEF DocumentRows, IInv, TypeOK, Grows

\* CommitDenied preserves the invariant.
LEMMA CommitDeniedInv ==
    ASSUME IInv, NEW w \in Workers, CommitDenied(w) PROVE IInv'
<1>q. PICK q : q = req[w]
    OBVIOUS
<1>1. q \in Requests /\ Carried(q) /\ q.op \in Readings
    BY <1>q, AtIsCarried DEF CommitDenied, At, PrintOps
<1>e. PICK e : e = [event |-> "access_denied", file |-> q.file, seal |-> NoSeal, valid |-> TRUE]
    OBVIOUS
<1>2. e \in Events /\ e.valid /\ e.event = "access_denied"
    BY <1>1, <1>e DEF Requests, Events, EventTypes
<1>3. log' = log \cup {e}
    BY <1>q, <1>e DEF CommitDenied, Logged
<1>4. UNCHANGED <<artifact, suspended, previews, placements, signed, drawn, files, sent, templateVars>>
    BY DEF CommitDenied, rows
<1>5. req' = [req EXCEPT ![w] = Idle]
    BY DEF CommitDenied, Answer
<1>6. DocumentRows' /\ log' \subseteq Events /\ Grows(w)
    BY <1>2, <1>3, <1>4, LogRows
<1>7. previews' \in Seq(Previews) /\ placements' \subseteq Placements /\ signed' \in Seq(Signed)
          /\ drawn' \in Nat /\ files' \subseteq Ids /\ sent' \subseteq Ids
    BY <1>4 DEF IInv, TypeOK
<1>8. QED
    BY <1>4, <1>5, <1>6, <1>7, WriteStep

\* CommitReading preserves the invariant.
LEMMA CommitReadingInv ==
    ASSUME IInv, NEW w \in Workers, CommitReading(w) PROVE IInv'
<1>q. PICK q : q = req[w]
    OBVIOUS
<1>1. q \in Requests /\ Carried(q) /\ q.op \in Readings /\ q.step = "loaded"
    BY <1>q, AtIsCarried DEF CommitReading, At, PrintOps
<1>2. q.file \in files /\ q.file \in Ids /\ ~q.new
    BY <1>1 DEF Carried, Readings, IInv, TypeOK
<1>e. PICK e : e = [event |-> CASE q.op = "view" -> "preview_viewed"
                                [] q.op = "download" -> "signed_downloaded"
                                [] OTHER -> "verified",
                    file |-> q.file, seal |-> NoSeal, valid |-> TRUE]
    OBVIOUS
<1>3. /\ e \in Events /\ e.valid /\ e.file = q.file
      /\ e.event \notin {"preview_created", "signed", "placement_confirmed"}
      /\ q.op # "verify" => e.event \in {"preview_viewed", "signed_downloaded"}
    BY <1>1, <1>2, <1>e DEF Events, EventTypes, Readings, Ids
<1>4. log' = log \cup {e}
  <2>1. log' = Recorded(q)
      BY <1>q DEF CommitReading
  <2>2. CASE q.op = "view"
      BY <2>1, <2>2, <1>e DEF Recorded, Logged
  <2>3. CASE q.op = "download"
      BY <2>1, <2>3, <1>e DEF Recorded, Logged
  <2>4. CASE q.op = "verify"
      BY <2>1, <2>4, <1>2, <1>e DEF Recorded
  <2>5. QED
      BY <1>1, <2>2, <2>3, <2>4 DEF Readings
<1>5. UNCHANGED <<artifact, suspended, previews, placements, signed, drawn, files, sent, templateVars>>
    BY DEF CommitReading, rows
<1>r. PICK r : r = [q EXCEPT !.step = "logged"]
    OBVIOUS
<1>6. req' = [req EXCEPT ![w] = r] /\ req'[w] = r
    BY <1>q, <1>r DEF CommitReading, IInv, TypeOK
<1>7. /\ r \in Requests
      /\ r.op = q.op /\ r.step = "logged" /\ r.new = q.new /\ r.file = q.file
    BY <1>1, <1>r DEF Requests, Steps
<1>8. DocumentRows' /\ log' \subseteq Events /\ Grows(w)
    BY <1>3, <1>4, <1>5, LogRows
<1>9. Carried(req[w])'
  <2>1. r.op = "verify" \/ ToldSent(r.file)'
      BY <1>3, <1>4, <1>7 DEF ToldSent
  <2>2. Carried(r)'
      BY <2>1, <1>1, <1>2, <1>5, <1>7 DEF Carried, Readings
  <2>3. QED
      BY <2>2, <1>6 DEF Carried, OfPreview, SealOf, Holds, AllBelow, ToldSent
<1>10. previews' \in Seq(Previews) /\ placements' \subseteq Placements /\ signed' \in Seq(Signed)
          /\ drawn' \in Nat /\ files' \subseteq Ids /\ sent' \subseteq Ids
    BY <1>5 DEF IInv, TypeOK
<1>11. ~Holds(r)
    BY <1>2, <1>7 DEF Holds
<1>12. QED
    BY <1>5, <1>6, <1>7, <1>8, <1>9, <1>10, <1>11, WriteStep

\* Send preserves the invariant.
LEMMA SendInv ==
    ASSUME IInv, NEW w \in Workers, Send(w) PROVE IInv'
<1>q. PICK q : q = req[w]
    OBVIOUS
<1>1. q \in Requests /\ Carried(q) /\ q.op \in Readings /\ q.step = "logged"
    BY <1>q, AtIsCarried DEF Send, At, PrintOps
<1>2. q.file \in Ids /\ (q.op = "verify" \/ ToldSent(q.file))
    BY <1>1 DEF Carried, IInv, TypeOK
<1>3. sent' = IF q.op = "verify" THEN sent ELSE sent \cup {q.file}
    BY <1>q DEF Send
<1>4. UNCHANGED <<artifact, suspended, previews, placements, signed, drawn, files, log, templateVars>>
    BY DEF Send, rows
<1>5. req' = [req EXCEPT ![w] = Idle]
    BY DEF Send, Answer
<1>6. RowsAreTold'
  <2>1. \A f \in sent' : ToldSent(f)
      BY <1>2, <1>3 DEF IInv, DocumentRows, RowsAreTold
  <2>2. QED
      BY <2>1, <1>4 DEF IInv, DocumentRows, RowsAreTold, ToldSent
<1>7. DocumentRows'
    BY <1>4, <1>6 DEF IInv, DocumentRows, PlacementsInOrder, Numbered, RowsHaveTheirFile,
       SealsThePreview, Active, EventIsTrue
<1>8. Grows(w)
    BY <1>4 DEF Grows, IInv, TypeOK
<1>9. previews' \in Seq(Previews) /\ placements' \subseteq Placements /\ signed' \in Seq(Signed)
          /\ drawn' \in Nat /\ files' \subseteq Ids /\ log' \subseteq Events /\ sent' \subseteq Ids
    BY <1>2, <1>3, <1>4 DEF IInv, TypeOK
<1>10. QED
    BY <1>4, <1>5, <1>7, <1>8, <1>9, WriteStep

----------------------------------------------------------------------------
(* Requests that begin, and the environment.                               *)

\* The templates to print with have their type.
LEMMA PrintableIsTyped ==
    ASSUME TypeOK PROVE Printable \subseteq Printables
<1>1. \A n \in ActiveTemplates : n \in Names /\ templates[n] \in Templates
    BY DEF ActiveTemplates, TypeOK, TemplateTypeOK
<1>2. InForce \subseteq Printables
    BY <1>1 DEF InForce, Printables, Templates
<1>3. ASSUME NEW n \in Names PROVE {n} \X VersionNumbers(n) \subseteq Printables
  <2>1. templates[n] # NoRow => templates[n] \in Templates
      BY DEF TypeOK, TemplateTypeOK
  <2>2. ASSUME templates[n] # NoRow, NEW i \in DOMAIN templates[n].versions
        PROVE  templates[n].versions[i].number \in Nat
    <3>1. templates[n].versions \in Seq(Versions)
        BY <2>1, <2>2 DEF Templates
    <3>2. templates[n].versions[i] \in Versions
        BY <2>2, <3>1
    <3>3. QED
        BY <3>2 DEF Versions
  <2>3. VersionNumbers(n) \subseteq Nat
      BY <2>2 DEF VersionNumbers
  <2>4. QED
      BY <2>3 DEF Printables
<1>4. QED
    BY <1>2, <1>3 DEF Printable, Printables

\* BeginPreview preserves the invariant.
LEMMA BeginPreviewInv ==
    ASSUME IInv, NEW w \in Workers, NEW template \in Printable, BeginPreview(w, template)
    PROVE  IInv'
<1>1. artifact \in Contents /\ template \in Printables
    BY PrintableIsTyped DEF IInv, TypeOK
<1>2. Load(w, "preview", 0, artifact, template)
    BY DEF BeginPreview
<1>3. QED
    BY <1>1, <1>2, LoadStep

\* BeginOnPreview preserves the invariant.
LEMMA BeginOnPreviewInv ==
    ASSUME IInv, NEW w \in Workers, NEW p \in DOMAIN previews,
           BeginMark(w, p) \/ BeginConfirm(w, p) \/ BeginSign(w, p)
    PROVE  IInv'
<1> DEFINE content == previews[p].content
           template == previews[p].template
<1>1. p \in Nat /\ content \in Contents /\ template \in Printables
    BY PreviewsAreTyped DEF IInv, Previews, Ids
<1>2. PICK op \in {"mark", "confirm", "sign"} : Load(w, op, p, content, template)
    BY DEF BeginMark, BeginConfirm, BeginSign
<1>3. p \in DOMAIN previews /\ content = previews[p].content /\ template = previews[p].template
    OBVIOUS
<1> HIDE DEF content, template
<1>4. QED
    BY <1>1, <1>2, <1>3, LoadStep

\* BeginReading preserves the invariant.
LEMMA BeginReadingInv ==
    ASSUME IInv, NEW w \in Workers,
           \/ \E p \in DOMAIN previews : ViewPreview(w, p)
           \/ \E d \in DOMAIN signed, op \in Readings : ReadSigned(w, d, op)
    PROVE  IInv'
<1>1. RowsHaveTheirFile
    BY DEF IInv, DocumentRows
<1>2. PICK op \in Readings, file \in files : BeginReading(w, op, file)
    BY <1>1 DEF ViewPreview, ReadSigned, RowsHaveTheirFile, Readings
<1>3. QED
    BY <1>2, ReadingStep

\* The environment changes what no request holds.
LEMMA QuietStep ==
    ASSUME IInv, UNCHANGED <<rows, storage, templateVars, req>>,
           artifact' \in Contents, suspended' \in BOOLEAN
    PROVE  IInv'
<1>1. \A v \in Workers : /\ Printing(v)' <=> Printing(v)
                         /\ AboutTemplates(v)' <=> AboutTemplates(v)
    BY DEF Printing, AboutTemplates
<1>2. DocumentRows' /\ InFlight'
    BY <1>1, DocumentsUntouched
<1>3. UNCHANGED templateVars
    OBVIOUS
<1>4. TemplateRows' /\ TemplatesInFlight'
    BY <1>1, <1>3, TemplatesUntouched
<1>5. TypeOK'
    BY DEF IInv, TypeOK, TemplateTypeOK, rows, storage, access, templateVars
<1>6. QED
    BY <1>2, <1>4, <1>5 DEF IInv

\* Edits of the artifact and suspension preserve the invariant.
LEMMA EnvironmentInv ==
    ASSUME IInv, SetOrganizationStatus \/ \E content \in Contents : EditArtifact(content)
    PROVE  IInv'
<1>1. artifact \in Contents /\ suspended \in BOOLEAN
    BY DEF IInv, TypeOK
<1>2. CASE SetOrganizationStatus
    BY <1>1, <1>2, QuietStep DEF SetOrganizationStatus
<1>3. ASSUME NEW content \in Contents, EditArtifact(content)
      PROVE  IInv'
    BY <1>1, <1>3, QuietStep DEF EditArtifact
<1>4. QED
    BY <1>2, <1>3

\* PreviewExpires preserves the invariant.
LEMMA PreviewExpiresInv ==
    ASSUME IInv, NEW p \in DOMAIN previews, PreviewExpires(p) PROVE IInv'
<1>r. PICK row : row = [previews[p] EXCEPT !.expired = TRUE]
    OBVIOUS
<1>1. previews[p] \in Previews
    BY PreviewsAreTyped DEF IInv
<1>2. previews' = [previews EXCEPT ![p] = row]
    BY <1>r DEF PreviewExpires
<1>3. PreviewChanged(p, row)
    BY <1>1, <1>2, <1>r DEF PreviewChanged, Previews
<1>4. UNCHANGED <<artifact, suspended, placements, signed, drawn, files, log, sent, templateVars, req>>
    BY DEF PreviewExpires, storage, access
<1>5. DocumentRows' /\ previews' \in Seq(Previews) /\ \A w \in Workers : Grows(w)
    BY <1>3, <1>4, PreviewChangedRows
<1>6. \A v \in Workers : /\ Printing(v)' <=> Printing(v)
                         /\ AboutTemplates(v)' <=> AboutTemplates(v)
    BY <1>4 DEF Printing, AboutTemplates
<1>7. ASSUME NEW v \in Workers, Printing(v) PROVE Carried(req[v])'
  <2>q. PICK q : q = req[v]
      OBVIOUS
  <2>1. Carried(q) /\ Grows(v)
      BY <1>5, <1>7, <2>q DEF IInv, InFlight
  <2>2. OfPreview(q) => OfPreview(q)'
      BY <2>1 DEF OfPreview, Grows
  <2>3. Carried(q)'
      BY <1>4, <2>1, <2>2 DEF Carried, SealOf, AllBelow, ToldSent
  <2>4. QED
      BY <1>4, <2>q, <2>3 DEF Carried, OfPreview, SealOf, Holds, AllBelow, ToldSent
<1>8. InFlight'
    BY <1>4, <1>6, <1>7 DEF IInv, InFlight, Apart, Holds
<1>9. UNCHANGED templateVars
    BY <1>4
<1>10. TemplateRows' /\ TemplatesInFlight'
    BY <1>4, <1>6, <1>9, TemplatesUntouched
<1>11. TypeOK'
    BY <1>4, <1>5 DEF IInv, TypeOK, TemplateTypeOK, templateVars
<1>12. QED
    BY <1>5, <1>8, <1>10, <1>11 DEF IInv

----------------------------------------------------------------------------
(* Steps on templates.                                                     *)

\* A step of a request on templates preserves the invariant if the rows stay sound.
LEMMA TemplateStepInv ==
    ASSUME IInv, NEW w \in Workers, NEW r \in TemplateRequests \cup {Idle},
           req[w] = Idle \/ AboutTemplates(w),
           req' = [req EXCEPT ![w] = r], UNCHANGED <<artifact, suspended, rows, storage>>,
           TemplateTypeOK', TemplateRows',
           \A v \in Workers \ {w} : \A q \in TemplateRequests :
               AboutTemplates(v) /\ q = req[v] => TakenBy(q)',
           r # Idle => TakenBy(r)',
           r # Idle /\ HoldsNumber(r) =>
               \A v \in Workers \ {w} : AboutTemplates(v) /\ HoldsNumber(req[v])
                                            => req[v].name # r.name,
           ~overlapped' =>
               /\ \A v \in Workers \ {w} : ~AboutTemplates(v)
               /\ r # Idle => Undisturbed(r)'
    PROVE  IInv'
<1>1. req \in [Workers -> Requests \cup TemplateRequests \cup {Idle}]
    BY DEF IInv, TypeOK
<1>2. \A v \in Workers : req'[v] = IF v = w THEN r ELSE req[v]
    BY <1>1
<1>3. r # Idle => r.op \in {"seed", "template", "version", "activate", "variable", "patch"}
    BY DEF TemplateRequests
<1>4. /\ AboutTemplates(w)' <=> r # Idle
      /\ \A v \in Workers \ {w} : AboutTemplates(v)' <=> AboutTemplates(v)
    BY <1>2, <1>3 DEF AboutTemplates
<1>5. \A v \in Workers : Printing(v)' => Printing(v) /\ req'[v] = req[v]
    BY <1>2, <1>4 DEF Printing
<1>6. DocumentRows' /\ InFlight'
    BY <1>5, DocumentsUntouched
<1>7. TypeOK'
    BY <1>1 DEF IInv, TypeOK, rows, storage, access
<1>8. ASSUME NEW v \in Workers, AboutTemplates(v)' PROVE TakenBy(req[v])'
  <2>1. CASE v = w
    <3>1. TakenBy(r)' /\ req'[v] = r
        BY <1>2, <1>4, <1>8, <2>1
    <3>2. QED
        BY <3>1 DEF TakenBy, VersionNumbers
  <2>2. CASE v # w
    <3>q. PICK q : q = req[v]
        OBVIOUS
    <3>1. AboutTemplates(v) /\ req'[v] = q
        BY <1>2, <1>4, <1>8, <2>2, <3>q
    <3>2. TakenBy(q)'
        BY <2>2, <3>1, <3>q, PrintingIsRequest DEF IInv
    <3>3. QED
        BY <3>1, <3>2 DEF TakenBy, VersionNumbers
  <2>3. QED
      BY <2>1, <2>2
<1>9. \A u, v \in Workers :
          u # v /\ AboutTemplates(u)' /\ AboutTemplates(v)' /\ HoldsNumber(req'[u])
                /\ HoldsNumber(req'[v])
              => req'[u].name # req'[v].name
    BY <1>2, <1>4 DEF IInv, TemplatesInFlight
<1>10. ASSUME ~overlapped'
       PROVE  /\ \A u, v \in Workers : AboutTemplates(u)' /\ AboutTemplates(v)' => u = v
              /\ \A v \in Workers : AboutTemplates(v)' => Undisturbed(req[v])'
  <2>1. \A u, v \in Workers : AboutTemplates(u)' /\ AboutTemplates(v)' => u = v
      BY <1>4, <1>10
  <2>2. ASSUME NEW v \in Workers, AboutTemplates(v)' PROVE Undisturbed(req[v])'
    <3>1. v = w
        BY <1>4, <1>10, <2>2
    <3>2. Undisturbed(r)' /\ req'[v] = r
        BY <1>2, <1>4, <1>10, <2>2, <3>1
    <3>3. QED
        BY <3>2 DEF Undisturbed
  <2>3. QED
      BY <2>1, <2>2
<1>11. TemplatesInFlight'
    BY <1>8, <1>9, <1>10 DEF TemplatesInFlight, HoldsNumber
<1>12. QED
    BY <1>6, <1>7, <1>11 DEF IInv

\* Requests and rows while the templates rest.

\* A step that leaves the templates leaves what is said of them and taken from them.
LEMMA TemplatesRest ==
    ASSUME IInv, UNCHANGED <<system, templates, catalog>>, overlapped => overlapped',
           overlapped' \in BOOLEAN
    PROVE  /\ TemplateTypeOK' /\ TemplateRows'
           /\ \A v \in Workers : \A q \in TemplateRequests :
                  AboutTemplates(v) /\ q = req[v] => TakenBy(q)'
<1>1. TemplateRows'
    BY DEF IInv, TemplateRows, VersionsInOrder, ActiveHasVersion, VersionNumbers,
       SerialCatalogIsSound
<1>2. ASSUME NEW q PROVE TakenBy(q)' <=> TakenBy(q)
    BY DEF TakenBy, VersionNumbers
<1>3. \A v \in Workers : AboutTemplates(v) => TakenBy(req[v])
    BY DEF IInv, TemplatesInFlight
<1>4. QED
    BY <1>1, <1>2, <1>3 DEF IInv, TypeOK, TemplateTypeOK

\* A request on the templates that begins preserves the invariant.
LEMMA BeginOnTemplatesInv ==
    ASSUME IInv, NEW w \in Workers, NEW r \in TemplateRequests, BeginOnTemplates(w, r),
           UNCHANGED <<artifact, suspended, rows, storage>>,
           TakenBy(r), ~HoldsNumber(r), ~overlapped => Undisturbed(r)
    PROVE  IInv'
<1>1. req[w] = Idle /\ req' = [req EXCEPT ![w] = r] /\ UNCHANGED <<system, templates, catalog>>
    BY DEF BeginOnTemplates
<1>2. /\ overlapped => overlapped'
      /\ overlapped' \in BOOLEAN
      /\ ~overlapped' => ~overlapped /\ \A v \in Workers \ {w} : ~AboutTemplates(v)
    BY DEF BeginOnTemplates, Overlap, IInv, TypeOK, TemplateTypeOK
<1>3. /\ TemplateTypeOK' /\ TemplateRows'
      /\ \A v \in Workers : \A q \in TemplateRequests :
             AboutTemplates(v) /\ q = req[v] => TakenBy(q)'
    BY <1>1, <1>2, TemplatesRest
<1>4. TakenBy(r)' /\ (~overlapped => Undisturbed(r)')
    BY <1>1 DEF TakenBy, VersionNumbers, Undisturbed
<1>5. QED
    BY <1>1, <1>2, <1>3, <1>4, TemplateStepInv

\* A step of a request on the templates preserves the invariant.
LEMMA StepOnTemplatesInv ==
    ASSUME IInv, NEW w \in Workers, NEW r \in TemplateRequests, StepOnTemplates(w, r),
           UNCHANGED <<artifact, suspended, rows, storage>>,
           AboutTemplates(w), r.op = "version", TakenBy(r),
           HoldsNumber(r) =>
               \A v \in Workers \ {w} : AboutTemplates(v) /\ HoldsNumber(req[v])
                                            => req[v].name # r.name
    PROVE  IInv'
<1>1. /\ req' = [req EXCEPT ![w] = r]
      /\ UNCHANGED <<system, templates, catalog, overlapped>>
    BY DEF StepOnTemplates, templateVars
<1>2. /\ TemplateTypeOK' /\ TemplateRows'
      /\ \A v \in Workers : \A q \in TemplateRequests :
             AboutTemplates(v) /\ q = req[v] => TakenBy(q)'
    BY <1>1, TemplatesRest DEF IInv, TypeOK, TemplateTypeOK
<1>3. TakenBy(r)' /\ Undisturbed(r)'
    BY <1>1 DEF TakenBy, VersionNumbers, Undisturbed
<1>4. ~overlapped' => \A v \in Workers \ {w} : ~AboutTemplates(v)
    BY <1>1 DEF IInv, TemplatesInFlight
<1>5. QED
    BY <1>1, <1>2, <1>3, <1>4, TemplateStepInv

\* A request ends, with its writes or without.
LEMMA FinishInv ==
    ASSUME IInv, NEW w \in Workers, Finish(w), AboutTemplates(w),
           UNCHANGED <<artifact, suspended, rows, storage>>,
           TemplateTypeOK', TemplateRows',
           \A v \in Workers \ {w} : \A q \in TemplateRequests :
               AboutTemplates(v) /\ q = req[v] => TakenBy(q)'
    PROVE  IInv'
<1>1. req' = [req EXCEPT ![w] = Idle] /\ UNCHANGED overlapped
    BY DEF Finish
<1>2. ~overlapped' => \A v \in Workers \ {w} : ~AboutTemplates(v)
    BY <1>1 DEF IInv, TemplatesInFlight
<1>3. QED
    BY <1>1, <1>2, TemplateStepInv

\* What a request on templates in flight has taken.
LEMMA ServingIsTaken ==
    ASSUME IInv, NEW w \in Workers,
           NEW op \in {"seed", "template", "version", "activate", "variable", "patch"},
           Serving(w, op)
    PROVE  /\ AboutTemplates(w) /\ req[w] \in TemplateRequests /\ req[w].op = op
           /\ TakenBy(req[w])
           /\ ~overlapped => Undisturbed(req[w])
<1>1. AboutTemplates(w)
    BY DEF Serving, AboutTemplates
<1>2. QED
    BY <1>1, PrintingIsRequest DEF IInv, TemplatesInFlight, Serving

\* BeginSeed preserves the invariant.
LEMMA BeginSeedInv ==
    ASSUME IInv, NEW w \in Workers, BeginSeed(w), UNCHANGED <<artifact, suspended, rows, storage>>
    PROVE  IInv'
<1> DEFINE r == [op |-> "seed"]
<1>1. r \in TemplateRequests /\ TakenBy(r) /\ ~HoldsNumber(r)
    BY DEF TemplateRequests, TakenBy, HoldsNumber
<1>2. Undisturbed(r) /\ BeginOnTemplates(w, r)
    BY DEF BeginSeed, Unseeded, Undisturbed
<1> HIDE DEF r
<1>3. QED
    BY <1>1, <1>2, BeginOnTemplatesInv

\* BeginTemplate preserves the invariant.
LEMMA BeginTemplateInv ==
    ASSUME IInv, NEW w \in Workers, NEW n \in Names, BeginTemplate(w, n),
           UNCHANGED <<artifact, suspended, rows, storage>>
    PROVE  IInv'
<1> DEFINE r == [op |-> "template", name |-> n]
<1>1. r \in TemplateRequests /\ TakenBy(r) /\ ~HoldsNumber(r) /\ Undisturbed(r)
    BY DEF TemplateRequests, TakenBy, HoldsNumber, Undisturbed
<1>2. BeginOnTemplates(w, r)
    BY DEF BeginTemplate
<1> HIDE DEF r
<1>3. QED
    BY <1>1, <1>2, BeginOnTemplatesInv

\* BeginVersion preserves the invariant.
LEMMA BeginVersionInv ==
    ASSUME IInv, NEW w \in Workers, NEW n \in Names, NEW uses \in SUBSET Keys,
           BeginVersion(w, n, uses), UNCHANGED <<artifact, suspended, rows, storage>>
    PROVE  IInv'
<1> DEFINE r == [op |-> "version", step |-> "loaded", name |-> n,
                 loaded |-> templates[n].current, number |-> 0, uses |-> uses]
<1>1. templates[n] # NoRow /\ templates[n] \in Templates
    BY DEF BeginVersion, IInv, TypeOK, TemplateTypeOK
<1>2. r \in TemplateRequests
    BY <1>1 DEF TemplateRequests, Templates
<1>3. templates[n].current # 0 => templates[n].versions # <<>>
    BY <1>1 DEF IInv, TemplateRows, ActiveHasVersion
<1>4. TakenBy(r) /\ ~HoldsNumber(r) /\ Undisturbed(r)
    BY <1>1, <1>3 DEF TakenBy, HoldsNumber, Undisturbed
<1>5. BeginOnTemplates(w, r)
    BY DEF BeginVersion
<1> HIDE DEF r
<1>6. QED
    BY <1>2, <1>4, <1>5, BeginOnTemplatesInv

\* BeginActivate preserves the invariant.
LEMMA BeginActivateInv ==
    ASSUME IInv, NEW w \in Workers, NEW n \in Names, NEW number \in VersionNumbers(n),
           BeginActivate(w, n, number), UNCHANGED <<artifact, suspended, rows, storage>>
    PROVE  IInv'
<1> DEFINE r == [op |-> "activate", name |-> n, loaded |-> templates[n].current,
                 number |-> number]
<1>1. templates[n] # NoRow /\ templates[n] \in Templates
    BY DEF VersionNumbers, IInv, TypeOK, TemplateTypeOK
<1>2. number \in Nat
  <2>1. VersionNumbers(n) = 1 .. Len(templates[n].versions)
      BY <1>1, NumbersOfVersions DEF IInv, TemplateRows
  <2>2. QED
      BY <2>1
<1>3. r \in TemplateRequests
    BY <1>1, <1>2 DEF TemplateRequests, Templates
<1>4. TakenBy(r) /\ ~HoldsNumber(r) /\ Undisturbed(r)
    BY <1>1 DEF TakenBy, HoldsNumber, Undisturbed
<1>5. BeginOnTemplates(w, r)
    BY DEF BeginActivate
<1> HIDE DEF r
<1>6. QED
    BY <1>3, <1>4, <1>5, BeginOnTemplatesInv

\* BeginOnVariable preserves the invariant.
LEMMA BeginOnVariableInv ==
    ASSUME IInv, NEW w \in Workers, NEW k \in Keys, UNCHANGED <<artifact, suspended, rows, storage>>,
           \/ \E row \in Variables : BeginVariable(w, k, row) \/ BeginPatch(w, k, row)
           \/ BeginDeactivate(w, k)
    PROVE  IInv'
<1>1. catalog[k] \in Variables \cup {NoRow}
    BY DEF IInv, TypeOK, TemplateTypeOK
<1>2. catalog[k] # NoRow /\ ~overlapped => Exclusive(catalog[k])
    BY DEF IInv, TemplateRows, SerialCatalogIsSound
<1>3. ASSUME NEW row \in Variables, BeginVariable(w, k, row) PROVE IInv'
  <2> DEFINE r == [op |-> "variable", key |-> k, loaded |-> NoRow, row |-> row]
  <2>1. r \in TemplateRequests /\ TakenBy(r) /\ ~HoldsNumber(r)
      BY DEF TemplateRequests, TakenBy, HoldsNumber
  <2>2. Undisturbed(r) /\ BeginOnTemplates(w, r)
      BY <1>3 DEF BeginVariable, Undisturbed
  <2> HIDE DEF r
  <2>3. QED
      BY <2>1, <2>2, BeginOnTemplatesInv
<1>4. ASSUME NEW row \in Variables, catalog[k] # NoRow, LoadVariable(w, k, row),
             ~overlapped => Exclusive(row)
      PROVE  IInv'
  <2> DEFINE r == [op |-> "patch", key |-> k, loaded |-> catalog[k], row |-> row]
  <2>1. r \in TemplateRequests /\ TakenBy(r) /\ ~HoldsNumber(r)
      BY <1>1, <1>4 DEF TemplateRequests, TakenBy, HoldsNumber
  <2>2. BeginOnTemplates(w, r) /\ (~overlapped => Undisturbed(r))
      BY <1>4 DEF LoadVariable, Undisturbed
  <2> HIDE DEF r
  <2>3. QED
      BY <2>1, <2>2, BeginOnTemplatesInv
<1>5. ASSUME NEW row \in Variables, BeginPatch(w, k, row) PROVE IInv'
  <2>1. ~overlapped => Exclusive(row)
      BY <1>2, <1>5 DEF BeginPatch, MayPatch, Exclusive
  <2>2. QED
      BY <1>4, <1>5, <2>1 DEF BeginPatch
<1>6. ASSUME BeginDeactivate(w, k) PROVE IInv'
  <2> DEFINE row == [catalog[k] EXCEPT !.active = FALSE]
  <2>1. catalog[k] # NoRow /\ LoadVariable(w, k, row)
      BY <1>6 DEF BeginDeactivate
  <2>2. row \in Variables /\ row.required = catalog[k].required /\ row.optional = catalog[k].optional
      BY <1>1, <2>1 DEF Variables
  <2>3. ~overlapped => Exclusive(row)
      BY <1>2, <2>1, <2>2 DEF Exclusive
  <2> HIDE DEF row
  <2>4. QED
      BY <1>4, <2>1, <2>2, <2>3
<1>7. QED
    BY <1>3, <1>5, <1>6

\* An error: nothing was written.
LEMMA GiveUpInv ==
    ASSUME IInv, NEW w \in Workers, GiveUp(w), AboutTemplates(w),
           UNCHANGED <<artifact, suspended, rows, storage>>
    PROVE  IInv'
<1>1. Finish(w) /\ UNCHANGED <<system, templates, catalog, overlapped>>
    BY DEF GiveUp, Finish
<1>2. /\ TemplateTypeOK' /\ TemplateRows'
      /\ \A v \in Workers : \A q \in TemplateRequests :
             AboutTemplates(v) /\ q = req[v] => TakenBy(q)'
    BY <1>1, TemplatesRest DEF IInv, TypeOK, TemplateTypeOK
<1>3. QED
    BY <1>1, <1>2, FinishInv

\* NumberVersion preserves the invariant.
LEMMA NumberVersionInv ==
    ASSUME IInv, NEW w \in Workers, NumberVersion(w), UNCHANGED <<artifact, suspended, rows, storage>>
    PROVE  IInv'
<1>q. PICK q : q = req[w]
    OBVIOUS
<1>1. AboutTemplates(w) /\ q \in TemplateRequests /\ q.op = "version" /\ TakenBy(q)
    BY <1>q, ServingIsTaken DEF NumberVersion
<1>2. /\ q \in [op : {"version"}, step : {"loaded", "numbered", "flushed"}, name : Names,
                loaded : Nat, number : Nat, uses : SUBSET Keys]
      /\ templates[q.name] # NoRow
      /\ q.loaded # 0 => templates[q.name].versions # <<>>
    BY <1>1 DEF TemplateRequests, TakenBy
<1>n. PICK n : n = NextVersionNumber(q.name)
    OBVIOUS
<1>3. n = Len(templates[q.name].versions) + 1 /\ n \in Nat
              /\ n \in 1 .. Len(templates[q.name].versions) + 1
  <2>1. q.name \in Names
      BY <1>2
  <2>2. templates[q.name] \in Templates /\ n = Len(templates[q.name].versions) + 1
      BY <1>2, <1>n, <2>1, NumbersOfVersions DEF IInv, TemplateRows
  <2>3. Len(templates[q.name].versions) \in Nat
      BY <2>2 DEF Templates
  <2>4. QED
      BY <2>2, <2>3
<1>r. PICK r : r = [q EXCEPT !.step = "numbered", !.number = n]
    OBVIOUS
<1>4. StepOnTemplates(w, r)
    BY <1>q, <1>n, <1>r DEF NumberVersion
<1>5. /\ r \in TemplateRequests
      /\ r.op = "version" /\ r.step = "numbered" /\ r.name = q.name /\ r.loaded = q.loaded
      /\ r.number = n
    BY <1>2, <1>3, <1>r DEF TemplateRequests
<1>6. TakenBy(r) /\ ~HoldsNumber(r)
    BY <1>2, <1>3, <1>5 DEF TakenBy, HoldsNumber
<1>7. QED
    BY <1>1, <1>4, <1>5, <1>6, StepOnTemplatesInv

\* FlushVersion preserves the invariant.
LEMMA FlushVersionInv ==
    ASSUME IInv, NEW w \in Workers, FlushVersion(w), UNCHANGED <<artifact, suspended, rows, storage>>
    PROVE  IInv'
<1>q. PICK q : q = req[w]
    OBVIOUS
<1>1. AboutTemplates(w) /\ q \in TemplateRequests /\ q.op = "version" /\ TakenBy(q)
          /\ q.step = "numbered"
    BY <1>q, ServingIsTaken DEF FlushVersion
<1>2. CASE q.number \in VersionNumbers(q.name)
    BY <1>q, <1>1, <1>2, GiveUpInv DEF FlushVersion
<1>3. CASE q.number \notin VersionNumbers(q.name)
  <2>r. PICK r : r = [q EXCEPT !.step = "flushed"]
      OBVIOUS
  <2>1. StepOnTemplates(w, r)
      BY <1>q, <1>3, <2>r DEF FlushVersion
  <2>2. /\ r \in TemplateRequests
        /\ r.op = "version" /\ r.step = "flushed" /\ r.name = q.name /\ r.loaded = q.loaded
        /\ r.number = q.number
      BY <1>1, <2>r DEF TemplateRequests
  <2>3. /\ templates[q.name] # NoRow
        /\ q.loaded # 0 => templates[q.name].versions # <<>>
        /\ q.number \in 1 .. Len(templates[q.name].versions) + 1
      BY <1>1 DEF TakenBy
  <2>4. TakenBy(r)
      BY <1>3, <2>2, <2>3 DEF TakenBy
  <2>5. ASSUME NEW v \in Workers \ {w}, AboutTemplates(v), HoldsNumber(req[v])
        PROVE  req[v].name # r.name
    <3>p. PICK p : p = req[v]
        OBVIOUS
    <3>1. Serving(v, "version") /\ p.step = "flushed"
        BY <2>5, <3>p DEF HoldsNumber, AboutTemplates, Serving
    <3>2. p \in TemplateRequests /\ TakenBy(p) /\ p.op = "version"
        BY <3>1, <3>p, ServingIsTaken
    <3>3. /\ p.number \in 1 .. Len(templates[p.name].versions) + 1
          /\ p.number \notin VersionNumbers(p.name)
        BY <3>1, <3>2 DEF TakenBy
    <3>4. ~(p.name = q.name /\ p.number = q.number)
        BY <1>q, <2>5, <3>p, <3>1 DEF FlushVersion, NumberHeld
    <3>5. ASSUME p.name = q.name PROVE p.number = q.number
      <4>1. q.name \in Names
          BY <1>1 DEF TemplateRequests
      <4>2. /\ templates[q.name] \in Templates
            /\ VersionNumbers(q.name) = 1 .. Len(templates[q.name].versions)
          BY <2>3, <4>1, NumbersOfVersions DEF IInv, TemplateRows
      <4>3. Len(templates[q.name].versions) \in Nat
          BY <4>2 DEF Templates
      <4>4. QED
          BY <1>3, <2>3, <3>3, <3>5, <4>2, <4>3
    <3>6. QED
        BY <2>2, <3>p, <3>4, <3>5
  <2>6. QED
      BY <1>1, <2>1, <2>2, <2>4, <2>5, StepOnTemplatesInv
<1>4. QED
    BY <1>2, <1>3

\* CommitSeed preserves the invariant.
LEMMA CommitSeedInv ==
    ASSUME IInv, NEW w \in Workers, CommitSeed(w), UNCHANGED <<artifact, suspended, rows, storage>>
    PROVE  IInv'
<1>1. AboutTemplates(w) /\ (~overlapped => system = 0)
    BY ServingIsTaken DEF CommitSeed, Undisturbed
<1>2. Finish(w) /\ system' = system + 1 /\ UNCHANGED <<templates, catalog, overlapped>>
    BY DEF CommitSeed, Finish
<1>3. TemplateTypeOK'
    BY <1>2 DEF IInv, TypeOK, TemplateTypeOK
<1>4. TemplateRows'
    BY <1>1, <1>2 DEF IInv, TemplateRows, VersionsInOrder, ActiveHasVersion, VersionNumbers,
       SerialCatalogIsSound
<1>5. ASSUME NEW q PROVE TakenBy(q)' <=> TakenBy(q)
    BY <1>2 DEF TakenBy, VersionNumbers
<1>6. \A v \in Workers : \A q \in TemplateRequests : AboutTemplates(v) /\ q = req[v] => TakenBy(q)'
    BY <1>5 DEF IInv, TemplatesInFlight
<1>7. QED
    BY <1>1, <1>2, <1>3, <1>4, <1>6, FinishInv

\* One template gets its row, or a row that keeps its versions and may add
\* one whose number no other request holds.
LEMMA TemplateChanges ==
    ASSUME IInv, NEW w \in Workers, Finish(w), AboutTemplates(w), UNCHANGED <<system, catalog>>,
           UNCHANGED <<artifact, suspended, rows, storage>>,
           NEW n \in Names, NEW row \in Templates, templates' = [templates EXCEPT ![n] = row],
           \A i \in DOMAIN row.versions : row.versions[i].number = i,
           IF row.versions = <<>> THEN row.status = "draft" /\ row.current = 0
           ELSE row.status = "active" /\ row.current \in 1 .. Len(row.versions),
           templates[n] # NoRow =>
               /\ Len(templates[n].versions) <= Len(row.versions)
               /\ \/ Len(row.versions) = Len(templates[n].versions)
                  \/ \A v \in Workers \ {w} :
                         AboutTemplates(v) /\ HoldsNumber(req[v]) => req[v].name # n
    PROVE  IInv'
<1>1. templates \in [Names -> Templates \cup {NoRow}]
    BY DEF IInv, TypeOK, TemplateTypeOK
<1>2. /\ templates' \in [Names -> Templates \cup {NoRow}]
      /\ templates'[n] = row /\ row # NoRow
      /\ \A m \in Names \ {n} : templates'[m] = templates[m]
    BY <1>1, IdleAssumption
<1>3. row.versions \in Seq(Versions) /\ Len(row.versions) \in Nat
    BY DEF Templates
<1>4. VersionNumbers(n)' = 1 .. Len(row.versions)
    BY <1>2, <1>3 DEF VersionNumbers
<1>5. \A m \in Names \ {n} : VersionNumbers(m)' = VersionNumbers(m)
    BY <1>2 DEF VersionNumbers
<1>6. TemplateTypeOK'
    BY <1>2 DEF IInv, TypeOK, TemplateTypeOK, Finish
<1>7. VersionsInOrder'
    BY <1>2 DEF IInv, TemplateRows, VersionsInOrder
<1>8. ActiveHasVersion'
  <2>1. ASSUME NEW m \in Names, templates'[m] # NoRow
        PROVE  IF templates'[m].versions = <<>>
               THEN templates'[m].status = "draft" /\ templates'[m].current = 0
               ELSE templates'[m].status = "active" /\ templates'[m].current \in VersionNumbers(m)'
    <3>1. CASE m = n
        BY <1>2, <1>4, <3>1
    <3>2. CASE m # n
        BY <1>2, <1>5, <2>1, <3>2 DEF IInv, TemplateRows, ActiveHasVersion
    <3>3. QED
        BY <3>1, <3>2
  <2>2. QED
      BY <2>1 DEF ActiveHasVersion
<1>9. SerialCatalogIsSound'
    BY DEF IInv, TemplateRows, SerialCatalogIsSound, Finish
<1>10. ASSUME NEW v \in Workers \ {w}, NEW q \in TemplateRequests, AboutTemplates(v), q = req[v]
       PROVE  TakenBy(q)'
  <2>1. TakenBy(q)
      BY <1>10 DEF IInv, TemplatesInFlight
  <2>2. q.op \in {"version", "activate"} => q.name \in Names
      BY DEF TemplateRequests
  <2>3. CASE q.op \notin {"version", "activate"}
      BY <2>1, <2>3 DEF TakenBy
  <2>4. CASE q.op \in {"version", "activate"} /\ q.name # n
      BY <1>2, <1>5, <2>1, <2>2, <2>4 DEF TakenBy
  <2>5. CASE q.op \in {"version", "activate"} /\ q.name = n
    <3>1. templates[n] # NoRow
        BY <2>1, <2>5 DEF TakenBy
    <3>2. /\ templates[n] \in Templates
          /\ VersionNumbers(n) = 1 .. Len(templates[n].versions)
        BY <3>1, NumbersOfVersions DEF IInv, TemplateRows
    <3>3. templates[n].versions \in Seq(Versions) /\ Len(templates[n].versions) \in Nat
        BY <3>2 DEF Templates
    <3>4. templates[n].versions # <<>> => row.versions # <<>>
        BY <1>3, <3>1, <3>3
    <3>5. CASE q.op = "activate"
        BY <1>2, <1>3, <1>4, <2>1, <2>5, <3>1, <3>2, <3>3, <3>5 DEF TakenBy
    <3>6. CASE q.op = "version"
      <4>1. q.step = "flushed" => q.number \notin VersionNumbers(n)'
          BY <1>4, <1>10, <2>1, <2>5, <3>1, <3>2, <3>6 DEF TakenBy, HoldsNumber
      <4>2. q.step # "loaded" => q.number \in 1 .. Len(row.versions) + 1
          BY <1>3, <2>1, <2>5, <3>1, <3>3, <3>6 DEF TakenBy
      <4>3. QED
          BY <1>2, <2>1, <2>5, <3>4, <3>6, <4>1, <4>2 DEF TakenBy
    <3>7. QED
        BY <2>5, <3>5, <3>6
  <2>6. QED
      BY <2>3, <2>4, <2>5
<1>11. QED
    BY <1>6, <1>7, <1>8, <1>9, <1>10, FinishInv DEF TemplateRows

\* CommitTemplate preserves the invariant.
LEMMA CommitTemplateInv ==
    ASSUME IInv, NEW w \in Workers, CommitTemplate(w), UNCHANGED <<artifact, suspended, rows, storage>>
    PROVE  IInv'
<1>n. PICK n : n = req[w].name
    OBVIOUS
<1>1. AboutTemplates(w) /\ n \in Names
    BY <1>n, ServingIsTaken DEF CommitTemplate, TemplateRequests
<1>2. Finish(w) /\ UNCHANGED <<system, catalog>>
    BY DEF CommitTemplate
<1>3. CASE templates[n] # NoRow
  <2>1. GiveUp(w)
      BY <1>n, <1>2, <1>3 DEF CommitTemplate, GiveUp
  <2>2. QED
      BY <1>1, <2>1, GiveUpInv
<1>4. CASE templates[n] = NoRow
  <2> DEFINE row == [status |-> "draft", current |-> 0, versions |-> <<>>]
  <2>1. templates' = [templates EXCEPT ![n] = row]
      BY <1>n, <1>4 DEF CommitTemplate
  <2>2. row \in Templates /\ row.versions = <<>> /\ row.status = "draft" /\ row.current = 0
      BY DEF Templates
  <2> HIDE DEF row
  <2>3. \A i \in DOMAIN row.versions : row.versions[i].number = i
      BY <2>2
  <2>4. QED
      BY <1>1, <1>2, <1>4, <2>1, <2>2, <2>3, TemplateChanges
<1>5. QED
    BY <1>3, <1>4

\* CommitVersion preserves the invariant.
LEMMA CommitVersionInv ==
    ASSUME IInv, NEW w \in Workers, CommitVersion(w), UNCHANGED <<artifact, suspended, rows, storage>>
    PROVE  IInv'
<1>q. PICK q : q = req[w]
    OBVIOUS
<1>1. AboutTemplates(w) /\ q \in TemplateRequests /\ q.op = "version" /\ TakenBy(q)
          /\ q.step = "flushed"
    BY <1>q, ServingIsTaken DEF CommitVersion
<1>2. q.name \in Names /\ q.loaded \in Nat /\ q.number \in Nat /\ q.uses \in SUBSET Keys
    BY <1>1 DEF TemplateRequests
<1>t. PICK t : t = templates[q.name]
    OBVIOUS
<1>3. /\ t # NoRow
      /\ q.loaded # 0 => t.versions # <<>>
      /\ q.number \in 1 .. Len(t.versions) + 1
      /\ q.number \notin VersionNumbers(q.name)
    BY <1>1, <1>t DEF TakenBy
<1>4. /\ t \in Templates
      /\ VersionNumbers(q.name) = 1 .. Len(t.versions)
    BY <1>2, <1>3, <1>t, NumbersOfVersions DEF IInv, TemplateRows
<1>5. t.versions \in Seq(Versions) /\ Len(t.versions) \in Nat
    BY <1>4 DEF Templates
<1>6. q.number = Len(t.versions) + 1
    BY <1>3, <1>4, <1>5
<1>v. PICK version : version = [number |-> q.number, uses |-> q.uses]
    OBVIOUS
<1>7. version \in Versions /\ version.number = q.number
    BY <1>2, <1>v DEF Versions
<1>a. PICK added : added = [t EXCEPT !.versions = Append(@, version)]
    OBVIOUS
<1>8. /\ added \in Templates
      /\ added.versions = Append(t.versions, version)
      /\ added.current = t.current /\ added.status = t.status
  <2> PICK more : more = Append(t.versions, version)
      OBVIOUS
  <2>1. more \in Seq(Versions)
      BY <1>5, <1>7
  <2>2. added = [t EXCEPT !.versions = more]
      BY <1>a
  <2>3. /\ t.status \in {"draft", "active"} /\ t.current \in Nat
        /\ t = [status |-> t.status, current |-> t.current, versions |-> t.versions]
      BY <1>4 DEF Templates
  <2>4. added = [status |-> t.status, current |-> t.current, versions |-> more]
      BY <2>2, <2>3
  <2>5. QED
      BY <2>1, <2>3, <2>4 DEF Templates
<1>r. PICK row : row = FirstIsCurrent(added, q)
    OBVIOUS
<1>9. Finish(w) /\ UNCHANGED <<system, catalog>> /\ templates' = [templates EXCEPT ![q.name] = row]
    BY <1>q, <1>t, <1>v, <1>a, <1>r DEF CommitVersion
<1>10. /\ row \in Templates
       /\ row.versions = added.versions
       /\ q.loaded = 0 => row.current = q.number /\ row.status = "active"
       /\ q.loaded # 0 => row.current = t.current /\ row.status = t.status
    BY <1>2, <1>8, <1>r DEF FirstIsCurrent, Templates
<1>11. /\ Len(row.versions) = Len(t.versions) + 1 /\ row.versions # <<>>
       /\ \A i \in DOMAIN row.versions :
              row.versions[i] = IF i = Len(t.versions) + 1 THEN version ELSE t.versions[i]
       /\ DOMAIN row.versions = DOMAIN t.versions \cup {Len(t.versions) + 1}
    BY <1>5, <1>7, <1>8, <1>10
<1>12. \A i \in DOMAIN row.versions : row.versions[i].number = i
  <2>1. \A i \in DOMAIN t.versions : t.versions[i].number = i
      BY <1>2, <1>3, <1>t DEF IInv, TemplateRows, VersionsInOrder
  <2>2. QED
      BY <1>6, <1>7, <1>11, <2>1
<1>13. row.status = "active" /\ row.current \in 1 .. Len(row.versions)
  <2>1. t.versions # <<>> => t.status = "active" /\ t.current \in VersionNumbers(q.name)
      BY <1>2, <1>3, <1>t DEF IInv, TemplateRows, ActiveHasVersion
  <2>2. CASE q.loaded = 0
      BY <1>5, <1>6, <1>10, <1>11, <2>2
  <2>3. CASE q.loaded # 0
      BY <1>3, <1>4, <1>5, <1>10, <1>11, <2>1, <2>3
  <2>4. QED
      BY <2>2, <2>3
<1>14. \A v \in Workers \ {w} : AboutTemplates(v) /\ HoldsNumber(req[v]) => req[v].name # q.name
    BY <1>q, <1>1 DEF IInv, TemplatesInFlight, HoldsNumber
<1>15. Len(templates[q.name].versions) <= Len(row.versions)
    BY <1>t, <1>5, <1>11
<1>16. QED
    BY <1>1, <1>2, <1>9, <1>10, <1>11, <1>12, <1>13, <1>14, <1>15, TemplateChanges

\* CommitActivate preserves the invariant.
LEMMA CommitActivateInv ==
    ASSUME IInv, NEW w \in Workers, CommitActivate(w), UNCHANGED <<artifact, suspended, rows, storage>>
    PROVE  IInv'
<1>q. PICK q : q = req[w]
    OBVIOUS
<1>1. AboutTemplates(w) /\ q \in TemplateRequests /\ q.op = "activate" /\ TakenBy(q)
    BY <1>q, ServingIsTaken DEF CommitActivate
<1>2. q.name \in Names /\ q.number \in Nat
    BY <1>1 DEF TemplateRequests
<1>3. Finish(w) /\ UNCHANGED <<system, catalog>>
    BY DEF CommitActivate
<1>4. CASE q.number = q.loaded
  <2>1. GiveUp(w)
      BY <1>q, <1>3, <1>4 DEF CommitActivate, GiveUp
  <2>2. QED
      BY <1>1, <2>1, GiveUpInv
<1>5. CASE q.number # q.loaded
  <2>t. PICK t : t = templates[q.name]
      OBVIOUS
  <2>1. t # NoRow /\ q.number \in VersionNumbers(q.name)
      BY <1>1, <2>t DEF TakenBy
  <2>2. t \in Templates /\ VersionNumbers(q.name) = 1 .. Len(t.versions)
      BY <1>2, <2>1, <2>t, NumbersOfVersions DEF IInv, TemplateRows
  <2>3. t.versions \in Seq(Versions) /\ Len(t.versions) \in Nat
      BY <2>2 DEF Templates
  <2>r. PICK row : row = [t EXCEPT !.current = q.number, !.status = "active"]
      OBVIOUS
  <2>4. row \in Templates /\ row.versions = t.versions /\ row.current = q.number
            /\ row.status = "active"
      BY <1>2, <2>2, <2>r DEF Templates
  <2>5. templates' = [templates EXCEPT ![q.name] = row]
    <3>1. templates \in [Names -> Templates \cup {NoRow}]
        BY DEF IInv, TypeOK, TemplateTypeOK
    <3>2. templates' = [templates EXCEPT ![q.name].current = q.number,
                                         ![q.name].status = "active"]
        BY <1>q, <1>5 DEF CommitActivate
    <3>3. QED
        BY <1>2, <2>t, <2>r, <3>1, <3>2
  <2>6. \A i \in DOMAIN row.versions : row.versions[i].number = i
      BY <1>2, <2>1, <2>4, <2>t DEF IInv, TemplateRows, VersionsInOrder
  <2>7. row.versions # <<>> /\ row.current \in 1 .. Len(row.versions)
      BY <2>1, <2>2, <2>3, <2>4
  <2>8. /\ Len(row.versions) = Len(templates[q.name].versions)
        /\ Len(templates[q.name].versions) <= Len(row.versions)
      BY <2>3, <2>4, <2>t
  <2>9. QED
      BY <1>1, <1>2, <1>3, <2>4, <2>5, <2>6, <2>7, <2>8, TemplateChanges
<1>6. QED
    BY <1>4, <1>5

\* One variable gets its row, or a row that replaces it.
LEMMA VariableChanges ==
    ASSUME IInv, NEW w \in Workers, Finish(w), AboutTemplates(w), UNCHANGED <<system, templates>>,
           UNCHANGED <<artifact, suspended, rows, storage>>,
           NEW k \in Keys, NEW row \in Variables, catalog' = [catalog EXCEPT ![k] = row],
           ~overlapped => Exclusive(row)
    PROVE  IInv'
<1>1. catalog \in [Keys -> Variables \cup {NoRow}]
    BY DEF IInv, TypeOK, TemplateTypeOK
<1>2. /\ catalog' \in [Keys -> Variables \cup {NoRow}]
      /\ \A x \in Keys : catalog'[x] = IF x = k THEN row ELSE catalog[x]
      /\ row # NoRow
    BY <1>1, IdleAssumption
<1>3. TemplateTypeOK'
    BY <1>2 DEF IInv, TypeOK, TemplateTypeOK, Finish
<1>4. VersionsInOrder' /\ ActiveHasVersion'
    BY DEF IInv, TemplateRows, VersionsInOrder, ActiveHasVersion, VersionNumbers
<1>5. SerialCatalogIsSound'
    BY <1>2 DEF IInv, TemplateRows, SerialCatalogIsSound, Exclusive, Finish
<1>6. ASSUME NEW v \in Workers, NEW q \in TemplateRequests, AboutTemplates(v), q = req[v]
      PROVE  TakenBy(q)'
  <2>1. TakenBy(q)
      BY <1>6 DEF IInv, TemplatesInFlight
  <2>2. q.op = "patch" => q.key \in Keys
      BY DEF TemplateRequests
  <2>3. q.op = "patch" => catalog'[q.key] # NoRow
      BY <1>2, <2>1, <2>2 DEF TakenBy
  <2>4. QED
      BY <2>1, <2>3 DEF TakenBy, VersionNumbers
<1>7. QED
    BY <1>3, <1>4, <1>5, <1>6, FinishInv DEF TemplateRows

\* CommitVariable preserves the invariant.
LEMMA CommitVariableInv ==
    ASSUME IInv, NEW w \in Workers, CommitVariable(w), UNCHANGED <<artifact, suspended, rows, storage>>
    PROVE  IInv'
<1>q. PICK q : q = req[w]
    OBVIOUS
<1>1. AboutTemplates(w) /\ q \in TemplateRequests /\ q.op = "variable"
          /\ (~overlapped => Undisturbed(q))
    BY <1>q, ServingIsTaken DEF CommitVariable, Undisturbed
<1>2. q.key \in Keys /\ q.row \in Variables /\ (~overlapped => Exclusive(q.row))
    BY <1>1 DEF TemplateRequests, Undisturbed
<1>3. Finish(w) /\ UNCHANGED <<system, templates>>
    BY DEF CommitVariable
<1>4. CASE catalog[q.key] # NoRow
  <2>1. GiveUp(w)
      BY <1>q, <1>3, <1>4 DEF CommitVariable, GiveUp
  <2>2. QED
      BY <1>1, <2>1, GiveUpInv
<1>5. CASE catalog[q.key] = NoRow
  <2>1. catalog' = [catalog EXCEPT ![q.key] = q.row]
      BY <1>q, <1>5 DEF CommitVariable
  <2>2. QED
      BY <1>1, <1>2, <1>3, <2>1, VariableChanges
<1>6. QED
    BY <1>4, <1>5

\* CommitPatch preserves the invariant.
LEMMA CommitPatchInv ==
    ASSUME IInv, NEW w \in Workers, CommitPatch(w), UNCHANGED <<artifact, suspended, rows, storage>>
    PROVE  IInv'
<1>q. PICK q : q = req[w]
    OBVIOUS
<1>1. AboutTemplates(w) /\ q \in TemplateRequests /\ q.op = "patch" /\ TakenBy(q)
          /\ (~overlapped => Undisturbed(q))
    BY <1>q, ServingIsTaken DEF CommitPatch, Undisturbed
<1>c. PICK old : old = catalog[q.key]
    OBVIOUS
<1>2. q.key \in Keys /\ q.row \in Variables
    BY <1>1 DEF TemplateRequests
<1>3. old \in Variables
    BY <1>1, <1>2, <1>c DEF TakenBy, IInv, TypeOK, TemplateTypeOK
<1>4. ~overlapped => q.loaded = old /\ Exclusive(q.row)
    BY <1>1, <1>c DEF Undisturbed
<1>r. PICK row : row = [c \in DOMAIN old |-> IF q.row[c] = q.loaded[c] THEN old[c] ELSE q.row[c]]
    OBVIOUS
<1>5. DOMAIN old = {"active", "required", "optional"}
    BY <1>3 DEF Variables
<1>6. row \in Variables
    BY <1>2, <1>3, <1>5, <1>r DEF Variables
<1>7. ~overlapped => Exclusive(row)
  <2>1. ~overlapped => row.required = q.row.required /\ row.optional = q.row.optional
      BY <1>4, <1>5, <1>r
  <2>2. QED
      BY <1>4, <2>1 DEF Exclusive
<1>8. Finish(w) /\ UNCHANGED <<system, templates>> /\ catalog' = [catalog EXCEPT ![q.key] = row]
  <2>1. catalog \in [Keys -> Variables \cup {NoRow}]
      BY DEF IInv, TypeOK, TemplateTypeOK
  <2>2. QED
      BY <1>q, <1>c, <1>r, <1>2, <2>1 DEF CommitPatch
<1>9. QED
    BY <1>1, <1>2, <1>6, <1>7, <1>8, VariableChanges

----------------------------------------------------------------------------
(* Every step.                                                             *)

\* Every step preserves the invariant.
LEMMA NextInv == IInv /\ [Next]_vars => IInv'
<1> SUFFICES ASSUME IInv, [Next]_vars PROVE IInv'
    OBVIOUS
<1>1. ASSUME NEW w \in Workers, NEW template \in Printable, BeginPreview(w, template) PROVE IInv'
    BY <1>1, BeginPreviewInv
<1>2. ASSUME NEW w \in Workers, StorePdf(w) PROVE IInv'
    BY <1>2, StorePdfInv
<1>3. ASSUME NEW w \in Workers, StorePdfFails(w) \/ Crash(w) PROVE IInv'
    BY <1>3, FailStep DEF StorePdfFails, Crash
<1>4. ASSUME NEW w \in Workers, CommitPreview(w) PROVE IInv'
    BY <1>4, CommitPreviewInv
<1>5. ASSUME NEW w \in Workers,
             \/ NumberPlacement(w) \/ FlushPlacement(w) \/ NumberDocument(w)
             \/ \E seal \in placements : NamePlacement(w, seal)
      PROVE  IInv'
    BY <1>5, NumberPlacementInv, FlushPlacementInv, NumberDocumentInv, NamePlacementInv
<1>6. ASSUME NEW w \in Workers, CommitConfirm(w) PROVE IInv'
    BY <1>6, CommitConfirmInv
<1>7. ASSUME NEW w \in Workers, CommitSign(w) PROVE IInv'
    BY <1>7, CommitSignInv
<1>8. ASSUME NEW w \in Workers, NEW p \in DOMAIN previews,
             BeginMark(w, p) \/ BeginConfirm(w, p) \/ BeginSign(w, p)
      PROVE  IInv'
    BY <1>8, BeginOnPreviewInv
<1>9. ASSUME NEW w \in Workers, NEW status \in {"expired", "stale"}, CommitMark(w, status)
      PROVE  IInv'
    BY <1>9, CommitMarkInv
<1>10. ASSUME NEW w \in Workers,
              \/ \E p \in DOMAIN previews : ViewPreview(w, p)
              \/ \E d \in DOMAIN signed, op \in Readings : ReadSigned(w, d, op)
       PROVE  IInv'
    BY <1>10, BeginReadingInv
<1>11. ASSUME NEW w \in Workers, CommitDenied(w) \/ CommitReading(w) \/ Send(w) PROVE IInv'
    BY <1>11, CommitDeniedInv, CommitReadingInv, SendInv
<1>12. ASSUME NEW w \in Workers, TemplateStep(w), UNCHANGED <<artifact, suspended, rows, storage>>
       PROVE  IInv'
  <2>1. CASE BeginSeed(w) \/ CommitSeed(w)
      BY <1>12, <2>1, BeginSeedInv, CommitSeedInv
  <2>2. ASSUME NEW n \in Names,
               \/ BeginTemplate(w, n)
               \/ \E uses \in SUBSET Keys : BeginVersion(w, n, uses)
               \/ \E number \in VersionNumbers(n) : BeginActivate(w, n, number)
        PROVE  IInv'
      BY <1>12, <2>2, BeginTemplateInv, BeginVersionInv, BeginActivateInv
  <2>3. CASE CommitTemplate(w) \/ NumberVersion(w) \/ FlushVersion(w) \/ CommitVersion(w)
                 \/ CommitActivate(w)
      BY <1>12, <2>3, CommitTemplateInv, NumberVersionInv, FlushVersionInv, CommitVersionInv,
         CommitActivateInv
  <2>4. ASSUME NEW k \in Keys,
               \/ \E row \in Variables : BeginVariable(w, k, row) \/ BeginPatch(w, k, row)
               \/ BeginDeactivate(w, k)
        PROVE  IInv'
      BY <1>12, <2>4, BeginOnVariableInv
  <2>5. CASE CommitVariable(w) \/ CommitPatch(w)
      BY <1>12, <2>5, CommitVariableInv, CommitPatchInv
  <2>6. QED
      BY <1>12, <2>1, <2>2, <2>3, <2>4, <2>5 DEF TemplateStep
<1>13. CASE SetOrganizationStatus \/ \E content \in Contents : EditArtifact(content)
    BY <1>13, EnvironmentInv
<1>14. ASSUME NEW p \in DOMAIN previews, PreviewExpires(p) PROVE IInv'
    BY <1>14, PreviewExpiresInv
<1>15. CASE UNCHANGED vars
  <2>1. UNCHANGED <<rows, storage, templateVars, req>> /\ artifact' = artifact
            /\ suspended' = suspended
      BY <1>15 DEF vars
  <2>2. artifact \in Contents /\ suspended \in BOOLEAN
      BY DEF IInv, TypeOK
  <2>3. QED
      BY <2>1, <2>2, QuietStep
<1>16. QED
    BY <1>1, <1>2, <1>3, <1>4, <1>5, <1>6, <1>7, <1>8, <1>9, <1>10, <1>11, <1>12, <1>13, <1>14,
       <1>15 DEF Next

\* The invariant holds always.
LEMMA Invariant == Spec => []IInv
BY InitInv, NextInv, PTL DEF Spec

----------------------------------------------------------------------------
(* What follows.                                                           *)

\* Every row keeps the type of its table, and a request in flight what its
\* handler holds.
THEOREM WellTyped == Spec => []TypeOK
<1>1. IInv => TypeOK
    BY DEF IInv
<1>2. QED
    BY <1>1, Invariant, PTL

\* The documents of an artifact are numbered 1, 2, 3, ... in the order they
\* are committed and only the last is current, however the requests that
\* number them race: a number taken twice ends in one 409.
THEOREM DocumentsInOrder == Spec => []NumberedInOrder
<1>1. ASSUME IInv PROVE NumberedInOrder
  <2>1. signed \in Seq(Signed) /\ \A d \in DOMAIN signed : signed[d].version = d
      BY <1>1 DEF IInv, TypeOK, DocumentRows, Numbered
  <2>2. ASSUME NEW d \in DOMAIN signed PROVE Obsolete(d) <=> d # Len(signed)
    <3>1. d # Len(signed) => Len(signed) \in DOMAIN signed /\ Len(signed) > d
        BY <2>1
    <3>2. \A e \in DOMAIN signed : e > d => d # Len(signed)
        BY <2>1
    <3>3. QED
        BY <2>1, <3>1, <3>2 DEF Obsolete
  <2>3. QED
      BY <2>1, <2>2 DEF NumberedInOrder
<1>2. QED
    BY <1>1, Invariant, PTL

\* A signed document is the preview its signer saw, sealed where a placement
\* of that preview says, and the preview is spent, whatever was edited,
\* expired or signed meanwhile.
THEOREM SealedAsPreviewed == Spec => []SealsThePreview
<1>1. IInv => SealsThePreview
    BY DEF IInv, DocumentRows
<1>2. QED
    BY <1>1, Invariant, PTL

\* A committed row has its PDF in the storage and its event in the log, every
\* such event its row, and no PDF was sent that the log does not tell,
\* wherever a request failed or died.
THEOREM NothingLost == Spec => []NothingIsLost
<1>1. ASSUME IInv PROVE NothingIsLost
  <2> DEFINE Files(events) == {e.file : e \in {x \in log : x.event \in events}}
  <2>1. RowsHaveTheirFile /\ RowsAreTold /\ \A e \in log : EventIsTrue(e)
      BY <1>1 DEF IInv, DocumentRows
  <2>2. Files({"preview_created"}) = {previews[p].file : p \in DOMAIN previews}
      BY <2>1 DEF RowsAreTold, EventIsTrue
  <2>3. Files({"signed"}) = {signed[d].file : d \in DOMAIN signed}
      BY <2>1 DEF RowsAreTold, EventIsTrue
  <2>4. {e.seal : e \in {x \in log : x.event \in {"placement_confirmed"}}} = placements
      BY <2>1 DEF RowsAreTold, EventIsTrue
  <2>5. sent \subseteq Files({"preview_viewed", "signed_downloaded"})
      BY <2>1 DEF RowsAreTold, ToldSent
  <2>6. \A e \in log : e.valid
      BY <2>1 DEF EventIsTrue
  <2>7. QED
      BY <2>1, <2>2, <2>3, <2>4, <2>5, <2>6 DEF NothingIsLost, LogTellsAll
<1>2. QED
    BY <1>1, Invariant, PTL

\* Versions of a template are numbered in order and one of them is in force as
\* soon as there is one; without overlapping requests the system's template
\* has one row and no variable is both required and optional.
THEOREM TemplatesSound == Spec => []TemplatesAreSound
<1>1. IInv => TemplatesAreSound
    BY DEF IInv, TemplateRows, TemplatesAreSound
<1>2. QED
    BY <1>1, Invariant, PTL

=============================================================================
