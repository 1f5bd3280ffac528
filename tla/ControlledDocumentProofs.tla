---------------------- MODULE ControlledDocumentProofs ----------------------
(***************************************************************************)
(* What holds of a controlled document of each kind, for any number of     *)
(* threads, rows and texts.                                                *)
(*                                                                         *)
(* Carried says what a request in flight relies on and no other takes      *)
(* back: the artifact is there, and what an approval loaded is complete.   *)
(* Undisturbed says what more is so of it until a second request overlaps: *)
(* the columns it loaded, the rows it saw, the gate it passed and the      *)
(* number it counted are those of this moment.                             *)
(***************************************************************************)
EXTENDS ControlledDocuments, FiniteSetTheorems, TLAPS

\* What the handlers of each kind have still to do.
ApprovalsLeft ==
    CASE kind = "internal_audit_report" ->
             {<<"gate", "snapshot", "count">>, <<"snapshot", "count">>, <<"count">>, <<>>}
      [] kind = "management_review" -> {<<"count">>, <<>>}
      [] OTHER -> {<<"count", "snapshot">>, <<"snapshot">>, <<>>}

\* What follows from other columns does so in one row.
AgreesIn(row) ==
    /\ kind = "stakeholder_map" => row.strategy = Strategy(row.power, row.interest)
    /\ kind = "context_analysis" => (row.framework = "pestel" => row.origin = "external")

Agrees(held) == \A id \in RowIds : held[id] # NoRow => AgreesIn(held[id])

Carried(r) ==
    /\ doc # NoRow
    /\ r.loaded \in HeadsOf(kind)
    /\ r.op \in {"edit", "patch", "log"} => r.todo = <<>>
    /\ r.op = "patch" =>
           /\ r.id \in RowIds /\ r.old \in RowsOf(kind) /\ r.new \in RowsOf(kind)
           /\ kind \notin {"scope_statement", "management_review"}
           /\ AgreesIn(r.new)
    /\ r.op = "submit" => r.todo \in {<<"gate">>, <<>>}
    /\ r.op = "approve" => HeadComplete(r.loaded) /\ r.todo \in ApprovalsLeft

Undisturbed(r) ==
    /\ r.op = "patch" => r.old = rows[r.id]
    /\ r.op = "submit" => doc.draft # "in_review"
    /\ r.op = "approve" =>
           /\ r.loaded = doc.head /\ doc.draft = "in_review"
           /\ kind = "internal_audit_report" /\ r.todo # <<"gate", "snapshot", "count">> =>
                  NothingPending(rows)
           /\ r.todo \in {<<"count">>, <<>>} => r.seen = rows
           /\ r.todo \in {<<"snapshot">>, <<>>} => r.number = Len(versions) + 1

InFlight ==
    \A w \in Workers : req[w] # Idle =>
        /\ Carried(req[w])
        /\ ~overlapped => Undisturbed(req[w]) /\ \A v \in Workers \ {w} : req[v] = Idle

Logging == {w \in Workers : req[w] # Idle /\ req[w].op = "log"}

\* Each approval is logged, or about to be, or its process has died.
Trailed == IsFiniteSet(Logging) /\ logged + Cardinality(Logging) <= Len(versions)

\* Serially numbers, pointer and submissions tell one story.
Serially ==
    ~overlapped =>
        /\ \A v \in DOMAIN versions : versions[v].number = v
        /\ doc # NoRow => doc.current = Len(versions)
        /\ OneReviewPerVersion
        /\ ReportsComplete
        /\ Agrees(rows)
        /\ \A v \in DOMAIN versions : Agrees(versions[v].content.rows)

\* Nothing hangs on an artifact that is not there yet.
Empty == doc = NoRow => versions = <<>> /\ submitted = 0 /\ rows = NoRows

\* The inductive invariant.
IInv ==
    /\ TypeOK
    /\ Empty
    /\ MinutesComplete
    /\ Trailed
    /\ Serially
    /\ InFlight

----------------------------------------------------------------------------
(* Data.                                                                   *)

\* What rows and columns each kind of document has.
LEMMA KindFacts ==
    /\ kind = "context_analysis" => RowsOf(kind) = Issues /\ HeadsOf(kind) = Texts
    /\ kind = "stakeholder_map" => RowsOf(kind) = Stakeholders /\ HeadsOf(kind) = {NoRow}
    /\ kind = "scope_statement" => RowsOf(kind) = ScopeItems /\ HeadsOf(kind) = Texts
    /\ kind = "internal_audit_report" => RowsOf(kind) = Results /\ HeadsOf(kind) = Audits
    /\ kind = "management_review" => RowsOf(kind) = {} /\ HeadsOf(kind) = Minutes
    BY DEF RowsOf, HeadsOf

Todo == Seq(Stages)

\* The lists of what is still to be done, and their tails.
LEMMA TodoFacts ==
    /\ <<>> \in Todo /\ <<"gate">> \in Todo /\ <<"count">> \in Todo
    /\ <<"snapshot">> \in Todo /\ <<"snapshot", "count">> \in Todo
    /\ <<"count", "snapshot">> \in Todo /\ <<"gate", "snapshot", "count">> \in Todo
    /\ Tail(<<"gate">>) = <<>> /\ Tail(<<"count">>) = <<>> /\ Tail(<<"snapshot">>) = <<>>
    /\ Tail(<<"snapshot", "count">>) = <<"count">>
    /\ Tail(<<"count", "snapshot">>) = <<"snapshot">>
    /\ Tail(<<"gate", "snapshot", "count">>) = <<"snapshot", "count">>
    BY DEF Todo, Stages

\* These lists are apart, and each begins with its stage.
LEMMA TodoApart ==
    /\ <<"gate">> # <<>> /\ <<"count">> # <<>> /\ <<"snapshot">> # <<>>
    /\ <<"snapshot", "count">> # <<>> /\ <<"count", "snapshot">> # <<>>
    /\ <<"gate", "snapshot", "count">> # <<>>
    /\ <<"count">> # <<"snapshot">>
    /\ <<"snapshot", "count">> \notin {<<"count">>, <<"snapshot">>, <<"gate", "snapshot", "count">>}
    /\ <<"count", "snapshot">> \notin {<<"count">>, <<"snapshot">>}
    /\ <<"gate", "snapshot", "count">> \notin {<<"count">>, <<"snapshot">>}
    /\ Head(<<"gate">>) = "gate" /\ Head(<<"count">>) = "count"
    /\ Head(<<"snapshot">>) = "snapshot" /\ Head(<<"snapshot", "count">>) = "snapshot"
    /\ Head(<<"count", "snapshot">>) = "count"
    /\ Head(<<"gate", "snapshot", "count">>) = "gate"
    OBVIOUS

\* A sequence with an element appended keeps what it had.
LEMMA AppendFacts ==
    ASSUME NEW S, NEW s \in Seq(S), NEW e \in S
    PROVE  /\ Append(s, e) \in Seq(S)
           /\ Len(Append(s, e)) = Len(s) + 1
           /\ DOMAIN Append(s, e) = DOMAIN s \cup {Len(s) + 1}
           /\ \A n \in DOMAIN s : Append(s, e)[n] = s[n]
           /\ Append(s, e)[Len(s) + 1] = e
    OBVIOUS

\* A partial update of a record is one, and completes what it leaves out.
LEMMA ColumnsFacts ==
    /\ \A a, b, c \in Issues : Columns(a, b, c) \in Issues /\ Columns(b, b, c) = c
    /\ \A a, b, c \in Stakeholders : Columns(a, b, c) \in Stakeholders /\ Columns(b, b, c) = c
    /\ \A a, b, c \in Minutes : Columns(a, b, c) \in Minutes
<1>1. ASSUME NEW a \in Issues, NEW b \in Issues, NEW c \in Issues
      PROVE  Columns(a, b, c) \in Issues /\ Columns(b, b, c) = c
    BY DEF Columns, Column, Issues
<1>2. ASSUME NEW a \in Stakeholders, NEW b \in Stakeholders, NEW c \in Stakeholders
      PROVE  Columns(a, b, c) \in Stakeholders /\ Columns(b, b, c) = c
    BY DEF Columns, Column, Stakeholders
<1>3. ASSUME NEW a \in Minutes, NEW b \in Minutes, NEW c \in Minutes
      PROVE  Columns(a, b, c) \in Minutes
    BY DEF Columns, Column, Minutes
<1>4. QED
    BY <1>1, <1>2, <1>3

----------------------------------------------------------------------------
(* The first state.                                                        *)

\* The invariant holds at first.
LEMMA InitInv == Init => IInv
<1> SUFFICES ASSUME Init PROVE IInv
    OBVIOUS
<1>1. TypeOK
  <2>1. rows \in [RowIds -> RowsOf(kind) \cup {NoRow}] /\ versions \in Seq(Versions(kind))
      BY DEF Init, NoRows
  <2>2. req \in [Workers -> Requests(kind) \cup {Idle}]
      BY DEF Init
  <2>3. QED
      BY <2>1, <2>2 DEF Init, TypeOK
<1>2. Trailed
  <2>1. Logging = {}
      BY DEF Init, Logging
  <2>2. QED
      BY <2>1, FS_EmptySet DEF Init, Trailed
<1>3. Serially
  <2>1. Agrees(rows)
      BY DEF Init, NoRows, Agrees
  <2>2. QED
      BY <2>1 DEF Init, Serially, OneReviewPerVersion, ReportsComplete
<1>4. MinutesComplete /\ InFlight /\ Empty
    BY DEF Init, MinutesComplete, InFlight, Empty
<1>5. QED
    BY <1>1, <1>2, <1>3, <1>4 DEF Init, IInv

----------------------------------------------------------------------------
(* Steps that only touch the request they belong to.                       *)

\* A request that ends, or is replaced by one that has nothing to log.
LEMMA LoggingLeft ==
    ASSUME TypeOK, Trailed, NEW w \in Workers, NEW r, r = Idle \/ r.op # "log",
           req' = [req EXCEPT ![w] = r], UNCHANGED <<versions, logged>>
    PROVE  Trailed'
<1>1. Logging' = Logging \ {w}
    BY DEF TypeOK, Logging
<1>2. IsFiniteSet(Logging) /\ logged \in Nat /\ Len(versions) \in Nat
    BY DEF TypeOK, Trailed
<1>3. IsFiniteSet(Logging \ {w}) /\ Cardinality(Logging \ {w}) <= Cardinality(Logging)
      /\ Cardinality(Logging) \in Nat /\ Cardinality(Logging \ {w}) \in Nat
  <2>1. Cardinality(Logging) \in Nat
      BY <1>2, FS_CardinalityType
  <2>2. /\ IsFiniteSet(Logging \ {w})
        /\ Cardinality(Logging \ {w}) =
               IF w \in Logging THEN Cardinality(Logging) - 1 ELSE Cardinality(Logging)
      BY <1>2, FS_RemoveElement
  <2>3. Cardinality(Logging \ {w}) \in Nat
      BY <2>2, FS_CardinalityType
  <2>4. QED
      BY <2>1, <2>2, <2>3
<1>4. IsFiniteSet(Logging') /\ logged + Cardinality(Logging') <= Len(versions)
    BY <1>1, <1>2, <1>3 DEF Trailed
<1>5. QED
    BY <1>4 DEF Trailed

\* A step that changes only the thread's own request preserves the invariant.
LEMMA OwnStep ==
    ASSUME IInv, NEW w \in Workers, NEW r \in Requests(kind) \cup {Idle},
           UNCHANGED <<kind, doc, rows, trail, personalData>>,
           req' = [req EXCEPT ![w] = r],
           Overlap(w) \/ (r = Idle /\ UNCHANGED overlapped),
           r # Idle => Carried(r) /\ r.op # "log",
           r # Idle /\ ~overlapped' => Undisturbed(r)
    PROVE  IInv'
<1>1. UNCHANGED <<kind, doc, rows, versions, logged, submitted, personalData>>
    BY DEF trail
<1>2. overlapped' \in BOOLEAN /\ (~overlapped' => ~overlapped)
    BY DEF Overlap, IInv, TypeOK
<1>3. TypeOK'
    BY <1>1, <1>2 DEF IInv, TypeOK
<1>4. Trailed'
    BY <1>1, LoggingLeft DEF IInv
<1>5. Serially'
  <2>1. ASSUME NEW held, Agrees(held) PROVE Agrees(held)'
      BY <1>1, <2>1 DEF Agrees, AgreesIn
  <2>2. QED
      BY <1>1, <1>2, <2>1 DEF IInv, Serially, OneReviewPerVersion, ReportsComplete, Serial
<1>6. MinutesComplete' /\ Empty'
    BY <1>1 DEF IInv, MinutesComplete, Empty, NoRows
<1>7. InFlight'
  <2> SUFFICES ASSUME NEW v \in Workers, req'[v] # Idle
               PROVE  /\ Carried(req[v])'
                      /\ ~overlapped' =>
                             Undisturbed(req[v])' /\ \A u \in Workers \ {v} : req'[u] = Idle
      BY DEF InFlight
  <2> PICK q : q = req'[v]
      OBVIOUS
  <2>1. Carried(q)
    <3>1. CASE v = w
        BY <3>1 DEF IInv, TypeOK
    <3>2. CASE v # w
        BY <3>2 DEF IInv, TypeOK, InFlight
    <3>3. QED
        BY <3>1, <3>2
  <2>2. Carried(q)'
      BY <1>1, <2>1 DEF Carried, AgreesIn, ApprovalsLeft, HeadComplete
  <2>3. ASSUME ~overlapped'
        PROVE  Undisturbed(q) /\ \A u \in Workers \ {v} : req'[u] = Idle
    <3>1. CASE v = w
        BY <3>1, <2>3, <1>2 DEF IInv, TypeOK, Overlap
    <3>2. CASE v # w
        BY <3>2, <2>3, <1>2 DEF IInv, TypeOK, InFlight, Overlap
    <3>3. QED
        BY <3>1, <3>2
  <2>4. Undisturbed(q) => Undisturbed(q)'
      BY <1>1 DEF Undisturbed, NothingPending
  <2>5. QED
      BY <2>2, <2>3, <2>4
<1>8. QED
    BY <1>3, <1>4, <1>5, <1>6, <1>7 DEF IInv

\* A request that ends with an error preserves the invariant.
LEMMA FailStep ==
    ASSUME IInv, NEW w \in Workers, Fail(w)
    PROVE  IInv'
    BY OwnStep DEF Fail, Answer

\* A request that begins with what it has read preserves the invariant.
LEMMA BeginStep ==
    ASSUME IInv, NEW w \in Workers, NEW r \in Requests(kind), Begin(w, r),
           Carried(r), r.op # "log", ~overlapped' => Undisturbed(r)
    PROVE  IInv'
    BY OwnStep DEF Begin

\* A stage that is passed preserves the invariant.
LEMMA AdvanceStep ==
    ASSUME IInv, NEW w \in Workers, NEW r, Advance(w, r),
           NEW q \in Requests(kind), q = [r EXCEPT !.todo = Tail(@)],
           Carried(q), q.op # "log", ~overlapped' => Undisturbed(q)
    PROVE  IInv'
    BY OwnStep DEF Advance

\* What a request in flight relies on.
LEMMA AtStage ==
    ASSUME IInv, NEW w \in Workers, req[w] # Idle
    PROVE  /\ req[w] \in Requests(kind) /\ Carried(req[w])
           /\ ~overlapped => Undisturbed(req[w])
           /\ doc \in Artifacts(kind) /\ doc.head \in HeadsOf(kind)
    BY DEF IInv, TypeOK, InFlight, Carried, Artifacts

\* A request begins with what it has just read.
LEMMA RequestFields ==
    ASSUME IInv, doc # NoRow, NEW op \in {"edit", "patch", "submit", "approve", "log"}
    PROVE  /\ Request(op) \in Requests(kind)
           /\ Request(op).op = op /\ Request(op).todo = TodoOf(op)
           /\ Request(op).loaded = doc.head /\ doc.head \in HeadsOf(kind)
           /\ Request(op).seen = NoRows
<1>1. doc.head \in HeadsOf(kind)
    BY DEF IInv, TypeOK, Artifacts
<1>2. TodoOf(op) \in Seq(Stages)
    BY TodoFacts DEF TodoOf, Todo
<1>3. NoRows \in [RowIds -> RowsOf(kind) \cup {NoRow}]
    BY DEF NoRows
<1>4. QED
    BY <1>1, <1>2, <1>3 DEF Request, Requests

\* BeginEdit preserves the invariant.
LEMMA BeginEditStep ==
    ASSUME IInv, NEW w \in Workers, NEW head \in HeadsOf(kind), BeginEdit(w, head)
    PROVE  IInv'
<1> PICK q : q = Request("edit")
    OBVIOUS
<1> PICK r : r = [q EXCEPT !.head = head]
    OBVIOUS
<1>1. doc # NoRow /\ Begin(w, r)
    BY DEF BeginEdit
<1>2. q \in Requests(kind) /\ q.op = "edit" /\ q.todo = <<>> /\ q.loaded \in HeadsOf(kind)
    BY <1>1, RequestFields DEF TodoOf
<1>3. r \in Requests(kind) /\ r.op = "edit" /\ r.todo = <<>> /\ r.loaded \in HeadsOf(kind)
    BY <1>2 DEF Requests
<1>4. Carried(r) /\ Undisturbed(r)
    BY <1>1, <1>3 DEF Carried, Undisturbed
<1>5. QED
    BY <1>1, <1>3, <1>4, BeginStep

\* BeginPatch preserves the invariant.
LEMMA BeginPatchStep ==
    ASSUME IInv, NEW w \in Workers, NEW id \in RowIds, NEW new \in RowsOf(kind),
           BeginPatch(w, id, new), doc # NoRow, AgreesIn(new),
           kind \notin {"scope_statement", "management_review"}
    PROVE  IInv'
<1> PICK q : q = Request("patch")
    OBVIOUS
<1> PICK old : old = rows[id]
    OBVIOUS
<1> PICK r : r = [q EXCEPT !.id = id, !.old = old, !.new = new]
    OBVIOUS
<1>1. Begin(w, r) /\ old \in RowsOf(kind)
    BY DEF BeginPatch, IInv, TypeOK
<1>2. q \in Requests(kind) /\ q.op = "patch" /\ q.todo = <<>> /\ q.loaded \in HeadsOf(kind)
    BY RequestFields DEF TodoOf
<1>3. r \in Requests(kind) /\ r.op = "patch" /\ r.todo = <<>> /\ r.loaded \in HeadsOf(kind)
      /\ r.id = id /\ r.old = old /\ r.new = new
    BY <1>1, <1>2 DEF Requests
<1>4. Carried(r) /\ Undisturbed(r)
    BY <1>1, <1>3 DEF Carried, Undisturbed
<1>5. QED
    BY <1>1, <1>3, <1>4, BeginStep

\* A row that is there belongs to an artifact that is there.
LEMMA RowsBelong ==
    ASSUME IInv, NEW id \in RowIds, rows[id] # NoRow
    PROVE  doc # NoRow /\ rows[id] \in RowsOf(kind)
    BY DEF IInv, TypeOK, Empty, NoRows

\* UpdateIssue preserves the invariant.
LEMMA UpdateIssueStep ==
    ASSUME IInv, NEW w \in Workers, NEW id \in RowIds, NEW fields, NEW value \in Issues,
           UpdateIssue(w, id, fields, value)
    PROVE  IInv'
<1> PICK old : old = rows[id]
    OBVIOUS
<1> PICK new : new = Patched(old, fields, value)
    OBVIOUS
<1>1. kind = "context_analysis" /\ rows[id] # NoRow /\ AllowedPatch(new, fields)
      /\ BeginPatch(w, id, new)
    BY DEF UpdateIssue
<1>2. doc # NoRow /\ old \in Issues /\ RowsOf(kind) = Issues
    BY <1>1, RowsBelong, KindFacts
<1>3. new \in Issues
    BY <1>2 DEF Patched, Issues
<1>4. AgreesIn(new)
    BY <1>1 DEF AllowedPatch, Allowed, AgreesIn
<1>5. QED
    BY <1>1, <1>2, <1>3, <1>4, BeginPatchStep

\* UpdateStakeholder preserves the invariant.
LEMMA UpdateStakeholderStep ==
    ASSUME IInv, NEW w \in Workers, NEW id \in RowIds, NEW fields,
           NEW value \in Stakeholders, UpdateStakeholder(w, id, fields, value)
    PROVE  IInv'
<1> PICK old : old = rows[id]
    OBVIOUS
<1> PICK patched : patched = Patched(old, fields, value)
    OBVIOUS
<1> PICK strategy : strategy = Strategy(patched.power, patched.interest)
    OBVIOUS
<1> PICK new : new = [patched EXCEPT !.strategy = strategy]
    OBVIOUS
<1>1. kind = "stakeholder_map" /\ rows[id] # NoRow /\ BeginPatch(w, id, new)
    BY DEF UpdateStakeholder, Derived
<1>2. doc # NoRow /\ old \in Stakeholders /\ RowsOf(kind) = Stakeholders
    BY <1>1, RowsBelong, KindFacts
<1>3. patched \in Stakeholders
    BY <1>2 DEF Patched, Stakeholders
<1>4. strategy \in Strategies
    BY DEF Strategy, Strategies
<1>5. new \in Stakeholders /\ new.strategy = strategy
      /\ new.power = patched.power /\ new.interest = patched.interest
    BY <1>3, <1>4 DEF Stakeholders
<1>6. AgreesIn(new)
    BY <1>1, <1>5 DEF AgreesIn
<1>7. QED
    BY <1>1, <1>2, <1>5, <1>6, BeginPatchStep

\* UpdateChecklistItem preserves the invariant.
LEMMA UpdateChecklistItemStep ==
    ASSUME IInv, NEW w \in Workers, NEW id \in RowIds, NEW result \in Results,
           UpdateChecklistItem(w, id, result)
    PROVE  IInv'
<1>1. kind = "internal_audit_report" /\ rows[id] # NoRow /\ BeginPatch(w, id, result)
    BY DEF UpdateChecklistItem, BeginPatch
<1>2. doc # NoRow /\ RowsOf(kind) = Results /\ AgreesIn(result)
    BY <1>1, RowsBelong, KindFacts DEF AgreesIn
<1>3. QED
    BY <1>1, <1>2, BeginPatchStep

\* BeginSubmit preserves the invariant.
LEMMA BeginSubmitStep ==
    ASSUME IInv, NEW w \in Workers, BeginSubmit(w)
    PROVE  IInv'
<1> PICK r : r = Request("submit")
    OBVIOUS
<1>1. doc # NoRow /\ doc.draft # "in_review" /\ Begin(w, r)
    BY DEF BeginSubmit
<1>2. r \in Requests(kind) /\ r.op = "submit" /\ r.todo \in {<<"gate">>, <<>>}
      /\ r.loaded \in HeadsOf(kind)
    BY <1>1, RequestFields DEF TodoOf
<1>3. Carried(r) /\ Undisturbed(r)
    BY <1>1, <1>2 DEF Carried, Undisturbed
<1>4. QED
    BY <1>1, <1>2, <1>3, BeginStep

\* Nothing is below the minutes of a review.
LEMMA MinutesHaveNoRows ==
    ASSUME TypeOK, kind = "management_review"
    PROVE  rows = NoRows
    BY KindFacts DEF TypeOK, NoRows

\* The queries an approval of each kind sets out with.
LEMMA ApprovalTodo ==
    /\ TodoOf("approve") \in ApprovalsLeft
    /\ kind = "internal_audit_report" => TodoOf("approve") = <<"gate", "snapshot", "count">>
    /\ kind = "management_review" => TodoOf("approve") = <<"count">>
    /\ kind \notin {"internal_audit_report", "management_review"} =>
           TodoOf("approve") = <<"count", "snapshot">>
<1>1. CASE kind = "internal_audit_report"
    BY <1>1 DEF TodoOf, ApprovalsLeft
<1>2. CASE kind = "management_review"
    BY <1>2 DEF TodoOf, ApprovalsLeft
<1>3. CASE kind \notin {"internal_audit_report", "management_review"}
    BY <1>3 DEF TodoOf, ApprovalsLeft
<1>4. QED
    BY <1>1, <1>2, <1>3

\* BeginApprove preserves the invariant.
LEMMA BeginApproveStep ==
    ASSUME IInv, NEW w \in Workers, BeginApprove(w)
    PROVE  IInv'
<1> PICK r : r = Request("approve")
    OBVIOUS
<1>1. doc # NoRow /\ doc.draft = "in_review" /\ HeadComplete(doc.head) /\ Begin(w, r)
    BY DEF BeginApprove, InReview
<1>2. r \in Requests(kind) /\ r.op = "approve" /\ r.todo = TodoOf("approve")
      /\ r.loaded = doc.head /\ doc.head \in HeadsOf(kind) /\ r.seen = NoRows
    BY <1>1, RequestFields
<1>4. /\ kind = "internal_audit_report" => r.todo = <<"gate", "snapshot", "count">>
      /\ kind = "management_review" => r.todo = <<"count">>
      /\ kind \notin {"internal_audit_report", "management_review"} =>
             r.todo = <<"count", "snapshot">>
    BY <1>2, ApprovalTodo
<1>3. r.todo \in ApprovalsLeft
    BY <1>2, ApprovalTodo
<1>5. r.todo \in {<<"count">>, <<>>} => r.seen = rows
    BY <1>2, <1>4, TodoApart, MinutesHaveNoRows DEF IInv
<1>6. r.todo \notin {<<"snapshot">>, <<>>}
    BY <1>4, TodoApart
<1>7. Carried(r) /\ Undisturbed(r)
    BY <1>1, <1>2, <1>3, <1>4, <1>5, <1>6 DEF Carried, Undisturbed
<1>8. QED
    BY <1>1, <1>2, <1>7, BeginStep

----------------------------------------------------------------------------
(* Steps between the first read and the commit.                            *)

\* Which requests have which stage before them.
LEMMA StagesOf ==
    ASSUME IInv, NEW w \in Workers, NEW stage, NextTodo(w, stage), NEW r, r = req[w]
    PROVE  /\ r \in Requests(kind) /\ Carried(r) /\ (~overlapped => Undisturbed(r))
           /\ r.op \in {"submit", "approve"} /\ Tail(r.todo) \in Todo
           /\ r.op = "submit" => r.todo = <<"gate">> /\ stage = "gate"
           /\ r.op = "approve" => /\ r.todo \in ApprovalsLeft /\ Tail(r.todo) \in ApprovalsLeft
                                  /\ r.todo # <<>>
<1>1. r \in Requests(kind) /\ Carried(r) /\ (~overlapped => Undisturbed(r))
    BY AtStage DEF NextTodo
<1>2. r.todo # <<>> /\ Head(r.todo) = stage
    BY DEF NextTodo
<1>3. r.op \in {"edit", "patch", "submit", "approve", "log"}
    BY <1>1 DEF Requests
<1>4. r.op \in {"submit", "approve"}
    BY <1>1, <1>2, <1>3 DEF Carried
<1>5. r.op = "submit" => r.todo = <<"gate">> /\ stage = "gate"
    BY <1>1, <1>2, TodoApart DEF Carried
<1>6. r.op = "approve" => r.todo \in ApprovalsLeft
    BY <1>1 DEF Carried
<1>7. r.op = "approve" => Tail(r.todo) \in ApprovalsLeft /\ Tail(r.todo) \in Todo
    BY <1>2, <1>6, TodoFacts DEF ApprovalsLeft
<1>8. r.op = "submit" => Tail(r.todo) \in Todo
    BY <1>5, TodoFacts
<1>9. QED
    BY <1>1, <1>2, <1>4, <1>5, <1>6, <1>7, <1>8

\* PassGate preserves the invariant.
LEMMA PassGateStep ==
    ASSUME IInv, NEW w \in Workers, PassGate(w)
    PROVE  IInv'
<1> PICK r : r = req[w]
    OBVIOUS
<1> PICK q : q = [r EXCEPT !.todo = Tail(@)]
    OBVIOUS
<1>1. NextTodo(w, "gate")
    BY DEF PassGate
<1>2. /\ r \in Requests(kind) /\ Carried(r) /\ (~overlapped => Undisturbed(r))
      /\ r.op \in {"submit", "approve"} /\ Tail(r.todo) \in Todo
      /\ r.op = "submit" => r.todo = <<"gate">>
      /\ r.op = "approve" => r.todo \in ApprovalsLeft /\ Tail(r.todo) \in ApprovalsLeft
    BY <1>1, StagesOf
<1>3. r.op = "approve" =>
          r.todo = <<"gate", "snapshot", "count">> /\ kind = "internal_audit_report"
    BY <1>1, <1>2, TodoApart DEF NextTodo, ApprovalsLeft
<1>4. q \in Requests(kind) /\ q.op = r.op /\ q.loaded = r.loaded /\ q.todo = Tail(r.todo)
    BY <1>2 DEF Requests, Todo
<1>5. CASE ~NothingPending(rows)
    BY <1>5, FailStep DEF PassGate
<1>6. CASE NothingPending(rows)
  <2>1. Advance(w, r)
      BY <1>6 DEF PassGate
  <2>2. Carried(q)
      BY <1>2, <1>4, TodoFacts DEF Carried
  <2>3. ~overlapped' => ~overlapped
      BY <2>1 DEF Advance, Overlap
  <2>4. r.op = "approve" => q.todo = <<"snapshot", "count">>
      BY <1>3, <1>4, TodoFacts
  <2>5. ~overlapped' => Undisturbed(q)
      BY <1>2, <1>4, <1>6, <2>3, <2>4, TodoApart DEF Undisturbed
  <2>6. QED
      BY <1>2, <1>4, <2>1, <2>2, <2>5, AdvanceStep
<1>7. QED
    BY <1>5, <1>6

\* CountVersions preserves the invariant.
LEMMA CountVersionsStep ==
    ASSUME IInv, NEW w \in Workers, CountVersions(w)
    PROVE  IInv'
<1> PICK r : r = req[w]
    OBVIOUS
<1> PICK n : n = Len(versions) + 1
    OBVIOUS
<1> PICK q : q = [[r EXCEPT !.number = n] EXCEPT !.todo = Tail(@)]
    OBVIOUS
<1>1. NextTodo(w, "count") /\ Advance(w, [r EXCEPT !.number = n])
    BY DEF CountVersions, NextNumber
<1>2. /\ r \in Requests(kind) /\ Carried(r) /\ (~overlapped => Undisturbed(r))
      /\ r.op = "approve" /\ Tail(r.todo) \in Todo
      /\ r.todo \in ApprovalsLeft /\ Tail(r.todo) \in ApprovalsLeft
    BY <1>1, StagesOf
<1>3. \/ r.todo = <<"count">> /\ Tail(r.todo) = <<>>
      \/ r.todo = <<"count", "snapshot">> /\ Tail(r.todo) = <<"snapshot">>
         /\ kind # "internal_audit_report"
    BY <1>1, <1>2, TodoApart, TodoFacts DEF NextTodo, ApprovalsLeft
<1>4. n \in Nat
    BY DEF IInv, TypeOK
<1>5. q \in Requests(kind) /\ q.op = r.op /\ q.loaded = r.loaded /\ q.todo = Tail(r.todo)
      /\ q.seen = r.seen /\ q.number = n
    BY <1>2, <1>4 DEF Requests, Todo
<1>6. Carried(q)
    BY <1>2, <1>5 DEF Carried
<1>7. ~overlapped' => ~overlapped
    BY <1>1 DEF Advance, Overlap
<1>8. ASSUME ~overlapped' PROVE Undisturbed(q)
  <2>1. r.loaded = doc.head /\ doc.draft = "in_review"
        /\ (kind = "internal_audit_report" /\ r.todo # <<"gate", "snapshot", "count">> =>
                NothingPending(rows))
        /\ (r.todo \in {<<"count">>, <<>>} => r.seen = rows)
      BY <1>2, <1>7, <1>8 DEF Undisturbed
  <2>2. CASE r.todo = <<"count">>
    <3>1. r.todo # <<"gate", "snapshot", "count">>
        BY <2>2, TodoApart
    <3>2. QED
        BY <1>2, <1>5, <2>1, <2>2, <3>1 DEF Undisturbed
  <2>3. CASE r.todo # <<"count">>
    <3>1. q.todo = <<"snapshot">> /\ kind # "internal_audit_report"
        BY <1>3, <1>5, <2>3
    <3>2. q.todo \notin {<<"count">>, <<>>}
        BY <3>1, TodoApart
    <3>3. QED
        BY <1>2, <1>5, <2>1, <3>1, <3>2 DEF Undisturbed
  <2>4. QED
      BY <2>2, <2>3
<1>9. QED
    BY <1>1, <1>2, <1>5, <1>6, <1>8, AdvanceStep

\* TakeSnapshot preserves the invariant.
LEMMA TakeSnapshotStep ==
    ASSUME IInv, NEW w \in Workers, TakeSnapshot(w)
    PROVE  IInv'
<1> PICK r : r = req[w]
    OBVIOUS
<1> PICK held : held = rows
    OBVIOUS
<1> PICK q : q = [[r EXCEPT !.seen = held] EXCEPT !.todo = Tail(@)]
    OBVIOUS
<1>1. NextTodo(w, "snapshot") /\ Advance(w, [r EXCEPT !.seen = held])
    BY DEF TakeSnapshot
<1>2. /\ r \in Requests(kind) /\ Carried(r) /\ (~overlapped => Undisturbed(r))
      /\ r.op = "approve" /\ Tail(r.todo) \in Todo
      /\ r.todo \in ApprovalsLeft /\ Tail(r.todo) \in ApprovalsLeft
    BY <1>1, StagesOf
<1>3. \/ r.todo = <<"snapshot">> /\ Tail(r.todo) = <<>> /\ kind # "internal_audit_report"
      \/ r.todo = <<"snapshot", "count">> /\ Tail(r.todo) = <<"count">>
    BY <1>1, <1>2, TodoApart, TodoFacts DEF NextTodo, ApprovalsLeft
<1>4. held \in [RowIds -> RowsOf(kind) \cup {NoRow}]
    BY DEF IInv, TypeOK
<1>5. q \in Requests(kind) /\ q.op = r.op /\ q.loaded = r.loaded /\ q.todo = Tail(r.todo)
      /\ q.seen = rows /\ q.number = r.number
    BY <1>2, <1>4 DEF Requests, Todo
<1>6. Carried(q)
    BY <1>2, <1>5 DEF Carried
<1>7. ~overlapped' => ~overlapped
    BY <1>1 DEF Advance, Overlap
<1>8. ASSUME ~overlapped' PROVE Undisturbed(q)
  <2>1. r.loaded = doc.head /\ doc.draft = "in_review"
        /\ (kind = "internal_audit_report" /\ r.todo # <<"gate", "snapshot", "count">> =>
                NothingPending(rows))
        /\ (r.todo \in {<<"snapshot">>, <<>>} => r.number = Len(versions) + 1)
      BY <1>2, <1>7, <1>8 DEF Undisturbed
  <2>2. CASE r.todo = <<"snapshot">>
    <3>1. kind # "internal_audit_report"
        BY <1>3, <2>2, TodoApart
    <3>2. QED
        BY <1>2, <1>5, <2>1, <2>2, <3>1 DEF Undisturbed
  <2>3. CASE r.todo # <<"snapshot">>
    <3>1. q.todo = <<"count">> /\ r.todo = <<"snapshot", "count">>
        BY <1>3, <1>5, <2>3
    <3>2. q.todo \notin {<<"snapshot">>, <<>>} /\ r.todo # <<"gate", "snapshot", "count">>
        BY <3>1, TodoApart
    <3>3. QED
        BY <1>2, <1>5, <2>1, <3>1, <3>2 DEF Undisturbed
  <2>4. QED
      BY <2>2, <2>3
<1>9. QED
    BY <1>1, <1>2, <1>5, <1>6, <1>8, AdvanceStep

----------------------------------------------------------------------------
(* Commits.                                                                *)

\* What a request relies on survives the commit of another; if there is
\* another, the requests have overlapped.
LEMMA CommitStep ==
    ASSUME IInv, NEW w \in Workers, Overlap(w), kind' = kind,
           doc # NoRow => doc' # NoRow,
           NEW r \in Requests(kind) \cup {Idle}, req' = [req EXCEPT ![w] = r],
           r # Idle => Carried(r)',
           r # Idle /\ ~overlapped' => Undisturbed(r)'
    PROVE  /\ InFlight' /\ req' \in [Workers -> Requests(kind) \cup {Idle}]
           /\ overlapped' \in BOOLEAN /\ (~overlapped' => ~overlapped)
<1>1. overlapped' \in BOOLEAN /\ (~overlapped' => ~overlapped)
    BY DEF Overlap, IInv, TypeOK
<1>2. req' \in [Workers -> Requests(kind) \cup {Idle}]
    BY DEF IInv, TypeOK
<1>3. ASSUME NEW v \in Workers, v # w, req'[v] # Idle
      PROVE  Carried(req[v])' /\ overlapped'
  <2> PICK q : q = req[v]
      OBVIOUS
  <2>1. q = req'[v] /\ q # Idle
      BY <1>3 DEF IInv, TypeOK
  <2>2. Carried(q)
      BY <2>1 DEF IInv, InFlight
  <2>3. Carried(q)'
      BY <2>2 DEF Carried, AgreesIn, ApprovalsLeft, HeadComplete
  <2>4. overlapped'
      BY <1>3, <2>1 DEF Overlap
  <2>5. QED
      BY <2>1, <2>3, <2>4
<1>4. req'[w] # Idle =>
          Carried(req[w])' /\ (~overlapped' => Undisturbed(req[w])')
  <2>1. req'[w] = r
      BY DEF IInv, TypeOK
  <2>2. QED
      BY <2>1
<1>5. ~overlapped' => \A v \in Workers : v # w => req'[v] = Idle
    BY <1>3
<1>6. InFlight'
    BY <1>3, <1>4, <1>5 DEF InFlight
<1>7. QED
    BY <1>1, <1>2, <1>6

\* A commit that leaves versions, draft status and pointer alone.
LEMMA RowStep ==
    ASSUME IInv, NEW w \in Workers, Overlap(w), req' = [req EXCEPT ![w] = Idle],
           UNCHANGED <<kind, trail>>, personalData' \in BOOLEAN,
           doc' \in Artifacts(kind) \cup {NoRow},
           doc # NoRow => doc' # NoRow /\ doc'.draft = doc.draft /\ doc'.current = doc.current,
           doc = NoRow /\ doc' # NoRow => doc'.draft = "draft" /\ doc'.current = 0,
           doc' = NoRow => rows' = rows,
           rows' \in [RowIds -> RowsOf(kind) \cup {NoRow}],
           ~overlapped' => Agrees(rows')
    PROVE  IInv'
<1>1. UNCHANGED <<kind, versions, logged, submitted>>
    BY DEF trail
<1>2. /\ InFlight' /\ req' \in [Workers -> Requests(kind) \cup {Idle}]
      /\ overlapped' \in BOOLEAN /\ (~overlapped' => ~overlapped)
    BY <1>1, CommitStep
<1>3. TypeOK'
    BY <1>1, <1>2 DEF IInv, TypeOK
<1>4. Trailed'
    BY <1>1, LoggingLeft DEF IInv
<1>5. MinutesComplete' /\ Empty'
    BY <1>1 DEF IInv, MinutesComplete, Empty, NoRows
<1>6. Serially'
  <2>1. ASSUME NEW held, Agrees(held) PROVE Agrees(held)'
      BY <1>1, <2>1 DEF Agrees, AgreesIn
  <2>2. ~overlapped' => Agrees(rows)'
      BY <1>1 DEF Agrees, AgreesIn
  <2>3. ~overlapped' => \A v \in DOMAIN versions' : Agrees(versions[v].content.rows)'
      BY <1>1, <1>2, <2>1 DEF IInv, Serially
  <2>4. ~overlapped' =>
            /\ \A v \in DOMAIN versions' : versions'[v].number = v
            /\ doc' # NoRow => doc'.current = Len(versions')
      BY <1>1, <1>2 DEF IInv, Serially, Empty
  <2>5. OneReviewPerVersion'
      BY <1>1, <1>2 DEF IInv, Serially, Empty, OneReviewPerVersion, Serial
  <2>6. ReportsComplete'
      BY <1>1, <1>2 DEF IInv, Serially, ReportsComplete, Serial
  <2>7. QED
      BY <2>2, <2>3, <2>4, <2>5, <2>6 DEF Serially
<1>7. QED
    BY <1>2, <1>3, <1>4, <1>5, <1>6 DEF IInv

\* A request whose only transaction ends where it begins, and changes rows.
LEMMA AtOnceStep ==
    ASSUME IInv, NEW w \in Workers, AtOnce(w), personalData' \in BOOLEAN,
           doc' \in Artifacts(kind) \cup {NoRow},
           doc # NoRow => doc' = doc,
           doc = NoRow /\ doc' # NoRow => doc'.draft = "draft" /\ doc'.current = 0,
           doc' = NoRow => rows' = rows,
           rows' \in [RowIds -> RowsOf(kind) \cup {NoRow}],
           ~overlapped => Agrees(rows')
    PROVE  IInv'
<1>1. req' = [req EXCEPT ![w] = Idle] /\ Overlap(w) /\ UNCHANGED <<kind, trail>>
    BY DEF AtOnce, IInv, TypeOK
<1>2. ~overlapped' => ~overlapped
    BY <1>1 DEF Overlap, IInv, TypeOK
<1>3. QED
    BY <1>1, <1>2, RowStep

\* One row is written that agrees with itself.
LEMMA OneRow ==
    ASSUME IInv, NEW id \in RowIds, NEW row \in RowsOf(kind) \cup {NoRow},
           rows' = [rows EXCEPT ![id] = row], row # NoRow => AgreesIn(row)
    PROVE  /\ rows' \in [RowIds -> RowsOf(kind) \cup {NoRow}]
           /\ ~overlapped => Agrees(rows')
    BY DEF IInv, TypeOK, Serially, Agrees

\* Create preserves the invariant.
LEMMA CreateStep ==
    ASSUME IInv, NEW w \in Workers, NEW head \in HeadsOf(kind), Create(w, head)
    PROVE  IInv'
<1> PICK new : new = [draft |-> "draft", current |-> 0, head |-> head]
    OBVIOUS
<1>1. new \in Artifacts(kind) /\ new.draft = "draft" /\ new.current = 0
    BY DEF Artifacts
<1>2. kind \in Kinds
    BY DEF IInv, TypeOK
<1>3. new # NoRow
    BY <1>1, <1>2, NoRowAssumption
<1>4. doc = NoRow /\ doc' = new /\ AtOnce(w) /\ UNCHANGED <<rows, personalData>>
    BY DEF Create
<1>5. personalData' \in BOOLEAN /\ rows' \in [RowIds -> RowsOf(kind) \cup {NoRow}]
      /\ (~overlapped => Agrees(rows'))
    BY <1>4 DEF IInv, TypeOK, Serially
<1>6. QED
    BY <1>1, <1>3, <1>4, <1>5, AtOnceStep

\* InsertRow preserves the invariant.
LEMMA InsertRowStep ==
    ASSUME IInv, NEW w \in Workers, NEW id \in RowIds, NEW row \in RowsOf(kind),
           InsertRow(w, id, row), AgreesIn(row)
    PROVE  IInv'
<1>1. AtOnce(w) /\ doc # NoRow /\ doc' = doc /\ personalData' = personalData
      /\ rows' = [rows EXCEPT ![id] = row]
    BY DEF InsertRow
<1>2. rows' \in [RowIds -> RowsOf(kind) \cup {NoRow}] /\ (~overlapped => Agrees(rows'))
    BY <1>1, OneRow
<1>3. personalData' \in BOOLEAN /\ doc' \in Artifacts(kind) \cup {NoRow}
    BY <1>1 DEF IInv, TypeOK
<1>4. QED
    BY <1>1, <1>2, <1>3, AtOnceStep

\* Each insertion of a row preserves the invariant.
LEMMA CreateRowSteps ==
    ASSUME IInv, NEW w \in Workers, NEW id \in RowIds, NEW row \in RowsOf(kind),
           \/ CreateIssue(w, id, row) \/ CreateStakeholder(w, id, row)
           \/ CreateItem(w, id, row) \/ AddChecklistItem(w, id, row)
    PROVE  IInv'
<1>1. InsertRow(w, id, row)
    BY DEF CreateIssue, CreateStakeholder, CreateItem, AddChecklistItem
<1>2. AgreesIn(row)
  <2>1. CASE CreateIssue(w, id, row)
      BY <2>1 DEF CreateIssue, Allowed, AgreesIn
  <2>2. CASE CreateStakeholder(w, id, row)
      BY <2>2 DEF CreateStakeholder, NewStakeholders, AgreesIn
  <2>3. CASE CreateItem(w, id, row) \/ AddChecklistItem(w, id, row)
      BY <2>3 DEF CreateItem, AddChecklistItem, AgreesIn
  <2>4. QED
      BY <2>1, <2>2, <2>3
<1>3. QED
    BY <1>1, <1>2, InsertRowStep

\* AcceptSuggestion preserves the invariant.
LEMMA AcceptSuggestionStep ==
    ASSUME IInv, NEW w \in Workers, NEW id \in RowIds, NEW row \in RowsOf(kind),
           AcceptSuggestion(w, id, row)
    PROVE  IInv'
<1> PICK new : new = [draft |-> "draft", current |-> 0, head |-> NoRow]
    OBVIOUS
<1>1. kind = "stakeholder_map" /\ AtOnce(w) /\ row \in Suggestions
      /\ rows' = [rows EXCEPT ![id] = row] /\ personalData' = personalData
      /\ doc' = (IF doc = NoRow THEN new ELSE doc)
    BY DEF AcceptSuggestion
<1>2. AgreesIn(row)
    BY <1>1 DEF Suggestions, NewStakeholders, AgreesIn
<1>3. new \in Artifacts(kind) /\ new.draft = "draft" /\ new.current = 0
  <2>1. NoRow \in HeadsOf(kind)
      BY <1>1, KindFacts
  <2>2. QED
      BY <2>1 DEF Artifacts
<1>4. kind \in Kinds /\ doc \in Artifacts(kind) \cup {NoRow} /\ personalData \in BOOLEAN
    BY DEF IInv, TypeOK
<1>5. new # NoRow
    BY <1>3, <1>4, NoRowAssumption
<1>6. rows' \in [RowIds -> RowsOf(kind) \cup {NoRow}] /\ (~overlapped => Agrees(rows'))
    BY <1>1, <1>2, OneRow
<1>7. doc' \in Artifacts(kind) \cup {NoRow} /\ (doc # NoRow => doc' = doc) /\ doc' # NoRow
      /\ (doc = NoRow => doc'.draft = "draft" /\ doc'.current = 0)
    BY <1>1, <1>3, <1>4, <1>5
<1>8. QED
    BY <1>1, <1>4, <1>6, <1>7, AtOnceStep

\* ImportChecklist preserves the invariant.
LEMMA ImportChecklistStep ==
    ASSUME IInv, NEW w \in Workers, NEW ids \in SUBSET RowIds, ImportChecklist(w, ids)
    PROVE  IInv'
<1>1. kind = "internal_audit_report" /\ doc # NoRow /\ doc' = doc /\ AtOnce(w)
      /\ rows' = [id \in RowIds |-> IF id \in ids THEN "pendente" ELSE rows[id]]
      /\ personalData' = personalData
    BY DEF ImportChecklist
<1>2. "pendente" \in RowsOf(kind)
    BY <1>1, KindFacts DEF Results
<1>3. rows' \in [RowIds -> RowsOf(kind) \cup {NoRow}]
    BY <1>1, <1>2 DEF IInv, TypeOK
<1>4. Agrees(rows')
    BY <1>1 DEF Agrees, AgreesIn
<1>5. personalData' \in BOOLEAN /\ doc' \in Artifacts(kind) \cup {NoRow}
    BY <1>1 DEF IInv, TypeOK
<1>6. QED
    BY <1>1, <1>3, <1>4, <1>5, AtOnceStep

\* SaveDiagnostic preserves the invariant.
LEMMA SaveDiagnosticStep ==
    ASSUME IInv, NEW w \in Workers, NEW says \in BOOLEAN, SaveDiagnostic(w, says)
    PROVE  IInv'
<1>1. AtOnce(w) /\ doc' = doc /\ rows' = rows /\ personalData' \in BOOLEAN
    BY DEF SaveDiagnostic
<1>2. rows' \in [RowIds -> RowsOf(kind) \cup {NoRow}] /\ (~overlapped => Agrees(rows'))
      /\ doc' \in Artifacts(kind) \cup {NoRow}
    BY <1>1 DEF IInv, TypeOK, Serially
<1>3. QED
    BY <1>1, <1>2, AtOnceStep

\* DeleteRow preserves the invariant.
LEMMA DeleteRowStep ==
    ASSUME IInv, NEW w \in Workers, NEW id \in RowIds, DeleteRow(w, id)
    PROVE  IInv'
<1>1. AtOnce(w) /\ doc' = doc /\ rows[id] # NoRow /\ personalData' = personalData
      /\ rows' = [rows EXCEPT ![id] = NoRow]
    BY DEF DeleteRow
<1>2. doc # NoRow
    BY <1>1, RowsBelong
<1>3. rows' \in [RowIds -> RowsOf(kind) \cup {NoRow}] /\ (~overlapped => Agrees(rows'))
    BY <1>1, OneRow
<1>4. personalData' \in BOOLEAN /\ doc' \in Artifacts(kind) \cup {NoRow}
    BY <1>1 DEF IInv, TypeOK
<1>5. QED
    BY <1>1, <1>2, <1>3, <1>4, AtOnceStep

\* CommitEdit preserves the invariant.
LEMMA CommitEditStep ==
    ASSUME IInv, NEW w \in Workers, CommitEdit(w)
    PROVE  IInv'
<1> PICK r : r = req[w]
    OBVIOUS
<1> PICK head : head = IF kind = "management_review" THEN Columns(doc.head, r.loaded, r.head)
                       ELSE Column(doc.head, r.loaded, r.head)
    OBVIOUS
<1>1. r \in Requests(kind) /\ Carried(r) /\ doc \in Artifacts(kind) /\ doc.head \in HeadsOf(kind)
    BY AtStage DEF CommitEdit, Serving
<1>2. r.loaded \in HeadsOf(kind) /\ r.head \in HeadsOf(kind)
    BY <1>1 DEF Carried, Requests
<1>3. head \in HeadsOf(kind)
  <2>1. CASE kind = "management_review"
      BY <1>1, <1>2, <2>1, KindFacts, ColumnsFacts
  <2>2. CASE kind # "management_review"
      BY <1>1, <1>2, <2>2 DEF Column
  <2>3. QED
      BY <2>1, <2>2
<1>4. doc' = [doc EXCEPT !.head = head] /\ req' = [req EXCEPT ![w] = Idle] /\ Overlap(w)
      /\ UNCHANGED <<kind, trail>> /\ UNCHANGED <<rows, personalData>>
    BY DEF CommitEdit, Answer
<1>5. doc' \in Artifacts(kind) /\ doc'.draft = doc.draft /\ doc'.current = doc.current
    BY <1>1, <1>3, <1>4 DEF Artifacts
<1>6. doc # NoRow /\ doc' # NoRow
    BY <1>1, <1>5, NoRowAssumption DEF Carried, IInv, TypeOK
<1>7. ~overlapped' => ~overlapped
    BY <1>4 DEF Overlap, IInv, TypeOK
<1>8. personalData' \in BOOLEAN /\ rows' \in [RowIds -> RowsOf(kind) \cup {NoRow}]
      /\ (~overlapped' => Agrees(rows'))
    BY <1>4, <1>7 DEF IInv, TypeOK, Serially
<1>9. QED
    BY <1>4, <1>5, <1>6, <1>8, RowStep

\* CommitPatch preserves the invariant.
LEMMA CommitPatchStep ==
    ASSUME IInv, NEW w \in Workers, CommitPatch(w)
    PROVE  IInv'
<1> PICK r : r = req[w]
    OBVIOUS
<1> PICK old : old = rows[r.id]
    OBVIOUS
<1> PICK row : row = IF kind = "internal_audit_report" THEN Column(old, r.old, r.new)
                     ELSE Columns(old, r.old, r.new)
    OBVIOUS
<1>1. r \in Requests(kind) /\ Carried(r) /\ (~overlapped => Undisturbed(r)) /\ r.op = "patch"
    BY AtStage DEF CommitPatch, Serving
<1>2. /\ doc # NoRow /\ r.id \in RowIds /\ r.old \in RowsOf(kind) /\ r.new \in RowsOf(kind)
      /\ kind \notin {"scope_statement", "management_review"} /\ AgreesIn(r.new)
    BY <1>1 DEF Carried
<1>3. req' = [req EXCEPT ![w] = Idle] /\ Overlap(w) /\ UNCHANGED <<kind, trail>>
      /\ UNCHANGED <<doc, personalData>>
      /\ rows' = (IF old = NoRow THEN rows ELSE [rows EXCEPT ![r.id] = row])
    BY DEF CommitPatch, Answer
<1>4. ~overlapped' => ~overlapped
    BY <1>3 DEF Overlap, IInv, TypeOK
<1>5. kind \in {"context_analysis", "stakeholder_map", "internal_audit_report"}
    BY <1>2, DocumentAssumption DEF DocTypes, IInv, TypeOK
<1>6. old # NoRow => old \in RowsOf(kind)
    BY <1>2 DEF IInv, TypeOK
<1>7. old # NoRow => row \in RowsOf(kind)
  <2>1. CASE kind = "context_analysis"
      BY <1>2, <1>6, <2>1, KindFacts, ColumnsFacts
  <2>2. CASE kind = "stakeholder_map"
      BY <1>2, <1>6, <2>2, KindFacts, ColumnsFacts
  <2>3. CASE kind = "internal_audit_report"
      BY <1>2, <1>6, <2>3 DEF Column
  <2>4. QED
      BY <1>5, <2>1, <2>2, <2>3
<1>8. ASSUME ~overlapped', old # NoRow PROVE row = r.new
  <2>1. old = r.old
      BY <1>1, <1>4, <1>8 DEF Undisturbed
  <2>2. CASE kind = "context_analysis"
      BY <1>2, <2>1, <2>2, KindFacts, ColumnsFacts
  <2>3. CASE kind = "stakeholder_map"
      BY <1>2, <2>1, <2>3, KindFacts, ColumnsFacts
  <2>4. CASE kind = "internal_audit_report"
      BY <2>1, <2>4 DEF Column
  <2>5. QED
      BY <1>5, <2>2, <2>3, <2>4
<1>9. rows' \in [RowIds -> RowsOf(kind) \cup {NoRow}]
    BY <1>2, <1>3, <1>7 DEF IInv, TypeOK
<1>10. ASSUME ~overlapped' PROVE Agrees(rows')
  <2>1. Agrees(rows)
      BY <1>4, <1>10 DEF IInv, Serially
  <2>2. CASE old = NoRow
      BY <1>3, <2>1, <2>2
  <2>3. CASE old # NoRow
      BY <1>2, <1>3, <1>8, <1>10, <2>1, <2>3 DEF Agrees, IInv, TypeOK
  <2>4. QED
      BY <2>2, <2>3
<1>11. doc' \in Artifacts(kind) \cup {NoRow} /\ personalData' \in BOOLEAN
    BY <1>3 DEF IInv, TypeOK
<1>12. QED
    BY <1>2, <1>3, <1>9, <1>10, <1>11, RowStep

\* CommitSubmit preserves the invariant.
LEMMA CommitSubmitStep ==
    ASSUME IInv, NEW w \in Workers, CommitSubmit(w)
    PROVE  IInv'
<1> PICK r : r = req[w]
    OBVIOUS
<1>1. Carried(r) /\ (~overlapped => Undisturbed(r)) /\ doc \in Artifacts(kind)
      /\ r.op = "submit"
    BY AtStage DEF CommitSubmit, Ready, Serving
<1>2. doc' = [doc EXCEPT !.draft = "in_review"] /\ submitted' = submitted + 1
      /\ req' = [req EXCEPT ![w] = Idle] /\ Overlap(w)
      /\ UNCHANGED <<kind, rows, versions, logged, personalData>>
    BY DEF CommitSubmit, Answer
<1>3. doc' \in Artifacts(kind) /\ doc'.draft = "in_review" /\ doc'.current = doc.current
      /\ doc'.head = doc.head
    BY <1>1, <1>2 DEF Artifacts
<1>4. doc # NoRow /\ doc' # NoRow
    BY <1>1, <1>3, NoRowAssumption DEF Carried, IInv, TypeOK
<1>5. /\ InFlight' /\ req' \in [Workers -> Requests(kind) \cup {Idle}]
      /\ overlapped' \in BOOLEAN /\ (~overlapped' => ~overlapped)
    BY <1>2, <1>4, CommitStep
<1>6. TypeOK'
    BY <1>2, <1>3, <1>5 DEF IInv, TypeOK
<1>7. Trailed'
    BY <1>2, LoggingLeft DEF IInv
<1>8. MinutesComplete' /\ Empty'
    BY <1>2, <1>4 DEF IInv, MinutesComplete, Empty
<1>9. Serially'
  <2>1. ASSUME NEW held, Agrees(held) PROVE Agrees(held)'
      BY <1>2, <2>1 DEF Agrees, AgreesIn
  <2>2. ~overlapped' => Agrees(rows)' /\ \A v \in DOMAIN versions' : Agrees(versions[v].content.rows)'
      BY <1>2, <1>5, <2>1 DEF IInv, Serially
  <2>3. ~overlapped' =>
            /\ \A v \in DOMAIN versions' : versions'[v].number = v
            /\ doc'.current = Len(versions')
      BY <1>2, <1>3, <1>4, <1>5 DEF IInv, Serially
  <2>4. OneReviewPerVersion'
    <3> SUFFICES ASSUME ~overlapped' PROVE submitted' = Len(versions') + 1
        BY <1>3 DEF OneReviewPerVersion, Serial
    <3>1. doc.draft # "in_review"
        BY <1>1, <1>5 DEF Undisturbed
    <3>2. submitted = Len(versions)
        BY <1>4, <1>5, <3>1 DEF IInv, Serially, OneReviewPerVersion, Serial, TypeOK
    <3>3. QED
        BY <1>2, <3>2
  <2>5. ReportsComplete'
      BY <1>2, <1>5 DEF IInv, Serially, ReportsComplete, Serial
  <2>6. QED
      BY <2>2, <2>3, <2>4, <2>5 DEF Serially
<1>10. QED
    BY <1>5, <1>6, <1>7, <1>8, <1>9 DEF IInv

\* The event of an approval is about to be written: one more of them.
LEMMA LoggingNext ==
    ASSUME TypeOK, Trailed, NEW w \in Workers, NEW r, r # Idle, r.op = "log",
           req[w].op # "log", req' = [req EXCEPT ![w] = r],
           versions' \in Seq(Versions(kind)), Len(versions') = Len(versions) + 1,
           UNCHANGED logged
    PROVE  Trailed'
<1>1. Logging' = Logging \cup {w} /\ w \notin Logging
    BY DEF TypeOK, Logging
<1>2. IsFiniteSet(Logging) /\ logged \in Nat /\ Len(versions) \in Nat
    BY DEF TypeOK, Trailed
<1>3. Cardinality(Logging) \in Nat
    BY <1>2, FS_CardinalityType
<1>4. /\ IsFiniteSet(Logging \cup {w})
      /\ Cardinality(Logging \cup {w}) =
             IF w \in Logging THEN Cardinality(Logging) ELSE Cardinality(Logging) + 1
    BY <1>2, FS_AddElement
<1>5. IsFiniteSet(Logging') /\ Cardinality(Logging') = Cardinality(Logging) + 1
    BY <1>1, <1>4
<1>6. logged + Cardinality(Logging) <= Len(versions)
    BY DEF Trailed
<1>7. logged' + Cardinality(Logging') <= Len(versions')
    BY <1>2, <1>3, <1>5, <1>6
<1>8. QED
    BY <1>5, <1>7 DEF Trailed

\* The version an approval commits.
LEMMA ApprovedVersion ==
    ASSUME IInv, NEW w \in Workers, CommitApprove(w), NEW r, r = req[w],
           NEW version, version = [number |-> r.number, content |-> Content(r)]
    PROVE  /\ r \in Requests(kind) /\ Carried(r) /\ (~overlapped => Undisturbed(r))
           /\ r.op = "approve" /\ r.todo = <<>> /\ r # Idle
           /\ version \in Versions(kind) /\ version.number = r.number
           /\ version.content.head = r.loaded /\ version.content.rows = r.seen
           /\ version.content = [head |-> r.loaded, rows |-> r.seen]
           /\ versions' = Append(versions, version)
           /\ versions' \in Seq(Versions(kind)) /\ Len(versions') = Len(versions) + 1
           /\ DOMAIN versions' = DOMAIN versions \cup {Len(versions) + 1}
           /\ \A v \in DOMAIN versions : versions'[v] = versions[v]
           /\ versions'[Len(versions) + 1] = version
<1>1. r \in Requests(kind) /\ Carried(r) /\ (~overlapped => Undisturbed(r))
      /\ r.op = "approve" /\ r.todo = <<>> /\ r # Idle
    BY AtStage DEF CommitApprove, Ready, Serving
<1>2. r.loaded \in HeadsOf(kind) /\ r.number \in Nat
      /\ r.seen \in [RowIds -> RowsOf(kind) \cup {NoRow}]
    BY <1>1 DEF Carried, Requests
<1>3. Content(r) = [head |-> r.loaded, rows |-> r.seen] /\ Content(r) \in Contents(kind)
    BY <1>2 DEF Content, Contents
<1>4. version \in Versions(kind) /\ version.number = r.number /\ version.content = Content(r)
    BY <1>2, <1>3 DEF Versions
<1>5. versions' = Append(versions, version)
    BY DEF CommitApprove
<1>6. versions \in Seq(Versions(kind))
    BY DEF IInv, TypeOK
<1>7. /\ versions' \in Seq(Versions(kind)) /\ Len(versions') = Len(versions) + 1
      /\ DOMAIN versions' = DOMAIN versions \cup {Len(versions) + 1}
      /\ \A v \in DOMAIN versions : versions'[v] = versions[v]
      /\ versions'[Len(versions) + 1] = version
    BY <1>4, <1>5, <1>6, AppendFacts
<1>8. QED
    BY <1>1, <1>3, <1>4, <1>5, <1>7

\* CommitApprove preserves the invariant.
LEMMA CommitApproveStep ==
    ASSUME IInv, NEW w \in Workers, CommitApprove(w)
    PROVE  IInv'
<1> PICK r : r = req[w]
    OBVIOUS
<1> PICK version : version = [number |-> r.number, content |-> Content(r)]
    OBVIOUS
<1> PICK q : q = Request("log")
    OBVIOUS
<1>1. /\ r \in Requests(kind) /\ Carried(r) /\ (~overlapped => Undisturbed(r))
      /\ r.op = "approve" /\ r.todo = <<>> /\ r # Idle
      /\ version \in Versions(kind) /\ version.number = r.number
      /\ version.content.head = r.loaded /\ version.content.rows = r.seen
      /\ versions' \in Seq(Versions(kind)) /\ Len(versions') = Len(versions) + 1
      /\ DOMAIN versions' = DOMAIN versions \cup {Len(versions) + 1}
      /\ \A v \in DOMAIN versions : versions'[v] = versions[v]
      /\ versions'[Len(versions) + 1] = version
    BY ApprovedVersion
<1>2. /\ doc' = [doc EXCEPT !.draft = "draft", !.current = Len(versions')]
      /\ req' = [req EXCEPT ![w] = q] /\ Overlap(w)
      /\ UNCHANGED <<kind, rows, logged, submitted, personalData>>
    BY DEF CommitApprove
<1>3. Len(versions) \in Nat /\ Len(versions') \in Nat /\ Len(versions) + 1 \notin DOMAIN versions
    BY <1>1 DEF IInv, TypeOK
<1>4. doc # NoRow /\ doc \in Artifacts(kind) /\ HeadComplete(r.loaded)
    BY <1>1, AtStage DEF Carried
<1>5. doc' \in Artifacts(kind) /\ doc'.draft = "draft" /\ doc'.current = Len(versions')
  <2> PICK n : n = Len(versions')
      OBVIOUS
  <2>1. n \in Nat /\ doc' = [doc EXCEPT !.draft = "draft", !.current = n]
      BY <1>2, <1>3
  <2>2. doc' \in Artifacts(kind) /\ doc'.draft = "draft" /\ doc'.current = n
      BY <1>4, <2>1 DEF Artifacts
  <2>3. QED
      BY <2>2
<1>6. doc' # NoRow
    BY <1>5, NoRowAssumption DEF IInv, TypeOK
<1>7. q \in Requests(kind) /\ q.op = "log" /\ q.todo = <<>> /\ q.loaded \in HeadsOf(kind)
    BY <1>4, RequestFields DEF TodoOf
<1>8. Carried(q)' /\ Undisturbed(q)'
    BY <1>2, <1>6, <1>7 DEF Carried, Undisturbed
<1>9. /\ InFlight' /\ req' \in [Workers -> Requests(kind) \cup {Idle}]
      /\ overlapped' \in BOOLEAN /\ (~overlapped' => ~overlapped)
    BY <1>2, <1>6, <1>7, <1>8, CommitStep
<1>10. TypeOK'
    BY <1>1, <1>2, <1>5, <1>9 DEF IInv, TypeOK
<1>11. Trailed'
  <2>1. req[w].op # "log"
      BY <1>1
  <2>2. CASE q # Idle
      BY <1>1, <1>2, <1>7, <2>1, <2>2, LoggingNext DEF IInv
  <2>3. CASE q = Idle
    <3>1. Logging' = Logging
        BY <1>1, <1>2, <2>3 DEF Logging, IInv, TypeOK
    <3>2. IsFiniteSet(Logging) /\ logged + Cardinality(Logging) <= Len(versions)
          /\ logged \in Nat
        BY DEF IInv, Trailed, TypeOK
    <3>3. Cardinality(Logging) \in Nat
        BY <3>2, FS_CardinalityType
    <3>4. logged' + Cardinality(Logging) <= Len(versions')
        BY <1>1, <1>2, <1>3, <3>2, <3>3
    <3>5. QED
        BY <3>1, <3>2, <3>4 DEF Trailed
  <2>4. QED
      BY <2>2, <2>3
<1>12. Empty'
    BY <1>6 DEF Empty
<1>13. MinutesComplete'
  <2> SUFFICES ASSUME kind = "management_review", NEW v \in DOMAIN versions'
               PROVE  versions'[v].content.head.inputs /\ versions'[v].content.head.outputs
      BY <1>2 DEF MinutesComplete
  <2>1. CASE v \in DOMAIN versions
      BY <2>1, <1>1 DEF IInv, MinutesComplete
  <2>2. CASE v = Len(versions) + 1
      BY <2>2, <1>1, <1>4 DEF HeadComplete
  <2>3. QED
      BY <2>1, <2>2, <1>1
<1>14. Serially'
  <2> SUFFICES ASSUME ~overlapped'
               PROVE  /\ \A v \in DOMAIN versions' : versions'[v].number = v
                      /\ doc' # NoRow => doc'.current = Len(versions')
                      /\ OneReviewPerVersion'
                      /\ ReportsComplete'
                      /\ Agrees(rows)'
                      /\ \A v \in DOMAIN versions' : Agrees(versions[v].content.rows)'
      BY DEF Serially
  <2>1. Undisturbed(r) /\ r.seen = rows /\ r.number = Len(versions) + 1
        /\ doc.draft = "in_review"
        /\ (kind = "internal_audit_report" => NothingPending(rows))
      BY <1>1, <1>9, TodoApart DEF Undisturbed
  <2>2. ~overlapped
      BY <1>9
  <2>3. \A v \in DOMAIN versions' : versions'[v].number = v
      BY <1>1, <2>1, <2>2 DEF IInv, Serially
  <2>4. OneReviewPerVersion'
    <3>1. submitted = Len(versions) + 1
        BY <1>4, <2>1, <2>2 DEF IInv, Serially, OneReviewPerVersion, Serial
    <3>2. QED
        BY <1>1, <1>2, <1>3, <1>5, <3>1 DEF OneReviewPerVersion
  <2>5. ReportsComplete'
    <3> SUFFICES ASSUME kind = "internal_audit_report", NEW v \in DOMAIN versions'
                 PROVE  /\ versions'[v].content.head = "completed"
                        /\ \A id \in RowIds : versions'[v].content.rows[id] # "pendente"
        BY <1>2 DEF ReportsComplete
    <3>1. CASE v \in DOMAIN versions
        BY <3>1, <1>1, <2>2 DEF IInv, Serially, ReportsComplete, Serial
    <3>2. CASE v = Len(versions) + 1
        BY <3>2, <1>1, <1>4, <2>1 DEF HeadComplete, NothingPending
    <3>3. QED
        BY <3>1, <3>2, <1>1
  <2>6. ASSUME NEW held, Agrees(held) PROVE Agrees(held)'
      BY <1>2, <2>6 DEF Agrees, AgreesIn
  <2>7. Agrees(rows)'
      BY <1>2, <2>2, <2>6 DEF IInv, Serially
  <2>8. ASSUME NEW v \in DOMAIN versions' PROVE Agrees(versions[v].content.rows)'
    <3> PICK held : held = versions'[v].content.rows
        OBVIOUS
    <3>1. Agrees(held)
      <4>1. CASE v \in DOMAIN versions
          BY <4>1, <1>1, <2>2 DEF IInv, Serially
      <4>2. CASE v = Len(versions) + 1
          BY <4>2, <1>1, <2>1, <2>2 DEF IInv, Serially
      <4>3. QED
          BY <4>1, <4>2, <1>1
    <3>2. QED
        BY <3>1, <2>6
  <2>9. QED
      BY <1>5, <2>3, <2>4, <2>5, <2>7, <2>8
<1>15. QED
    BY <1>9, <1>10, <1>11, <1>12, <1>13, <1>14 DEF IInv

\* LogApproval preserves the invariant.
LEMMA LogApprovalStep ==
    ASSUME IInv, NEW w \in Workers, LogApproval(w)
    PROVE  IInv'
<1>1. req[w] # Idle /\ req[w].op = "log" /\ logged' = logged + 1
      /\ req' = [req EXCEPT ![w] = Idle] /\ Overlap(w)
      /\ UNCHANGED <<kind, doc, rows, versions, submitted, personalData>>
    BY DEF LogApproval, LogsAfter, Answer
<1>2. /\ InFlight' /\ req' \in [Workers -> Requests(kind) \cup {Idle}]
      /\ overlapped' \in BOOLEAN /\ (~overlapped' => ~overlapped)
    BY <1>1, CommitStep
<1>3. TypeOK'
    BY <1>1, <1>2 DEF IInv, TypeOK
<1>4. Trailed'
  <2>1. Logging' = Logging \ {w} /\ w \in Logging
      BY <1>1 DEF Logging, IInv, TypeOK
  <2>2. IsFiniteSet(Logging) /\ logged + Cardinality(Logging) <= Len(versions)
        /\ logged \in Nat /\ Len(versions) \in Nat
      BY DEF IInv, Trailed, TypeOK
  <2>3. Cardinality(Logging) \in Nat
      BY <2>2, FS_CardinalityType
  <2>4. /\ IsFiniteSet(Logging \ {w})
        /\ Cardinality(Logging \ {w}) =
               IF w \in Logging THEN Cardinality(Logging) - 1 ELSE Cardinality(Logging)
      BY <2>2, FS_RemoveElement
  <2>5. IsFiniteSet(Logging') /\ Cardinality(Logging') = Cardinality(Logging) - 1
      BY <2>1, <2>4
  <2>6. logged' + Cardinality(Logging') <= Len(versions')
      BY <1>1, <2>2, <2>3, <2>5
  <2>7. QED
      BY <2>5, <2>6 DEF Trailed
<1>5. MinutesComplete' /\ Empty'
    BY <1>1 DEF IInv, MinutesComplete, Empty, NoRows
<1>6. Serially'
  <2>1. ASSUME NEW held, Agrees(held) PROVE Agrees(held)'
      BY <1>1, <2>1 DEF Agrees, AgreesIn
  <2>2. QED
      BY <1>1, <1>2, <2>1 DEF IInv, Serially, OneReviewPerVersion, ReportsComplete, Serial
<1>7. QED
    BY <1>2, <1>3, <1>4, <1>5, <1>6 DEF IInv

----------------------------------------------------------------------------
(* The invariant.                                                          *)

\* Nothing changes: neither does the invariant.
LEMMA StutterInv ==
    ASSUME IInv, UNCHANGED vars
    PROVE  IInv'
<1>1. UNCHANGED <<kind, doc, rows, versions, logged, submitted, personalData, overlapped, req>>
    BY DEF vars, trail
<1>2. (TypeOK /\ Empty /\ MinutesComplete)'
    BY <1>1 DEF IInv, TypeOK, Empty, MinutesComplete, NoRows
<1>3. Trailed'
  <2>1. Logging' = Logging
      BY <1>1 DEF Logging
  <2>2. QED
      BY <1>1, <2>1 DEF IInv, Trailed
<1>4. Serially'
  <2>1. ASSUME NEW held, Agrees(held) PROVE Agrees(held)'
      BY <1>1, <2>1 DEF Agrees, AgreesIn
  <2>2. QED
      BY <1>1, <2>1 DEF IInv, Serially, OneReviewPerVersion, ReportsComplete, Serial
<1>5. ASSUME NEW v \in Workers, req'[v] # Idle
      PROVE  /\ Carried(req[v])'
             /\ ~overlapped' =>
                    Undisturbed(req[v])' /\ \A u \in Workers \ {v} : req'[u] = Idle
  <2> PICK q : q = req[v]
      OBVIOUS
  <2>1. /\ q = req'[v] /\ Carried(q)
        /\ ~overlapped => Undisturbed(q) /\ \A u \in Workers \ {v} : req[u] = Idle
      BY <1>1, <1>5 DEF IInv, InFlight
  <2>2. Carried(q)'
      BY <1>1, <2>1 DEF Carried, AgreesIn, ApprovalsLeft, HeadComplete
  <2>3. Undisturbed(q) => Undisturbed(q)'
      BY <1>1 DEF Undisturbed, NothingPending
  <2>4. QED
      BY <1>1, <2>1, <2>2, <2>3
<1>6. InFlight'
    BY <1>5 DEF InFlight
<1>7. QED
    BY <1>2, <1>3, <1>4, <1>6 DEF IInv

\* Every step preserves the invariant.
LEMMA NextInv == IInv /\ [Next]_vars => IInv'
<1> SUFFICES ASSUME IInv, [Next]_vars PROVE IInv'
    OBVIOUS
<1>1. CASE UNCHANGED vars
    BY <1>1, StutterInv
<1>2. CASE Next
  <2> PICK w \in Workers :
        \/ \E head \in HeadsOf(kind) :
               \/ Create(w, head)
               \/ UpdateAnalysis(w, head) \/ UpdateScope(w, head)
               \/ UpdateReview(w, head) \/ TransitionAudit(w, head)
        \/ \E ids \in SUBSET RowIds : ImportChecklist(w, ids)
        \/ \E id \in RowIds :
               \/ \E row \in RowsOf(kind) :
                      \/ CreateIssue(w, id, row) \/ CreateStakeholder(w, id, row)
                      \/ CreateItem(w, id, row) \/ AddChecklistItem(w, id, row)
                      \/ AcceptSuggestion(w, id, row)
               \/ DeleteIssue(w, id) \/ DeleteStakeholder(w, id)
               \/ \E fields \in IssueFields, value \in Issues :
                      UpdateIssue(w, id, fields, value)
               \/ \E fields \in StakeholderFields, value \in Stakeholders :
                      UpdateStakeholder(w, id, fields, value)
               \/ \E result \in Results : UpdateChecklistItem(w, id, result)
        \/ \E says \in BOOLEAN : SaveDiagnostic(w, says)
        \/ BeginSubmit(w) \/ BeginApprove(w)
        \/ PassGate(w) \/ CountVersions(w) \/ TakeSnapshot(w)
        \/ CommitEdit(w) \/ CommitPatch(w) \/ CommitSubmit(w) \/ CommitApprove(w)
        \/ LogApproval(w) \/ Crash(w)
      BY <1>2 DEF Next
  <2>1. ASSUME NEW head \in HeadsOf(kind),
               \/ Create(w, head)
               \/ UpdateAnalysis(w, head) \/ UpdateScope(w, head)
               \/ UpdateReview(w, head) \/ TransitionAudit(w, head)
        PROVE  IInv'
    <3>1. Create(w, head) \/ BeginEdit(w, head)
        BY <2>1 DEF UpdateAnalysis, UpdateScope, UpdateReview, TransitionAudit
    <3>2. QED
        BY <3>1, CreateStep, BeginEditStep
  <2>2. ASSUME NEW ids \in SUBSET RowIds, ImportChecklist(w, ids) PROVE IInv'
      BY <2>2, ImportChecklistStep
  <2>3. ASSUME NEW id \in RowIds, NEW row \in RowsOf(kind),
               \/ CreateIssue(w, id, row) \/ CreateStakeholder(w, id, row)
               \/ CreateItem(w, id, row) \/ AddChecklistItem(w, id, row)
               \/ AcceptSuggestion(w, id, row)
        PROVE  IInv'
      BY <2>3, CreateRowSteps, AcceptSuggestionStep
  <2>4. ASSUME NEW id \in RowIds, DeleteIssue(w, id) \/ DeleteStakeholder(w, id)
        PROVE  IInv'
      BY <2>4, DeleteRowStep DEF DeleteIssue, DeleteStakeholder
  <2>5. ASSUME NEW id \in RowIds, NEW fields \in IssueFields, NEW value \in Issues,
               UpdateIssue(w, id, fields, value)
        PROVE  IInv'
      BY <2>5, UpdateIssueStep
  <2>6. ASSUME NEW id \in RowIds, NEW fields \in StakeholderFields,
               NEW value \in Stakeholders, UpdateStakeholder(w, id, fields, value)
        PROVE  IInv'
      BY <2>6, UpdateStakeholderStep
  <2>7. ASSUME NEW id \in RowIds, NEW result \in Results, UpdateChecklistItem(w, id, result)
        PROVE  IInv'
      BY <2>7, UpdateChecklistItemStep
  <2>8. ASSUME NEW says \in BOOLEAN, SaveDiagnostic(w, says) PROVE IInv'
      BY <2>8, SaveDiagnosticStep
  <2>9. BeginSubmit(w) \/ BeginApprove(w) => IInv'
      BY BeginSubmitStep, BeginApproveStep
  <2>10. PassGate(w) \/ CountVersions(w) \/ TakeSnapshot(w) => IInv'
      BY PassGateStep, CountVersionsStep, TakeSnapshotStep
  <2>11. CommitEdit(w) \/ CommitPatch(w) \/ CommitSubmit(w) \/ CommitApprove(w) => IInv'
      BY CommitEditStep, CommitPatchStep, CommitSubmitStep, CommitApproveStep
  <2>12. LogApproval(w) \/ Crash(w) => IInv'
      BY LogApprovalStep, FailStep DEF Crash
  <2>13. QED
      BY <2>1, <2>2, <2>3, <2>4, <2>5, <2>6, <2>7, <2>8, <2>9, <2>10, <2>11, <2>12
<1>3. QED
    BY <1>1, <1>2

\* The invariant holds always.
LEMMA Invariance == Spec => []IInv
<1>1. QED
    BY InitInv, NextInv, PTL DEF Spec

----------------------------------------------------------------------------
(* What follows from it.                                                   *)

\* Serially the highest number is the last version's, the one in force.
LEMMA LastIsLatest ==
    ASSUME IInv
    PROVE  CurrentIsLatest
<1> SUFFICES ASSUME ~overlapped, doc # NoRow, NEW v \in DOMAIN versions
             PROVE  Superseded(v) <=> v # doc.current
    BY DEF CurrentIsLatest, Serial
<1>1. Len(versions) \in Nat /\ DOMAIN versions = 1 .. Len(versions)
    BY DEF IInv, TypeOK
<1>2. doc.current = Len(versions) /\ \A u \in DOMAIN versions : versions[u].number = u
    BY DEF IInv, Serially
<1>3. Superseded(v) <=> \E u \in DOMAIN versions : u > v
    BY <1>2 DEF Superseded
<1>4. v # Len(versions) => Len(versions) \in DOMAIN versions /\ Len(versions) > v
    BY <1>1
<1>5. \A u \in DOMAIN versions : u > v => v # Len(versions)
    BY <1>1
<1>6. (\E u \in DOMAIN versions : u > v) <=> v # Len(versions)
    BY <1>4, <1>5
<1>7. QED
    BY <1>2, <1>3, <1>6

\* Rows, versions and requests keep their types for each kind of document, and
\* no event tells of a version that is not there.  Serially the version in
\* force is the latest and every version answers a submission of its own.
THEOREM SoundDocuments == Spec => []DocumentsAreSound
<1>1. IInv => LoggedIsCommitted
  <2> SUFFICES ASSUME IInv PROVE logged <= Len(versions)
      BY DEF LoggedIsCommitted
  <2>1. IsFiniteSet(Logging) /\ logged + Cardinality(Logging) <= Len(versions)
        /\ logged \in Nat /\ Len(versions) \in Nat
      BY DEF IInv, Trailed, TypeOK
  <2>2. Cardinality(Logging) \in Nat
      BY <2>1, FS_CardinalityType
  <2>3. QED
      BY <2>1, <2>2
<1>2. IInv => TypeOK /\ OneReviewPerVersion
    BY DEF IInv, Serially, OneReviewPerVersion, Serial
<1>3. IInv => DocumentsAreSound
    BY <1>1, <1>2, LastIsLatest DEF DocumentsAreSound
<1>4. QED
    BY <1>3, Invariance, PTL

\* Whatever is emptied between submission and approval, minutes are approved
\* complete; serially reports are approved without an open item.
THEOREM GatesHold == Spec => []VersionsPassTheirGate
<1>1. IInv => VersionsPassTheirGate
    BY DEF IInv, Serially, VersionsPassTheirGate, ReportsComplete, Serial
<1>2. QED
    BY <1>1, Invariance, PTL

\* Serially, through every sequence of partial updates, strategies are derived
\* and PESTEL issues external, in the rows and in what was sealed of them.
THEOREM ColumnsFollow == Spec => []ColumnsAgree
<1>1. IInv => ColumnsAgree
  <2> SUFFICES ASSUME IInv, ~overlapped
               PROVE  /\ kind = "stakeholder_map" => StrategyDerived
                      /\ kind = "context_analysis" => PestelIsExternal
      BY DEF ColumnsAgree, StrategyDerived, PestelIsExternal, Serial
  <2>1. Agrees(rows) /\ \A v \in DOMAIN versions : Agrees(versions[v].content.rows)
      BY DEF IInv, Serially
  <2>2. kind = "context_analysis" => PestelIsExternal
      BY <2>1 DEF Agrees, AgreesIn, PestelIsExternal
  <2>3. kind = "stakeholder_map" => StrategyDerived
    <3> SUFFICES ASSUME kind = "stakeholder_map",
                        NEW held \in {rows} \cup
                                     {versions[v].content.rows : v \in DOMAIN versions},
                        NEW id \in RowIds, held[id] # NoRow
                 PROVE  held[id].strategy = Strategy(held[id].power, held[id].interest)
        BY DEF StrategyDerived
    <3>1. Agrees(held)
        BY <2>1
    <3>2. QED
        BY <3>1 DEF Agrees, AgreesIn
  <2>4. QED
      BY <2>2, <2>3
<1>2. QED
    BY <1>1, Invariance, PTL

\* Only an approval adds a version.
LEMMA OthersKeepVersions ==
    ASSUME [Next]_vars, ~ \E w \in Workers : CommitApprove(w)
    PROVE  versions' = versions
<1>1. CASE UNCHANGED vars
    BY <1>1 DEF vars, trail
<1>2. ASSUME NEW w \in Workers, AtOnce(w)
      PROVE  versions' = versions
    BY <1>2 DEF AtOnce, trail
<1>3. ASSUME NEW w \in Workers, NEW r, Begin(w, r)
      PROVE  versions' = versions
    BY <1>3 DEF Begin, trail
<1>4. CASE Next
  <2>1. PICK w \in Workers :
            \/ \E head \in HeadsOf(kind) :
                   \/ Create(w, head)
                   \/ UpdateAnalysis(w, head) \/ UpdateScope(w, head)
                   \/ UpdateReview(w, head) \/ TransitionAudit(w, head)
            \/ \E ids \in SUBSET RowIds : ImportChecklist(w, ids)
            \/ \E id \in RowIds :
                   \/ \E row \in RowsOf(kind) :
                          \/ CreateIssue(w, id, row) \/ CreateStakeholder(w, id, row)
                          \/ CreateItem(w, id, row) \/ AddChecklistItem(w, id, row)
                          \/ AcceptSuggestion(w, id, row)
                   \/ DeleteIssue(w, id) \/ DeleteStakeholder(w, id)
                   \/ \E fields \in IssueFields, value \in Issues :
                          UpdateIssue(w, id, fields, value)
                   \/ \E fields \in StakeholderFields, value \in Stakeholders :
                          UpdateStakeholder(w, id, fields, value)
                   \/ \E result \in Results : UpdateChecklistItem(w, id, result)
            \/ \E says \in BOOLEAN : SaveDiagnostic(w, says)
            \/ BeginSubmit(w) \/ BeginApprove(w)
            \/ PassGate(w) \/ CountVersions(w) \/ TakeSnapshot(w)
            \/ CommitEdit(w) \/ CommitPatch(w) \/ CommitSubmit(w)
            \/ LogApproval(w) \/ Crash(w)
      BY <1>4 DEF Next
  <2>2. CASE \E head \in HeadsOf(kind) :
                 \/ Create(w, head)
                 \/ UpdateAnalysis(w, head) \/ UpdateScope(w, head)
                 \/ UpdateReview(w, head) \/ TransitionAudit(w, head)
      BY <2>2, <1>2, <1>3 DEF Create, UpdateAnalysis, UpdateScope, UpdateReview,
         TransitionAudit, BeginEdit
  <2>3. CASE \/ \E ids \in SUBSET RowIds : ImportChecklist(w, ids)
             \/ \E says \in BOOLEAN : SaveDiagnostic(w, says)
      BY <2>3, <1>2 DEF ImportChecklist, SaveDiagnostic
  <2>4. ASSUME NEW id \in RowIds, NEW row \in RowsOf(kind),
               \/ CreateIssue(w, id, row) \/ CreateStakeholder(w, id, row)
               \/ CreateItem(w, id, row) \/ AddChecklistItem(w, id, row)
               \/ AcceptSuggestion(w, id, row)
        PROVE  versions' = versions
      BY <2>4, <1>2 DEF CreateIssue, CreateStakeholder, CreateItem, AddChecklistItem,
         AcceptSuggestion, InsertRow
  <2>5. ASSUME NEW id \in RowIds, DeleteIssue(w, id) \/ DeleteStakeholder(w, id)
        PROVE  versions' = versions
      BY <2>5, <1>2 DEF DeleteIssue, DeleteStakeholder, DeleteRow
  <2>6. ASSUME NEW id \in RowIds, NEW fields \in IssueFields, NEW value \in Issues,
               UpdateIssue(w, id, fields, value)
        PROVE  versions' = versions
      BY <2>6, <1>3 DEF UpdateIssue, BeginPatch
  <2>7. ASSUME NEW id \in RowIds, NEW fields \in StakeholderFields,
               NEW value \in Stakeholders, UpdateStakeholder(w, id, fields, value)
        PROVE  versions' = versions
      BY <2>7, <1>3 DEF UpdateStakeholder, BeginPatch
  <2>8. ASSUME NEW id \in RowIds, NEW result \in Results,
               UpdateChecklistItem(w, id, result)
        PROVE  versions' = versions
      BY <2>8, <1>3 DEF UpdateChecklistItem, BeginPatch
  <2>9. CASE BeginSubmit(w) \/ BeginApprove(w)
      BY <2>9, <1>3 DEF BeginSubmit, BeginApprove
  <2>10. CASE PassGate(w) \/ CountVersions(w) \/ TakeSnapshot(w) \/ Crash(w)
      BY <2>10 DEF PassGate, CountVersions, TakeSnapshot, Crash, Advance, Fail, trail
  <2>11. CASE CommitEdit(w) \/ CommitPatch(w)
      BY <2>11 DEF CommitEdit, CommitPatch, trail
  <2>12. CASE CommitSubmit(w) \/ LogApproval(w)
      BY <2>12 DEF CommitSubmit, LogApproval
  <2>13. QED
      BY <2>1, <2>2, <2>3, <2>4, <2>5, <2>6, <2>7, <2>8, <2>9, <2>10, <2>11, <2>12
<1>5. QED
    BY <1>1, <1>4

\* Serially what an approval seals is the artifact, columns and rows, as it is
\* when the version is committed.
THEOREM SealedAsShown == Spec => SealsTheArtifact
<1>1. ASSUME IInv, [Next]_vars
      PROVE  [Len(versions') > Len(versions) /\ ~overlapped' =>
                  Last(versions').content = [head |-> doc.head, rows |-> rows]]_vars
  <2> SUFFICES ASSUME Len(versions') > Len(versions), ~overlapped'
               PROVE  Last(versions').content = [head |-> doc.head, rows |-> rows]
      OBVIOUS
  <2>1. Len(versions) \in Nat
      BY <1>1 DEF IInv, TypeOK
  <2>2. versions' # versions
      BY <2>1
  <2>3. PICK w \in Workers : CommitApprove(w)
      BY <1>1, <2>2, OthersKeepVersions
  <2> PICK r : r = req[w]
      OBVIOUS
  <2> PICK version : version = [number |-> r.number, content |-> Content(r)]
      OBVIOUS
  <2>4. /\ ~overlapped => Undisturbed(r)
        /\ r.op = "approve" /\ r.todo = <<>>
        /\ version.content = [head |-> r.loaded, rows |-> r.seen]
        /\ Len(versions') = Len(versions) + 1
        /\ versions'[Len(versions) + 1] = version
      BY <1>1, <2>3, ApprovedVersion
  <2>5. Undisturbed(r)
      BY <2>3, <2>4 DEF CommitApprove, Overlap
  <2>6. r.loaded = doc.head /\ r.seen = rows
      BY <2>4, <2>5 DEF Undisturbed
  <2>7. Last(versions') = version
      BY <2>4 DEF Last
  <2>8. QED
      BY <2>4, <2>6, <2>7
<1>2. QED
    BY <1>1, Invariance, PTL DEF Spec, SealsTheArtifact

=============================================================================
