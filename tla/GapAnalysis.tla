----------------------------- MODULE GapAnalysis -----------------------------
(***************************************************************************)
(* The Gap Analysis of one organization: its copy of the catalog, adopted  *)
(* from releases of the seed, the assessment of every item, the baselines  *)
(* that approving the assessment leaves, and the assignments whose         *)
(* signature leaves one too; beside the content the platform keeps for all *)
(* organizations (GapGuidance).                                            *)
(*                                                                         *)
(* A handler loads what it needs, and an UPDATE writes the columns that    *)
(* differ from the loaded ones.  Signing commits twice: the submission for *)
(* review first, then the signature together with the baseline.            *)
(***************************************************************************)
EXTENDS GapGuidance

CONSTANTS
    Releases,       \* releases of the seed
    Custom,         \* ref codes of the items the organization adds
    SeedRefs,       \* the ref codes of each release
    Assignments,    \* ids of assignments
    Statuses,       \* values used of GapStatus
    MaxBaselines,   \* bound of the model: approvals
    MaxCrashes      \* bound of the model: requests that die

VARIABLES
    catalog,        \* gap_catalog_item, by ref code
    items,          \* gap_assessment_item, by ref code
    assessment,     \* gap_assessment: its draft status, seed and baseline
    baselines,      \* document_versions of the assessment, in commit order
    assignments,    \* gap_assignment
    crashes         \* requests that died (bound)

work == <<catalog, items>>
vars == <<work, assessment, baselines, assignments, crashes, guidanceVars, overlapped, req>>

----------------------------------------------------------------------------
(* Data.                                                                   *)

ASSUME GapAssumption ==
    /\ SeedRefs \in [Releases -> SUBSET UNION {SeedRefs[s] : s \in Releases}]
    /\ "not_filled" \in Statuses
    /\ {MaxBaselines, MaxCrashes} \subseteq Nat

Seeded == UNION {SeedRefs[s] : s \in Releases}

Refs == Seeded \cup Custom

CatalogRows == [custom : BOOLEAN, discontinued : BOOLEAN]

ItemRows == [status : Statuses, justified : BOOLEAN]

\* An item in a snapshot, which may leave the justification out (NoRow).
SealedRows == [status : Statuses, justified : BOOLEAN \cup {NoRow}]

AssessmentRows == [draft : {"draft", "in_review"}, seed : Releases, current : Nat]

AssignmentStatus == {"pending", "in_progress", "submitted", "signed", "cancelled"}

ASSUME NoRowAssumption ==
    NoRow \notin CatalogRows \cup ItemRows \cup SealedRows \cup AssessmentRows
                 \cup AssignmentStatus \cup Assignments

Assessed == [Refs -> ItemRows \cup {NoRow}]

Snapshots == [Refs -> SealedRows \cup {NoRow}]

Baselines == [number : Nat, content : Snapshots, by : Assignments \cup {NoRow}]

Stages == {"read", "review", "count"}

Requests ==
    [op : {"adopt", "edit", "move", "sign", "approve"},
     seed : Releases \cup {NoRow}, known : [Refs -> CatalogRows \cup {NoRow}],
     ref : Refs \cup {NoRow}, loaded : ItemRows \cup {NoRow}, row : ItemRows \cup {NoRow},
     assignment : Assignments \cup {NoRow}, to : AssignmentStatus \cup {NoRow},
     seen : Snapshots, draft : {"draft", "in_review", NoRow}, number : Nat, todo : Seq(Stages)]

Nothing == [r \in Refs |-> NoRow]

\* The type invariant; the pointer to the baseline in force is a baseline's.
TypeOK ==
    /\ catalog \in [Refs -> CatalogRows \cup {NoRow}]
    /\ items \in Assessed
    /\ assessment \in AssessmentRows \cup {NoRow}
    /\ assessment # NoRow => assessment.current \in {0} \cup DOMAIN baselines
    /\ baselines \in Seq(Baselines)
    /\ assignments \in [Assignments -> AssignmentStatus \cup {NoRow}]
    /\ crashes \in 0 .. MaxCrashes
    /\ overlapped \in BOOLEAN
    /\ req \in [Workers -> Requests \cup GuidanceRequests \cup {Idle}]
    /\ GuidanceTypeOK

Init ==
    /\ catalog = Nothing
    /\ items = Nothing
    /\ assessment = NoRow
    /\ baselines = <<>>
    /\ assignments = [a \in Assignments |-> NoRow]
    /\ crashes = 0
    /\ overlapped = FALSE
    /\ req = [w \in Workers |-> Idle]
    /\ GuidanceInit

Serving(w, op) == req[w] # Idle /\ req[w].op = op

Ready(w, op) == Serving(w, op) /\ req[w].todo = <<>>

NextTodo(w, stage) ==
    req[w] # Idle /\ ~AboutGuidance(w) /\ req[w].todo # <<>> /\ Head(req[w].todo) = stage

Request(op, todo) ==
    [op |-> op, seed |-> NoRow, known |-> Nothing, ref |-> NoRow, loaded |-> NoRow,
     row |-> NoRow, assignment |-> NoRow, to |-> NoRow, seen |-> Nothing,
     draft |-> NoRow, number |-> 0, todo |-> todo]

Begin(w, r) ==
    /\ req[w] = Idle
    /\ req' = [req EXCEPT ![w] = r]
    /\ Overlap(w)
    /\ UNCHANGED <<work, assessment, baselines, assignments, crashes, guidanceVars>>

Advance(w, r) ==
    /\ req' = [req EXCEPT ![w] = [r EXCEPT !.todo = Tail(r.todo)]]
    /\ Overlap(w)
    /\ UNCHANGED <<work, baselines, assignments, crashes, guidanceVars>>

Finish(w) ==
    req' = [req EXCEPT ![w] = Idle] /\ Overlap(w) /\ UNCHANGED <<crashes, guidanceVars>>

\* A request whose only transaction ends where it begins.
AtOnce(w) ==
    req[w] = Idle /\ Overlap(w) /\ UNCHANGED <<crashes, guidanceVars, req>>

----------------------------------------------------------------------------
(* The catalog.                                                            *)

\* create_catalog_item: no assessment item comes with it.
CreateCatalogItem(w, r) ==
    /\ r \in Custom
    /\ catalog[r] = NoRow
    /\ AtOnce(w)
    /\ catalog' = [catalog EXCEPT ![r] = [custom |-> TRUE, discontinued |-> FALSE]]
    /\ UNCHANGED <<items, assessment, baselines, assignments>>

BeginAdopt(w, s) ==
    Begin(w, [Request("adopt", <<>>) EXCEPT !.seed = s, !.known = catalog])

\* Fault: what the release leaves out stays as it is.
Additive(row, loaded, r, s) ==
    IF loaded = NoRow THEN [custom |-> FALSE, discontinued |-> FALSE] ELSE row

\* A catalog item as adopting release s leaves it.
Adopted(row, loaded, r, s) ==
    IF loaded = NoRow THEN [custom |-> FALSE, discontinued |-> FALSE]
    ELSE IF r \in SeedRefs[s]
    THEN [row EXCEPT !.discontinued = Column(@, loaded.discontinued, FALSE)]
    ELSE IF ~loaded.custom
    THEN [row EXCEPT !.discontinued = Column(@, loaded.discontinued, TRUE)]
    ELSE row

\* The rows an adoption inserts.
Missing(q) == {r \in SeedRefs[q.seed] : q.known[r] = NoRow}

\* The unique key on (tenant_id, ref_code) refuses an item added meanwhile, and
\* the one on (tenant_id) an assessment.
CommitAdopt(w) ==
    /\ Serving(w, "adopt")
    /\ LET q == req[w]
       IN  /\ \A r \in Missing(q) : catalog[r] = NoRow
           /\ catalog' = [r \in Refs |->
                  IF r \in Missing(q) \/ q.known[r] # NoRow
                  THEN Adopted(catalog[r], q.known[r], r, q.seed) ELSE catalog[r]]
           /\ items' = [r \in Refs |->
                  IF items[r] = NoRow /\ catalog'[r] # NoRow /\ ~catalog'[r].discontinued
                  THEN [status |-> "not_filled", justified |-> FALSE] ELSE items[r]]
           /\ assessment' = IF assessment = NoRow
                  THEN [draft |-> "draft", seed |-> q.seed, current |-> 0]
                  ELSE [assessment EXCEPT !.seed = q.seed]
    /\ Finish(w)
    /\ UNCHANGED <<baselines, assignments>>

\* The unique key on ref codes refuses the insert (409).
RefuseAdopt(w) ==
    /\ Serving(w, "adopt")
    /\ \E r \in Missing(req[w]) : catalog[r] # NoRow
    /\ Finish(w)
    /\ UNCHANGED <<work, assessment, baselines, assignments>>

----------------------------------------------------------------------------
(* The assessment.                                                         *)

\* Fault: a field that is not sent is cleared.
Overwritten(old, status, justified) == [status |-> status, justified |-> justified]

\* A field that is not sent (NoRow) stays.
Merged(old, status, justified) ==
    [status |-> IF status = NoRow THEN old.status ELSE status,
     justified |-> IF justified = NoRow THEN old.justified ELSE justified]

\* update_assessment_item; the justification may be sent empty.
BeginEdit(w, r, status, justified) ==
    /\ items[r] # NoRow
    /\ LET old == items[r]
           new == Merged(old, status, justified)
       IN  /\ new.status = "not_applicable" => justified = TRUE \/ old.justified
           /\ Begin(w, [Request("edit", <<>>) EXCEPT !.ref = r, !.loaded = old, !.row = new])

CommitEdit(w) ==
    /\ Serving(w, "edit")
    /\ LET q == req[w]
       IN  items' = [items EXCEPT ![q.ref] =
               [c \in {"status", "justified"} |-> Column(@[c], q.loaded[c], q.row[c])]]
    /\ Finish(w)
    /\ UNCHANGED <<catalog, assessment, baselines, assignments>>

\* cds.submit_review.
SubmitReview(w) ==
    /\ assessment # NoRow
    /\ assessment.draft = "draft"
    /\ AtOnce(w)
    /\ assessment' = [assessment EXCEPT !.draft = "in_review"]
    /\ UNCHANGED <<work, baselines, assignments>>

BeginApprove(w) ==
    /\ assessment # NoRow
    /\ assessment.draft = "in_review"
    /\ Len(baselines) < MaxBaselines
    /\ Begin(w, Request("approve", <<"read", "count">>))

----------------------------------------------------------------------------
(* Assignments.                                                            *)

CreateAssignment(w, a) ==
    /\ assessment # NoRow
    /\ assignments[a] = NoRow
    /\ AtOnce(w)
    /\ assignments' = [assignments EXCEPT ![a] = "pending"]
    /\ UNCHANGED <<work, assessment, baselines>>

BeginMove(w, a, to) ==
    Begin(w, [Request("move", <<>>) EXCEPT !.assignment = a, !.to = to])

Claim(w, a) == assignments[a] = "pending" /\ BeginMove(w, a, "in_progress")

Submit(w, a) == assignments[a] = "in_progress" /\ BeginMove(w, a, "submitted")

CancelAssignment(w, a) ==
    assignments[a] \in {"pending", "in_progress"} /\ BeginMove(w, a, "cancelled")

CommitMove(w) ==
    /\ Serving(w, "move")
    /\ assignments' = [assignments EXCEPT ![req[w].assignment] = req[w].to]
    /\ Finish(w)
    /\ UNCHANGED <<work, assessment, baselines>>

\* Fault: a signed assignment may be signed again.
SubmittedOrSigned(a) == assignments[a] \in {"submitted", "signed"}

MaySign(a) == assignments[a] = "submitted"

BeginSign(w, a) ==
    /\ MaySign(a)
    /\ Begin(w, [Request("sign", <<"read", "review", "count">>) EXCEPT !.assignment = a])

\* The items in a snapshot: all of an item in _signed_content, all but its
\* justification in approve_baseline.
Snapshot(op) ==
    [r \in Refs |-> IF op = "approve" /\ items[r] # NoRow
                    THEN [items[r] EXCEPT !.justified = NoRow] ELSE items[r]]

\* The assessment is loaded, then its content.
ReadContent(w) ==
    /\ NextTodo(w, "read")
    /\ Advance(w, [req[w] EXCEPT !.seen = Snapshot(req[w].op), !.draft = assessment.draft])
    /\ UNCHANGED assessment

\* Fault: a review that is pending refuses the signature.
ReviewOnce(draft) == draft # "in_review"

\* A review that is pending is taken over.
MayReview(draft) == draft \in {"draft", "in_review"}

SignedBy(q) ==
    [a \in Assignments |-> IF a = q.assignment THEN "signed" ELSE assignments[a]]

\* Fault: the assignment is marked before the review is committed.
MarkedEarly(q) == SignedBy(q)

\* The assignment is marked after the review is committed.
AtReview(q) == assignments

\* Signing submits the assessment for review if it is not, and commits that.
EnsureReview(w) ==
    /\ NextTodo(w, "review")
    /\ MayReview(req[w].draft)
    /\ req' = [req EXCEPT ![w].todo = Tail(@)]
    /\ Overlap(w)
    /\ UNCHANGED <<work, baselines, crashes, guidanceVars>>
    /\ assignments' = AtReview(req[w])
    /\ assessment' = [assessment EXCEPT !.draft = Column(@, req[w].draft, "in_review")]

\* Fault: numbers start again at each signature.
NumberOfContent ==
    1 + Cardinality({b \in DOMAIN baselines : baselines[b].content = Snapshot("sign")})

NextNumber == Len(baselines) + 1

CountBaselines(w) ==
    /\ NextTodo(w, "count")
    /\ Advance(w, [req[w] EXCEPT !.number = NextNumber])
    /\ UNCHANGED assessment

\* Fault: what is sealed is what had been filled in.
FilledIn(q) ==
    [r \in Refs |-> IF q.seen[r] # NoRow /\ q.seen[r].status = "not_filled"
                    THEN NoRow ELSE q.seen[r]]

Sealed(q) == q.seen

\* cds.approve_document, with the signature if there is one.
CommitBaseline(w) ==
    /\ Ready(w, "sign") \/ Ready(w, "approve")
    /\ LET q == req[w]
       IN  /\ baselines' = Append(baselines,
                  [number |-> q.number, content |-> Sealed(q), by |-> q.assignment])
           /\ assignments' = SignedBy(q)
    /\ assessment' = [assessment EXCEPT !.draft = "draft", !.current = Len(baselines')]
    /\ Finish(w)
    /\ UNCHANGED work

\* The process dies in the middle of a request.
Crash(w) ==
    /\ req[w] # Idle
    /\ crashes < MaxCrashes
    /\ crashes' = crashes + 1
    /\ req' = [req EXCEPT ![w] = Idle]
    /\ UNCHANGED <<work, assessment, baselines, assignments, guidanceVars, overlapped>>

Apart == UNCHANGED <<work, assessment, baselines, assignments, crashes>>

\* A request that has begun goes on.
Proceed(w) ==
    \/ CommitGuidance(w) /\ Apart
    \/ CommitAdopt(w) \/ RefuseAdopt(w) \/ CommitEdit(w) \/ CommitMove(w)
    \/ ReadContent(w) \/ EnsureReview(w) \/ CountBaselines(w) \/ CommitBaseline(w)

Next ==
    \E w \in Workers :
        \/ \E r \in Refs :
               \/ CreateCatalogItem(w, r)
               \/ \E status \in Statuses \cup {NoRow}, justified \in BOOLEAN \cup {NoRow} :
                      BeginEdit(w, r, status, justified)
        \/ \E s \in Releases : BeginAdopt(w, s)
        \/ SubmitReview(w) \/ BeginApprove(w)
        \/ \E a \in Assignments :
               \/ CreateAssignment(w, a) \/ BeginSign(w, a)
               \/ Claim(w, a) \/ Submit(w, a) \/ CancelAssignment(w, a)
        \/ BeginGuidance(w) /\ Apart
        \/ Proceed(w) \/ Crash(w)

Spec == Init /\ [][Next]_vars

\* Requests that have begun are served, and whoever is to sign tries again.
Fairness ==
    /\ \A w \in Workers : WF_vars(Proceed(w))
    /\ \A a \in Assignments : SF_vars(\E w \in Workers : BeginSign(w, a))

FairSpec == Spec /\ Fairness

----------------------------------------------------------------------------
(* Properties.                                                             *)

\* Serially the catalog follows the adopted release through any sequence of
\* adoptions: its items are active, those of other releases are not, unless
\* the organization had added the item itself.
CatalogFollowsSeed ==
    Serial /\ assessment # NoRow =>
        \A r \in Seeded :
            catalog[r] # NoRow /\ ~catalog[r].discontinued <=>
                \/ r \in SeedRefs[assessment.seed]
                \/ catalog[r] # NoRow /\ catalog[r].custom

\* Whatever overlaps, whoever signed an assignment left a baseline.
SignedHasBaseline ==
    \A a \in Assignments : assignments[a] = "signed" =>
        \E b \in DOMAIN baselines : baselines[b].by = a

\* Serially an assignment is signed once, and none that left a baseline has
\* any other status than signed.
SignedOnce ==
    Serial =>
        \A b \in DOMAIN baselines : baselines[b].by # NoRow =>
            /\ assignments[baselines[b].by] = "signed"
            /\ \A c \in DOMAIN baselines : baselines[c].by = baselines[b].by => c = b

\* Serially baselines are numbered in order and the last one is in force.
BaselinesInOrder ==
    Serial =>
        /\ \A b \in DOMAIN baselines : baselines[b].number = b
        /\ assessment # NoRow => assessment.current = Len(baselines)

\* The baseline has the status of every item, and the justifications just when
\* it was signed.
Tells(b) ==
    \A r \in Refs :
        IF items[r] = NoRow THEN b.content[r] = NoRow
        ELSE /\ b.content[r] # NoRow
             /\ b.content[r].status = items[r].status
             /\ b.content[r].justified = IF b.by = NoRow THEN NoRow ELSE items[r].justified

\* Serially a baseline tells of the items as they are when it is left, although
\* signing commits in between; an approved one leaves their justifications out.
SealsTheAssessment ==
    [][Len(baselines') > Len(baselines) /\ ~overlapped' => Tells(Last(baselines'))]_vars

\* A submitted assignment does not wait for ever: it is signed (or an
\* overlapping move takes it back), even if a crash or another approval left
\* the assessment in or out of review half way.
SubmittedGetsSigned ==
    \A a \in Assignments : assignments[a] = "submitted" ~> assignments[a] # "submitted"

\* Assignments, baselines and the assessment's pointer tell one story.
BaselinesAreSigned ==
    /\ TypeOK
    /\ SignedHasBaseline
    /\ SignedOnce
    /\ BaselinesInOrder

=============================================================================
