------------------------ MODULE ControlledDocuments ------------------------
(***************************************************************************)
(* The controlled documents: an artifact that is edited, submitted for     *)
(* review and approved, and the immutable versions its approvals leave.    *)
(* One artifact of one organization is followed; its kind is chosen at the *)
(* start: the context analysis, the stakeholder map, the scope statement,  *)
(* the report of an internal audit, the minutes of a management review.    *)
(* All share controlled_document_service; they differ in what is edited,   *)
(* in the gate of the approval and in when the snapshot is read.           *)
(*                                                                         *)
(* A handler works on the artifact it loaded, queries the rows below it    *)
(* when it needs them, and commits once: an UPDATE writes the columns that *)
(* differ from the loaded ones.                                            *)
(***************************************************************************)
EXTENDS Integers, Sequences, FiniteSets, SequencesExt

CONSTANTS
    Workers,                    \* request threads
    Kinds,                      \* the kinds of document followed
    RowIds,                     \* ids of the rows below the artifact
    Texts,                      \* what the text columns may hold
    Levels, Natures,            \* values used of Level and IssueNature
    MaxVersions,                \* bound of the model: approvals
    NoRow, Idle                 \* no row; no request

VARIABLES
    kind,           \* which DocType the artifact is
    doc,            \* the artifact's row
    rows,           \* issues, stakeholders, scope items or checklist items
    versions,       \* document_versions of the artifact, in commit order
    logged,         \* approvals in the event trail
    submitted,      \* submissions for review so far (history)
    personalData,   \* what the diagnostic says
    overlapped,     \* two requests have been in flight at once (history)
    req             \* the request each thread is serving

trail == <<versions, logged, submitted>>
vars == <<kind, doc, rows, trail, personalData, overlapped, req>>

----------------------------------------------------------------------------
(* Data.                                                                   *)

DocTypes == {"context_analysis", "stakeholder_map", "scope_statement",
             "internal_audit_report", "management_review"}

ASSUME DocumentAssumption ==
    Kinds \subseteq DocTypes /\ MaxVersions \in Nat /\ "alto" \in Levels

Issues == [origin : {"internal", "external"}, framework : {"swot", "pestel"},
           nature : Natures]

Strategies == {"manage_closely", "keep_satisfied", "keep_informed", "monitor"}

Stakeholders == [power : Levels, interest : Levels, strategy : Strategies]

ScopeItems == {"inclusion", "exclusion"}

Results == {"pendente", "conforme"}     \* of a checklist item: open or decided

RowsOf(k) == CASE k = "context_analysis" -> Issues
               [] k = "stakeholder_map" -> Stakeholders
               [] k = "scope_statement" -> ScopeItems
               [] k = "internal_audit_report" -> Results
               [] OTHER -> {}

Minutes == [inputs : BOOLEAN, outputs : BOOLEAN]    \* filled in or not

Audits == {"planned", "in_progress", "completed", "cancelled"}

\* The artifact's own columns, as far as a guard or a snapshot reads them.
HeadsOf(k) == CASE k = "management_review" -> Minutes
                [] k = "internal_audit_report" -> Audits
                [] k = "stakeholder_map" -> {NoRow}
                [] OTHER -> Texts

Contents(k) == [head : HeadsOf(k), rows : [RowIds -> RowsOf(k) \cup {NoRow}]]

Versions(k) == [number : Nat, content : Contents(k)]

Artifacts(k) == [draft : {"draft", "in_review"}, current : Nat, head : HeadsOf(k)]

ASSUME NoRowAssumption == \A k \in Kinds : NoRow \notin Artifacts(k)

Stages == {"gate", "count", "snapshot"}

Requests(k) ==
    [op : {"edit", "patch", "submit", "approve", "log"},
     loaded : HeadsOf(k) \cup {NoRow}, head : HeadsOf(k), id : RowIds \cup {NoRow},
     old : RowsOf(k) \cup {NoRow}, new : RowsOf(k) \cup {NoRow},
     seen : [RowIds -> RowsOf(k) \cup {NoRow}],
     number : Nat, todo : Seq(Stages)]

NoRows == [r \in RowIds |-> NoRow]

\* The type invariant: every row keeps the type of its table, for each kind.
TypeOK ==
    /\ kind \in Kinds
    /\ doc \in Artifacts(kind) \cup {NoRow}
    /\ rows \in [RowIds -> RowsOf(kind) \cup {NoRow}]
    /\ versions \in Seq(Versions(kind))
    /\ logged \in Nat
    /\ submitted \in Nat
    /\ personalData \in BOOLEAN
    /\ overlapped \in BOOLEAN
    /\ req \in [Workers -> Requests(kind) \cup {Idle}]

Init ==
    /\ kind \in Kinds
    /\ doc = NoRow
    /\ rows = NoRows
    /\ versions = <<>>
    /\ logged = 0
    /\ submitted = 0
    /\ personalData = FALSE
    /\ overlapped = FALSE
    /\ req = [w \in Workers |-> Idle]

\* Has w's step another request of the same moment beside it?
Overlap(w) ==
    overlapped' = (overlapped \/ \E v \in Workers \ {w} : req[v] # Idle)

Serving(w, op) == req[w] # Idle /\ req[w].op = op

Ready(w, op) == Serving(w, op) /\ req[w].todo = <<>>

Answer(w) == req' = [req EXCEPT ![w] = Idle]

\* The handler answers an error; its transaction is rolled back.
Fail(w) ==
    /\ Answer(w)
    /\ UNCHANGED <<kind, doc, rows, trail, personalData, overlapped>>

\* The queries of a handler, in its order.  The minutes are read and gated on
\* the loaded row alone; the report's gate and snapshot are queries of their
\* own, made before cds counts the versions.
TodoOf(op) ==
    CASE op = "submit" /\ kind = "internal_audit_report" -> <<"gate">>
      [] op = "approve" /\ kind = "internal_audit_report" -> <<"gate", "snapshot", "count">>
      [] op = "approve" /\ kind = "management_review" -> <<"count">>
      [] op = "approve" /\ kind \notin {"internal_audit_report", "management_review"} ->
             <<"count", "snapshot">>
      [] OTHER -> <<>>

Request(op) ==
    [op |-> op, loaded |-> doc.head, head |-> doc.head, id |-> NoRow, old |-> NoRow,
     new |-> NoRow, seen |-> NoRows, number |-> 0, todo |-> TodoOf(op)]

Begin(w, r) ==
    /\ req[w] = Idle
    /\ req' = [req EXCEPT ![w] = r]
    /\ Overlap(w)
    /\ UNCHANGED <<kind, doc, rows, trail, personalData>>

\* One atomic request: its only transaction ends where it begins.
AtOnce(w) == req[w] = Idle /\ Overlap(w) /\ UNCHANGED <<kind, trail, req>>

\* What an UPDATE leaves in a column.
Column(current, loaded, new) == IF new = loaded THEN current ELSE new

Columns(current, loaded, new) ==
    [c \in DOMAIN new |-> Column(current[c], loaded[c], new[c])]

----------------------------------------------------------------------------
(* The artifact and its own columns.                                       *)

FirstHeads == CASE kind = "internal_audit_report" -> {"planned"}
                [] OTHER -> HeadsOf(kind)

\* _get_or_create, create_review, create_audit.
Create(w, head) ==
    /\ doc = NoRow
    /\ head \in FirstHeads
    /\ AtOnce(w)
    /\ doc' = [draft |-> "draft", current |-> 0, head |-> head]
    /\ UNCHANGED <<rows, personalData>>

\* The life of an audit: what _TRANSITIONS allows.
Transitions == {<<"planned", "in_progress">>, <<"in_progress", "completed">>,
                <<"planned", "cancelled">>, <<"in_progress", "cancelled">>}

BeginEdit(w, head) ==
    /\ doc # NoRow
    /\ Begin(w, [Request("edit") EXCEPT !.head = head])

UpdateAnalysis(w, text) == kind = "context_analysis" /\ BeginEdit(w, text)

UpdateScope(w, text) == kind = "scope_statement" /\ BeginEdit(w, text)

UpdateReview(w, minutes) == kind = "management_review" /\ BeginEdit(w, minutes)

TransitionAudit(w, to) ==
    /\ kind = "internal_audit_report"
    /\ doc # NoRow
    /\ <<doc.head, to>> \in Transitions
    /\ BeginEdit(w, to)

CommitEdit(w) ==
    /\ Serving(w, "edit")
    /\ LET r == req[w]
       IN  doc' = [doc EXCEPT !.head =
               IF kind = "management_review" THEN Columns(@, r.loaded, r.head)
               ELSE Column(@, r.loaded, r.head)]
    /\ Answer(w)
    /\ Overlap(w)
    /\ UNCHANGED <<kind, rows, trail, personalData>>

----------------------------------------------------------------------------
(* The rows below the artifact.                                            *)

Allowed(origin, framework, nature) ==
    /\ framework = "pestel" =>
           origin = "external" /\ nature \notin {"strength", "weakness"}
    /\ framework = "swot" =>
           /\ nature \in {"strength", "weakness"} => origin = "internal"
           /\ nature \in {"opportunity", "threat"} <=> origin = "external"

\* derive_strategy.
Strategy(power, interest) ==
    CASE power = "alto" /\ interest = "alto" -> "manage_closely"
      [] power = "alto" /\ interest # "alto" -> "keep_satisfied"
      [] power # "alto" /\ interest = "alto" -> "keep_informed"
      [] OTHER -> "monitor"

\* A fresh id: none that a row or a request has.
Fresh(id) ==
    /\ rows[id] = NoRow
    /\ \A w \in Workers : req[w] # Idle => req[w].id # id

InsertRow(w, id, row) ==
    /\ doc # NoRow
    /\ Fresh(id)
    /\ AtOnce(w)
    /\ rows' = [rows EXCEPT ![id] = row]
    /\ UNCHANGED <<doc, personalData>>

CreateIssue(w, id, issue) ==
    /\ kind = "context_analysis"
    /\ Allowed(issue.origin, issue.framework, issue.nature)
    /\ InsertRow(w, id, issue)

\* A stakeholder as create_stakeholder inserts it.
NewStakeholders == {s \in Stakeholders : s.strategy = Strategy(s.power, s.interest)}

CreateStakeholder(w, id, stakeholder) ==
    /\ kind = "stakeholder_map"
    /\ stakeholder \in NewStakeholders
    /\ InsertRow(w, id, stakeholder)

CreateItem(w, id, item) == kind = "scope_statement" /\ InsertRow(w, id, item)

AddChecklistItem(w, id, result) ==
    kind = "internal_audit_report" /\ InsertRow(w, id, result)

\* Items of the statement of applicability, or of the gap, in one go.
ImportChecklist(w, ids) ==
    /\ kind = "internal_audit_report"
    /\ doc # NoRow
    /\ \A id \in ids : Fresh(id)
    /\ AtOnce(w)
    /\ rows' = [id \in RowIds |-> IF id \in ids THEN "pendente" ELSE rows[id]]
    /\ UNCHANGED <<doc, personalData>>

\* What the diagnostic suggests: ANPD, and the data subjects.
Suggestions ==
    {s \in NewStakeholders : {s.power, s.interest} = {"alto", "medio"}}

SaveDiagnostic(w, says) ==
    /\ kind = "stakeholder_map"
    /\ AtOnce(w)
    /\ personalData' = says
    /\ UNCHANGED <<doc, rows>>

\* accept_suggestion: creates the map if there is none; may be repeated.
AcceptSuggestion(w, id, row) ==
    /\ kind = "stakeholder_map"
    /\ personalData
    /\ Fresh(id)
    /\ row \in Suggestions
    /\ AtOnce(w)
    /\ doc' = IF doc = NoRow
              THEN [draft |-> "draft", current |-> 0, head |-> NoRow] ELSE doc
    /\ rows' = [rows EXCEPT ![id] = row]
    /\ UNCHANGED personalData

DeleteRow(w, id) ==
    /\ rows[id] # NoRow
    /\ AtOnce(w)
    /\ rows' = [rows EXCEPT ![id] = NoRow]
    /\ UNCHANGED <<doc, personalData>>

DeleteIssue(w, id) == kind = "context_analysis" /\ DeleteRow(w, id)

DeleteStakeholder(w, id) == kind = "stakeholder_map" /\ DeleteRow(w, id)

\* The row as loaded, with the fields of the payload set.
Patched(row, fields, value) ==
    [f \in DOMAIN row |-> IF f \in fields THEN value[f] ELSE row[f]]

BeginPatch(w, id, new) ==
    /\ rows[id] # NoRow
    /\ Begin(w, [Request("patch") EXCEPT !.id = id, !.old = rows[id], !.new = new])

\* Fault: the payload is validated alone, as if it named every field.
AllowedAlone(new, fields) ==
    Allowed(IF "origin" \in fields THEN new.origin ELSE "external",
            IF "framework" \in fields THEN new.framework ELSE "pestel", "contextual")

\* _validate_issue of a payload completed with the loaded origin and
\* framework, but not with the loaded nature.
AllowedPatch(new, fields) ==
    Allowed(new.origin, new.framework,
            IF "nature" \in fields THEN new.nature ELSE "contextual")

UpdateIssue(w, id, fields, value) ==
    /\ kind = "context_analysis"
    /\ rows[id] # NoRow
    /\ LET new == Patched(rows[id], fields, value)
       IN  /\ AllowedPatch(new, fields)
           /\ BeginPatch(w, id, new)

\* Fault: the strategy is derived again only when the power is sent.
DerivedFromPower(new, fields) ==
    IF "power" \in fields
    THEN [new EXCEPT !.strategy = Strategy(new.power, new.interest)] ELSE new

\* Fault: the strategy of the payload is stored; it never has one.
Underived(new, fields) == [new EXCEPT !.strategy = NoRow]

Derived(new, fields) == [new EXCEPT !.strategy = Strategy(new.power, new.interest)]

UpdateStakeholder(w, id, fields, value) ==
    /\ kind = "stakeholder_map"
    /\ rows[id] # NoRow
    /\ BeginPatch(w, id, Derived(Patched(rows[id], fields, value), fields))

UpdateChecklistItem(w, id, result) ==
    /\ kind = "internal_audit_report"
    /\ result \in Results
    /\ BeginPatch(w, id, result)

\* The UPDATE of a row somebody deleted meanwhile fails.
CommitPatch(w) ==
    /\ Serving(w, "patch")
    /\ LET r == req[w]
       IN  rows' = IF rows[r.id] = NoRow THEN rows
                   ELSE [rows EXCEPT ![r.id] =
                            IF kind = "internal_audit_report"
                            THEN Column(@, r.old, r.new) ELSE Columns(@, r.old, r.new)]
    /\ Answer(w)
    /\ Overlap(w)
    /\ UNCHANGED <<kind, doc, trail, personalData>>

----------------------------------------------------------------------------
(* Review and approval.                                                    *)

\* Fault: half of the minutes will do.
HalfComplete(head) ==
    kind = "management_review" => head.inputs \/ head.outputs

\* is_complete of the minutes; the audit is completed.
HeadComplete(head) ==
    /\ kind = "management_review" => head.inputs /\ head.outputs
    /\ kind = "internal_audit_report" => head = "completed"

\* Fault: an item whose result is open does not hold the report back.
AnyResult(items) == TRUE

\* pending_items is 0.
NothingPending(items) == \A id \in RowIds : items[id] # "pendente"

BeginSubmit(w) ==
    /\ doc # NoRow
    /\ doc.draft # "in_review"
    /\ HeadComplete(doc.head)
    /\ Begin(w, Request("submit"))

CommitSubmit(w) ==
    /\ Ready(w, "submit")
    /\ doc' = [doc EXCEPT !.draft = "in_review"]
    /\ submitted' = submitted + 1
    /\ Answer(w)
    /\ Overlap(w)
    /\ UNCHANGED <<kind, rows, versions, logged, personalData>>

\* Fault: an artifact that was ever submitted may be approved.
OnceSubmitted == submitted > 0

InReview == doc.draft = "in_review"

\* The gate on the minutes is repeated here: they may have been emptied since
\* they were submitted.
BeginApprove(w) ==
    /\ doc # NoRow
    /\ Len(versions) < MaxVersions
    /\ InReview
    /\ HeadComplete(doc.head)
    /\ Begin(w, Request("approve"))

NextTodo(w, stage) ==
    req[w] # Idle /\ req[w].todo # <<>> /\ Head(req[w].todo) = stage

Advance(w, r) ==
    /\ req' = [req EXCEPT ![w] = [r EXCEPT !.todo = Tail(@)]]
    /\ Overlap(w)
    /\ UNCHANGED <<kind, doc, rows, trail, personalData>>

\* _ensure_gate of the report.
PassGate(w) ==
    /\ NextTodo(w, "gate")
    /\ IF NothingPending(rows) THEN Advance(w, req[w]) ELSE Fail(w)

\* Fault: numbers start again from the number in force.
NumberInForce == IF doc.current = 0 THEN 1 ELSE versions[doc.current].number

\* count() + 1 over what is committed; no key makes it unique.
NextNumber == Len(versions) + 1

CountVersions(w) ==
    /\ NextTodo(w, "count")
    /\ Advance(w, [req[w] EXCEPT !.number = NextNumber])

\* snapshot_factory, or the report's build_snapshot: the rows are queried now.
TakeSnapshot(w) ==
    /\ NextTodo(w, "snapshot")
    /\ Advance(w, [req[w] EXCEPT !.seen = rows])

\* Fault: the snapshot keeps what was loaded of the rows before: nothing.
ContentOfHead(r) == [head |-> r.loaded, rows |-> NoRows]

\* What the version seals: the loaded columns and the rows as queried.
Content(r) == [head |-> r.loaded, rows |-> r.seen]

CommitApprove(w) ==
    /\ Ready(w, "approve")
    /\ versions' = Append(versions,
           [number |-> req[w].number, content |-> Content(req[w])])
    /\ doc' = [doc EXCEPT !.draft = "draft", !.current = Len(versions')]
    /\ req' = [req EXCEPT ![w] = Request("log")]
    /\ Overlap(w)
    /\ UNCHANGED <<kind, rows, logged, submitted, personalData>>

\* Fault: the event is written whenever approval is asked for.
LogsAt == {"approve", "log"}

\* The event has a transaction of its own, after the version's.
LogsAfter == {"log"}

LogApproval(w) ==
    /\ req[w] # Idle
    /\ req[w].op \in LogsAfter
    /\ logged' = logged + 1
    /\ Answer(w)
    /\ Overlap(w)
    /\ UNCHANGED <<kind, doc, rows, versions, submitted, personalData>>

\* The process dies in the middle of a request.
Crash(w) == req[w] # Idle /\ Fail(w)

IssueFields == SUBSET {"origin", "framework", "nature"}
StakeholderFields == SUBSET {"power", "interest"}

Next ==
    \E w \in Workers :
        \/ \E head \in HeadsOf(kind) :
               \/ Create(w, head)
               \/ UpdateAnalysis(w, head) \/ UpdateScope(w, head)
               \/ UpdateReview(w, head) \/ TransitionAudit(w, head)
        \/ \E ids \in SUBSET RowIds : ImportChecklist(w, ids)
        \/ \E id \in RowIds :
               \/ \E row \in RowsOf(kind) :
                      \/ CreateIssue(w, id, row) \/ CreateStakeholder(w, id, row)
                      \/ CreateItem(w, id, row) \/ AddChecklistItem(w, id, row)
                      \/ AcceptSuggestion(w, id, row)
               \/ DeleteIssue(w, id) \/ DeleteStakeholder(w, id)
               \/ \E fields \in IssueFields, value \in Issues :
                      UpdateIssue(w, id, fields, value)
               \/ \E fields \in StakeholderFields, value \in Stakeholders :
                      UpdateStakeholder(w, id, fields, value)
               \/ \E result \in Results : UpdateChecklistItem(w, id, result)
        \/ \E says \in BOOLEAN : SaveDiagnostic(w, says)
        \/ BeginSubmit(w) \/ BeginApprove(w)
        \/ PassGate(w) \/ CountVersions(w) \/ TakeSnapshot(w)
        \/ CommitEdit(w) \/ CommitPatch(w) \/ CommitSubmit(w) \/ CommitApprove(w)
        \/ LogApproval(w) \/ Crash(w)

Spec == Init /\ [][Next]_vars

----------------------------------------------------------------------------
(* Properties.  Serial: as long as no two requests have been in flight     *)
(* together; two overlapping ones may break the property (README).         *)

Serial == ~overlapped

\* However edits, submissions and approvals interleave, minutes are only ever
\* approved with inputs and outputs filled in: gate and snapshot read the
\* same loaded row.
MinutesComplete ==
    kind = "management_review" =>
        \A v \in DOMAIN versions :
            LET head == versions[v].content.head IN head.inputs /\ head.outputs

\* Serially, no approved report holds an open checklist item, although items
\* may be added and reopened after completion and after the submission.
ReportsComplete ==
    Serial /\ kind = "internal_audit_report" =>
        \A v \in DOMAIN versions :
            /\ versions[v].content.head = "completed"
            /\ \A id \in RowIds : versions[v].content.rows[id] # "pendente"

\* is_superseded: a newer number exists.
Superseded(v) == \E u \in DOMAIN versions : versions[u].number > versions[v].number

\* Serially the version in force is never reported superseded and every other
\* one is: the pointer and the numbers tell the same story.
CurrentIsLatest ==
    Serial /\ doc # NoRow =>
        \A v \in DOMAIN versions : Superseded(v) <=> v # doc.current

\* Serially each version answers a submission of its own: nothing is approved
\* twice for one review.
OneReviewPerVersion ==
    Serial /\ doc # NoRow =>
        submitted = Len(versions) + (IF doc.draft = "in_review" THEN 1 ELSE 0)

\* Serially what is sealed is what the artifact showed when it was sealed,
\* columns and rows of one moment.
SealsTheArtifact ==
    [][Len(versions') > Len(versions) /\ ~overlapped' =>
          Last(versions').content = [head |-> doc.head, rows |-> rows]]_vars

\* Serially a stakeholder's strategy is the one derived from its power and
\* interest, in the map and in every version of it.
StrategyDerived ==
    Serial /\ kind = "stakeholder_map" =>
        \A held \in {rows} \cup {versions[v].content.rows : v \in DOMAIN versions} :
            \A id \in RowIds : held[id] # NoRow =>
                held[id].strategy = Strategy(held[id].power, held[id].interest)

\* Serially PESTEL issues stay external whatever sequence of partial updates
\* is made: each payload is completed with the row before it is validated.
PestelIsExternal ==
    Serial /\ kind = "context_analysis" =>
        \A id \in RowIds : rows[id] # NoRow =>
            (rows[id].framework = "pestel" => rows[id].origin = "external")

\* Through every interleaving and every crash an approval is in the trail only
\* when its version is committed; a crash may lose the event, never the version.
LoggedIsCommitted == logged <= Len(versions)

\* A gate holds of what is approved, not of what was submitted: of minutes in
\* every interleaving, of a report serially.
VersionsPassTheirGate == MinutesComplete /\ ReportsComplete

\* Columns that follow from others still do, through every sequence of partial
\* updates.
ColumnsAgree == StrategyDerived /\ PestelIsExternal

\* Draft status, pointer, numbers and trail of one document tell one story.
DocumentsAreSound ==
    /\ TypeOK
    /\ CurrentIsLatest
    /\ OneReviewPerVersion
    /\ LoggedIsCommitted

=============================================================================
