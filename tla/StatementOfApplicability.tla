----------------------- MODULE StatementOfApplicability -----------------------
(***************************************************************************)
(* The Statement of Applicability of one organization, consolidated from   *)
(* its gap assessment and from the controls that treat its risks, edited,  *)
(* reconciled with both where they diverge, and approved.                  *)
(*                                                                         *)
(* Of the fields copied from the assessment, applicability and the         *)
(* justification of an exclusion are kept; inclusion reasons other than    *)
(* risk treatment are one.                                                 *)
(***************************************************************************)
EXTENDS RiskTreatment

CONSTANTS MaxVersions   \* bound of the model: approved versions

VARIABLES
    gap,        \* gap_assessment_item of each control
    soa,        \* soa: its draft status and the version in force
    soaItems,   \* soa_item of each control
    versions    \* document_versions of the statement: their snapshots

soaVars == <<gap, soa, soaItems, versions>>
statementVars == <<riskVars, soaVars, overlapped, req>>

----------------------------------------------------------------------------
(* Data.                                                                   *)

GapRows == [applicable : BOOLEAN, justified : BOOLEAN]

Reasons == {"risk_treatment", "legal"}

SoaRows ==
    [applicable : BOOLEAN, reasons : SUBSET Reasons, justified : BOOLEAN,
     links : SUBSET Risks]

Statements == [Controls -> SoaRows \cup {NoRow}]

Assessments == [Controls -> GapRows \cup {NoRow}]

Feeds == [Controls -> SUBSET Risks]

Snapshots == [items : Statements, kind : {"pre_soa", "normative"}, plan : Nat]

Fields == {"applicable", "justified"}

SoaRequests ==
    [op : {"consolidate"}, todo : {<<"feed">>, <<>>}, gap : Assessments,
     items : Statements, feed : Feeds]
        \cup [op : {"reconcile"}, todo : {<<"feed">>, <<>>}, control : Controls,
              loaded : SoaRows, row : SoaRows, feed : Feeds, risk : BOOLEAN]
        \cup [op : {"item"}, control : Controls, loaded : SoaRows, row : SoaRows]
        \cup [op : {"soa"}, todo : {<<"read", "plan">>, <<"plan">>, <<>>}, snapshot : Snapshots]

ASSUME NoItemAssumption ==
    /\ NoRow \notin GapRows \cup SoaRows
    /\ Idle \notin RiskRequests \cup SoaRequests
    /\ MaxVersions \in Nat

\* The type invariant; the pointers to the versions in force are versions'.
SoaTypeOK ==
    /\ RiskTypeOK
    /\ gap \in Assessments
    /\ soa \in [draft : Drafts, current : 0 .. Len(versions)] \cup {NoRow}
    /\ soaItems \in Statements
    /\ versions \in Seq(Snapshots)
    /\ overlapped \in BOOLEAN
    /\ req \in [Workers -> RiskRequests \cup SoaRequests \cup {Idle}]

NoItems == [c \in Controls |-> NoRow]

NoFeed == [c \in Controls |-> {}]

SoaInit ==
    /\ RiskInit
    /\ gap = NoItems
    /\ soa = NoRow
    /\ soaItems = NoItems
    /\ versions = <<>>

----------------------------------------------------------------------------
(* Consolidation.                                                          *)

\* A control is adopted, and its assessment edited (GapAnalysis).
AssessGap(w, c, row) ==
    /\ AtOnce(w)
    /\ gap' = [gap EXCEPT ![c] = row]
    /\ UNCHANGED <<riskVars, soa, soaItems, versions>>

BeginConsolidate(w) ==
    /\ gap # NoItems
    /\ Begin(w, [op |-> "consolidate", todo |-> <<"feed">>, gap |-> gap,
                 items |-> soaItems, feed |-> NoFeed])
    /\ UNCHANGED soaVars

\* build_feed_index; consolidation reads it after the items.
ReadFeed(w) ==
    /\ Serving(w, {"consolidate", "reconcile"})
    /\ req[w].todo = <<"feed">>
    /\ req' = [req EXCEPT ![w].todo = <<>>, ![w].feed = [c \in Controls |-> Feed(c)]]
    /\ Overlap(w)
    /\ UNCHANGED <<riskVars, soaVars>>

\* The item that the assessment of a control makes.
FromGap(row) ==
    [applicable |-> row.applicable, reasons |-> {},
     justified |-> ~row.applicable /\ row.justified, links |-> {}]

\* An item that has never been included for risks is.
IncludedForRisks(item, feed) ==
    IF feed = {} \/ "risk_treatment" \in item.reasons \/ item.links # {} THEN item
    ELSE [item EXCEPT !.reasons = @ \cup {"risk_treatment"}, !.applicable = TRUE,
                      !.links = feed]

\* The items a consolidation inserts.
Added(q) == {c \in Controls : q.items[c] = NoRow /\ q.gap[c] # NoRow}

CommitConsolidate(w) ==
    /\ Serving(w, {"consolidate"})
    /\ req[w].todo = <<>>
    /\ LET q == req[w]
       IN  /\ \A c \in Added(q) : soaItems[c] = NoRow
           /\ soaItems' = [c \in Controls |->
                  CASE c \in Added(q) -> IncludedForRisks(FromGap(q.gap[c]), q.feed[c])
                    [] q.items[c] # NoRow ->
                           Updated(soaItems[c], q.items[c], IncludedForRisks(q.items[c], q.feed[c]))
                    [] OTHER -> soaItems[c]]
    /\ soa' = IF soa = NoRow THEN [draft |-> "draft", current |-> 0] ELSE soa
    /\ Finish(w)
    /\ UNCHANGED <<riskVars, gap, versions>>

\* The unique key on (soa_id, catalog_item_id) refuses the insert (409).
RefuseConsolidate(w) ==
    /\ Serving(w, {"consolidate"})
    /\ req[w].todo = <<>>
    /\ \E c \in Added(req[w]) : soaItems[c] # NoRow
    /\ Finish(w)
    /\ UNCHANGED <<riskVars, soaVars>>

----------------------------------------------------------------------------
(* Items.                                                                  *)

Complete(item) == IF item.applicable THEN item.reasons # {} ELSE item.justified

\* update_item: a field that is not sent is as loaded.
BeginItem(w, c, row) ==
    /\ soaItems[c] # NoRow
    /\ row.links = soaItems[c].links
    /\ Complete(row)
    /\ Begin(w, [op |-> "item", control |-> c, loaded |-> soaItems[c], row |-> row])
    /\ UNCHANGED soaVars

\* _reconcile_gap: the fields asked for that diverge take the assessment's value.
FromAssessment(item, row, fields) ==
    [item EXCEPT !.applicable = IF "applicable" \in fields THEN row.applicable ELSE @,
                 !.justified = IF "justified" \in fields THEN row.justified ELSE @]

BeginReconcile(w, c, fields, risk) ==
    /\ soaItems[c] # NoRow
    /\ fields # {} \/ risk
    /\ Begin(w, [op |-> "reconcile", todo |-> IF risk THEN <<"feed">> ELSE <<>>,
                 control |-> c, loaded |-> soaItems[c],
                 row |-> FromAssessment(soaItems[c], gap[c], fields),
                 feed |-> NoFeed, risk |-> risk])
    /\ UNCHANGED soaVars

\* compute_risk_divergence.
DivergesFromRisks(item, feed) ==
    IF feed # {}
    THEN ~item.applicable \/ "risk_treatment" \notin item.reasons \/ item.links # feed
    ELSE "risk_treatment" \in item.reasons

\* Fault: an item whose risks are gone loses every reason.
Cleared(item, feed) ==
    IF feed = {} THEN [item EXCEPT !.reasons = {}, !.links = {}]
    ELSE [item EXCEPT !.reasons = @ \cup {"risk_treatment"}, !.applicable = TRUE,
                      !.links = feed]

\* What _reconcile_risk makes of an item that diverges.
FromRisks(item, feed) ==
    IF feed = {} THEN [item EXCEPT !.reasons = @ \ {"risk_treatment"}, !.links = {}]
    ELSE [item EXCEPT !.reasons = @ \cup {"risk_treatment"}, !.applicable = TRUE,
                      !.links = feed]

CommitSoaItem(w) ==
    /\ Serving(w, {"item"}) \/ (Serving(w, {"reconcile"}) /\ req[w].todo = <<>>)
    /\ LET q == req[w]
           settles == q.op = "reconcile" /\ q.risk
                          /\ DivergesFromRisks(q.row, q.feed[q.control])
           row == IF settles THEN FromRisks(q.row, q.feed[q.control]) ELSE q.row
       IN  soaItems' = [soaItems EXCEPT ![q.control] = Updated(@, q.loaded, row)]
    /\ Finish(w)
    /\ UNCHANGED <<riskVars, gap, soa, versions>>

----------------------------------------------------------------------------
(* Versions.                                                               *)

\* cds.submit_review: what is in review may still be edited.
SubmitReview(w) ==
    /\ soa # NoRow
    /\ soa.draft = "draft"
    /\ AtOnce(w)
    /\ soa' = [soa EXCEPT !.draft = "in_review"]
    /\ UNCHANGED <<riskVars, gap, soaItems, versions>>

BeginApprove(w) ==
    /\ soa # NoRow
    /\ soa.draft = "in_review"
    /\ Len(versions) < MaxVersions
    /\ Begin(w, [op |-> "soa", todo |-> <<"read", "plan">>,
                 snapshot |-> [items |-> NoItems, kind |-> "pre_soa", plan |-> 0]])
    /\ UNCHANGED soaVars

\* Fault: exclusions are not looked at.
IncompleteInclusions(its) ==
    {c \in Controls : its[c] # NoRow /\ its[c].applicable /\ ~Complete(its[c])}

\* _incomplete_refs.
Incomplete(its) == {c \in Controls : its[c] # NoRow /\ ~Complete(its[c])}

\* The gate is on the items that will be sealed.
ReadItems(w) ==
    /\ Serving(w, {"soa"})
    /\ req[w].todo = <<"read", "plan">>
    /\ req' = [req EXCEPT ![w] =
           IF Incomplete(soaItems) = {}
           THEN [req[w] EXCEPT !.todo = <<"plan">>, !.snapshot.items = soaItems]
           ELSE Idle]
    /\ Overlap(w)
    /\ UNCHANGED <<riskVars, soaVars>>

\* Fault: a plan that is in review will do.
Submitted == plan.current # 0 \/ plan.draft = "in_review"

HasApprovedPlan == plan.current # 0

\* The statement is normative if there is an approved plan.
ReadPlanInForce(w) ==
    /\ Serving(w, {"soa"})
    /\ req[w].todo = <<"plan">>
    /\ req' = [req EXCEPT ![w] =
           [req[w] EXCEPT !.todo = <<>>,
                          !.snapshot.kind = IF HasApprovedPlan THEN "normative" ELSE "pre_soa",
                          !.snapshot.plan = plan.current]]
    /\ Overlap(w)
    /\ UNCHANGED <<riskVars, soaVars>>

\* cds.approve_document.
CommitVersion(w) ==
    /\ Serving(w, {"soa"})
    /\ req[w].todo = <<>>
    /\ versions' = Append(versions, req[w].snapshot)
    /\ soa' = [draft |-> "draft", current |-> Len(versions')]
    /\ Finish(w)
    /\ UNCHANGED <<riskVars, gap, soaItems>>

SoaNext ==
    \E w \in Workers :
        \/ RiskNext(w) /\ UNCHANGED soaVars
        \/ \E c \in Controls :
               \/ \E row \in GapRows : AssessGap(w, c, row)
               \/ \E row \in SoaRows : BeginItem(w, c, row)
               \/ \E fields \in SUBSET Fields, risk \in BOOLEAN :
                      BeginReconcile(w, c, fields, risk)
        \/ BeginConsolidate(w) \/ ReadFeed(w) \/ CommitConsolidate(w) \/ RefuseConsolidate(w)
        \/ CommitSoaItem(w)
        \/ SubmitReview(w) \/ BeginApprove(w) \/ ReadItems(w) \/ ReadPlanInForce(w)
        \/ CommitVersion(w)

SoaSpec == SoaInit /\ [][SoaNext]_statementVars

----------------------------------------------------------------------------
(* Properties.                                                             *)

\* Whatever overlaps, a version is complete, although items may be edited, and
\* reconciliation may leave them incomplete, while the statement is in review
\* and approved.
VersionsAreComplete ==
    \A v \in DOMAIN versions, c \in Controls :
        versions[v].items[c] # NoRow => Complete(versions[v].items[c])

\* Whatever overlaps, a version is normative exactly if it names an approved
\* plan of treatment.
NormativeIsBacked ==
    \A v \in DOMAIN versions :
        /\ versions[v].kind = "normative" <=> versions[v].plan # 0
        /\ versions[v].plan \in 0 .. Len(plans)

\* Serially consolidating and reconciling never take a reason that somebody
\* gave, and consolidating changes nothing of an item that carries risks.
DecisionsSurvive ==
    [][\A w \in Workers, c \in Controls :
          Serving(w, {"consolidate", "reconcile"}) /\ soaItems[c] # NoRow
                  /\ ~overlapped' =>
              /\ soaItems[c].reasons \ {"risk_treatment"} \subseteq soaItems'[c].reasons
              /\ Serving(w, {"consolidate"}) /\ soaItems[c].links # {} => soaItems'[c] = soaItems[c]]_statementVars

\* Serially an item that has been reconciled with the risks names exactly those
\* risks, archived ones left out, that its control treats.  If there are none,
\* treatment is no longer a reason, and the item names no risk either, unless a
\* person had taken the reason already: the risks it named are then left.
ReconciledWithRisks ==
    [][\A w \in Workers :
          Serving(w, {"reconcile"}) /\ req'[w] = Idle /\ req[w].risk /\ ~overlapped' =>
              LET old == soaItems[req[w].control]
                  item == soaItems'[req[w].control]
                  treated == {r \in Risks : /\ <<r, req[w].control>> \in controls
                                            /\ ~risks[r].archived}
              IN  IF treated # {}
                  THEN item.applicable /\ "risk_treatment" \in item.reasons
                           /\ item.links = treated
                  ELSE /\ "risk_treatment" \notin item.reasons
                       /\ item.links = IF "risk_treatment" \in old.reasons THEN {}
                                       ELSE old.links]_statementVars

\* Whatever overlaps, a level is only taken from a risk by a request that has
\* itself worked with an impact off the scale: one that did not know the level
\* of another request does not blank it.
LevelsAreKept ==
    [][\A r \in Risks :
          risks[r] # NoRow /\ risks[r].level # NoValue /\ risks'[r].level = NoValue =>
              \E w \in Workers :
                  /\ req'[w] = Idle
                  /\ \/ Serving(w, {"risk"}) /\ req[w].risk = r
                           /\ req[w].row.impact \notin Scale
                     \/ Serving(w, {"methodology"}) /\ req[w].loaded[r] # NoRow
                           /\ req[w].loaded[r].impact \notin Scale]_statementVars

\* What was approved, plan and statement, was complete when it was sealed,
\* whatever has become of risks and items since; the plan's risks were assessed
\* or accepted.
ApprovedIsComplete == PlansAreDecided /\ VersionsAreComplete /\ NormativeIsBacked

\* A risk has the level that the methodology in use gives it, and does not lose
\* it to a stale copy.
LevelsAreCurrent ==
    /\ [](SoaTypeOK /\ AssessedIsRated /\ LevelsFollowMethodology)
    /\ LevelsAreKept

=============================================================================
