---------------------------- MODULE RiskTreatment ----------------------------
(***************************************************************************)
(* The risks of one organization: their evaluation by the methodology in   *)
(* use, which may change, their treatment by controls of the gap catalog,  *)
(* and the treatment plan, a controlled document.                          *)
(*                                                                         *)
(* A handler loads the rows it works on, and an UPDATE writes the columns  *)
(* that differ from the loaded ones.  The numbering of plan versions is    *)
(* ControlledDocuments's matter.                                           *)
(***************************************************************************)
EXTENDS RequestThreads, Integers, Sequences, SequencesExt

CONSTANTS
    Risks,          \* ids of risks
    Controls,       \* items of the gap catalog
    Scale,          \* levels of probability and of impact
    Methodologies,  \* configurations of the methodology
    Default,        \* the one in the code
    RiskLevels,         \* levels of risk
    Matrix,         \* the level of a probability and an impact
    CiaImpact,      \* the impacts that assets may give: cia_impact_map
    MaxPlans,       \* bound of the model: approved plans
    NoValue         \* null column, field not sent

VARIABLES
    methodology,    \* risk_methodology
    risks,          \* risk
    controls,       \* risk_treatment_control, those of the catalog
    plan,           \* risk_plan: its draft status and the version in force
    plans,          \* document_versions of the plan: what it covers
    overlapped      \* two requests have been in flight at once (history)

riskVars == <<methodology, risks, controls, plan, plans>>

ASSUME RiskAssumption ==
    /\ Default \in Methodologies
    /\ Matrix \in [Methodologies -> [Scale \X Scale -> RiskLevels]]
    /\ \A m \in Methodologies : NoValue \notin CiaImpact[m]
    /\ NoValue \notin Scale /\ NoValue \notin RiskLevels \cup BOOLEAN
    /\ MaxPlans \in Nat

----------------------------------------------------------------------------
(* Data.                                                                   *)

Status == {"identified", "assessed", "in_treatment", "accepted"}

Drafts == {"draft", "in_review"}

\* What a request may send.
Values == Scale \cup {NoValue}

\* The map of a methodology is not held to its scale.
Impacts == Values \cup UNION {CiaImpact[m] : m \in Methodologies}

RiskRows ==
    [status : Status, archived : BOOLEAN, owner : BOOLEAN,
     prob : Values, impact : Impacts, level : RiskLevels \cup {NoValue},
     rprob : Values, rimpact : Values, rlevel : RiskLevels \cup {NoValue}]

\* What a plan says of a risk it covers, and whether the risk then had a
\* probability and an impact (history).
Covered == [status : Status, rated : BOOLEAN]

PlanBodies == [Risks -> Covered \cup {NoRow}]

RiskRequests ==
    [op : {"risk"}, risk : Risks, loaded : RiskRows, row : RiskRows]
        \cup [op : {"methodology"}, to : Methodologies, loaded : [Risks -> RiskRows \cup {NoRow}]]
        \cup [op : {"plan"}, todo : {<<"gate", "read">>, <<"read">>, <<>>}, body : PlanBodies]

ASSUME NoRiskAssumption == NoRow \notin RiskRows \cup Covered

RiskTypeOK ==
    /\ methodology \in Methodologies
    /\ risks \in [Risks -> RiskRows \cup {NoRow}]
    /\ controls \in SUBSET (Risks \X Controls)
    /\ plan \in [draft : Drafts, current : 0 .. Len(plans)]
    /\ plans \in Seq(PlanBodies)

RiskInit ==
    /\ methodology = Default
    /\ risks = [r \in Risks |-> NoRow]
    /\ controls = {}
    /\ plan = [draft |-> "draft", current |-> 0]
    /\ plans = <<>>
    /\ overlapped = FALSE
    /\ req = [w \in Workers |-> Idle]

Overlap(w) ==
    overlapped' = (overlapped \/ \E v \in Workers \ {w} : req[v] # Idle)

Finish(w) == Answer(w) /\ Overlap(w)

\* A request whose only transaction ends where it begins.
AtOnce(w) == req[w] = Idle /\ Overlap(w) /\ UNCHANGED req

Begin(w, r) ==
    /\ req[w] = Idle
    /\ req' = [req EXCEPT ![w] = r]
    /\ Overlap(w)
    /\ UNCHANGED riskVars

\* Fault: the computed level is always written.
LevelAlways(current, loaded, new) ==
    [c \in DOMAIN current |->
        IF c = "level" THEN new[c] ELSE Column(current[c], loaded[c], new[c])]

\* An UPDATE of the row that was loaded.
Updated(current, loaded, new) ==
    [c \in DOMAIN current |-> Column(current[c], loaded[c], new[c])]

Sent(value, old) == IF value = NoValue THEN old ELSE value

----------------------------------------------------------------------------
(* Evaluation.                                                             *)

\* compute_level: none of what is missing, or off the scale.
LevelOf(m, prob, impact) ==
    IF <<prob, impact>> \in Scale \X Scale THEN Matrix[m][<<prob, impact>>] ELSE NoValue

NewRisk ==
    [status |-> "identified", archived |-> FALSE, owner |-> FALSE,
     prob |-> NoValue, impact |-> NoValue, level |-> NoValue,
     rprob |-> NoValue, rimpact |-> NoValue, rlevel |-> NoValue]

CreateRisk(w, r) ==
    /\ risks[r] = NoRow
    /\ AtOnce(w)
    /\ risks' = [risks EXCEPT ![r] = NewRisk]
    /\ UNCHANGED <<methodology, controls, plan, plans>>

\* A risk as evaluate_risk leaves it.
Evaluated(old, prob, impact, owner) ==
    LET p == Sent(prob, old.prob)
        i == Sent(impact, old.impact)
        o == Sent(owner, old.owner)
        assessed == NoValue \notin {p, i} /\ o /\ old.status = "identified"
    IN  [old EXCEPT !.prob = p, !.impact = i, !.owner = o,
                    !.level = LevelOf(methodology, p, i),
                    !.status = IF assessed THEN "assessed" ELSE @]

\* The impact is the one sent, or derived from the linked assets, whatever the
\* map in use gives for them.
EvaluateRisk(w, r, prob, impact, owner) ==
    /\ risks[r] # NoRow
    /\ impact \in Values \cup CiaImpact[methodology]
    /\ Begin(w, [op |-> "risk", risk |-> r, loaded |-> risks[r],
                 row |-> Evaluated(risks[r], prob, impact, owner)])

\* set_treatment: other options than acceptance start the treatment.
SetTreatment(w, r, rprob, rimpact, accepting) ==
    /\ risks[r] # NoRow
    /\ LET old == risks[r]
           p == Sent(rprob, old.rprob)
           i == Sent(rimpact, old.rimpact)
           starts == ~accepting /\ old.status = "assessed"
       IN  Begin(w, [op |-> "risk", risk |-> r, loaded |-> old,
                     row |-> [old EXCEPT !.rprob = p, !.rimpact = i,
                                         !.rlevel = LevelOf(methodology, p, i),
                                         !.status = IF starts THEN "in_treatment" ELSE @]])

\* accept_risk, whatever the status.
AcceptRisk(w, r) ==
    /\ risks[r] # NoRow
    /\ Begin(w, [op |-> "risk", risk |-> r, loaded |-> risks[r],
                 row |-> [risks[r] EXCEPT !.status = "accepted"]])

CommitRisk(w) ==
    /\ Serving(w, {"risk"})
    /\ LET q == req[w]
       IN  risks' = [risks EXCEPT ![q.risk] = Updated(@, q.loaded, q.row)]
    /\ Finish(w)
    /\ UNCHANGED <<methodology, controls, plan, plans>>

ArchiveRisk(w, r) ==
    /\ risks[r] # NoRow
    /\ AtOnce(w)
    /\ risks' = [risks EXCEPT ![r].archived = TRUE]
    /\ UNCHANGED <<methodology, controls, plan, plans>>

PutMethodology(w, m) ==
    Begin(w, [op |-> "methodology", to |-> m, loaded |-> risks])

\* A risk as recompute_all leaves it.
Recomputed(row, m) ==
    [row EXCEPT !.level = LevelOf(m, row.prob, row.impact),
                !.rlevel = LevelOf(m, row.rprob, row.rimpact)]

\* save_methodology and recompute_all, in one transaction.
CommitMethodology(w) ==
    /\ Serving(w, {"methodology"})
    /\ LET q == req[w]
       IN  /\ methodology' = q.to
           /\ risks' = [r \in Risks |->
                  IF q.loaded[r] = NoRow THEN risks[r]
                  ELSE Updated(risks[r], q.loaded[r], Recomputed(q.loaded[r], q.to))]
    /\ Finish(w)
    /\ UNCHANGED <<controls, plan, plans>>

----------------------------------------------------------------------------
(* Treatment.                                                              *)

AddControl(w, r, c) ==
    /\ risks[r] # NoRow
    /\ AtOnce(w)
    /\ controls' = controls \cup {<<r, c>>}
    /\ UNCHANGED <<methodology, risks, plan, plans>>

RemoveControl(w, r, c) ==
    /\ <<r, c>> \in controls
    /\ AtOnce(w)
    /\ controls' = controls \ {<<r, c>>}
    /\ UNCHANGED <<methodology, risks, plan, plans>>

Active == {r \in Risks : risks[r] # NoRow /\ ~risks[r].archived}

\* Fault: archived risks feed the statement too.
FeedOfAll(c) == {r \in Risks : <<r, c>> \in controls}

\* soa_feed: the risks treated by a control.
Feed(c) == {r \in Active : <<r, c>> \in controls}

SubmitPlan(w) ==
    /\ plan.draft = "draft"
    /\ AtOnce(w)
    /\ plan' = [plan EXCEPT !.draft = "in_review"]
    /\ UNCHANGED <<methodology, risks, controls, plans>>

\* The status is checked last, but on the row loaded here.
BeginApprovePlan(w) ==
    /\ plan.draft = "in_review"
    /\ Len(plans) < MaxPlans
    /\ Begin(w, [op |-> "plan", todo |-> <<"gate", "read">>, body |-> [r \in Risks |-> NoRow]])

\* Fault: one risk that has been evaluated will do.
AnyEvaluated == \E r \in Active : risks[r].status # "identified"

\* There are risks, and all of them have been evaluated.
PlanGate ==
    /\ Active # {}
    /\ \A r \in Active : risks[r].status # "identified"

GatePlan(w) ==
    /\ Serving(w, {"plan"})
    /\ req[w].todo = <<"gate", "read">>
    /\ Overlap(w)
    /\ req' = [req EXCEPT ![w] =
           IF PlanGate THEN [req[w] EXCEPT !.todo = <<"read">>] ELSE Idle]
    /\ UNCHANGED riskVars

Rated(row) == NoValue \notin {row.prob, row.impact}

\* _plan_body: the risks, as they are.
BodyNow ==
    [r \in Risks |->
        IF r \in Active THEN [status |-> risks[r].status, rated |-> Rated(risks[r])] ELSE NoRow]

\* The body is queried again.
ReadPlan(w) ==
    /\ Serving(w, {"plan"})
    /\ req[w].todo = <<"read">>
    /\ req' = [req EXCEPT ![w].todo = <<>>, ![w].body = BodyNow]
    /\ Overlap(w)
    /\ UNCHANGED riskVars

\* Fault: the version in force is the one that has just been superseded.
Superseded(versions) == Len(versions) - 2

InForce(versions) == Len(versions)

CommitPlan(w) ==
    /\ Serving(w, {"plan"})
    /\ req[w].todo = <<>>
    /\ plans' = Append(plans, req[w].body)
    /\ plan' = [draft |-> "draft", current |-> InForce(plans')]
    /\ Finish(w)
    /\ UNCHANGED <<methodology, risks, controls>>

RiskNext(w) ==
    \/ \E r \in Risks :
           \/ CreateRisk(w, r) \/ ArchiveRisk(w, r) \/ AcceptRisk(w, r)
           \/ \E p \in Values, i \in Impacts, o \in BOOLEAN \cup {NoValue} :
                  EvaluateRisk(w, r, p, i, o)
           \/ \E p, i \in Values, accepting \in BOOLEAN : SetTreatment(w, r, p, i, accepting)
           \/ \E c \in Controls : AddControl(w, r, c) \/ RemoveControl(w, r, c)
    \/ \E m \in Methodologies : PutMethodology(w, m)
    \/ SubmitPlan(w) \/ BeginApprovePlan(w)
    \/ CommitRisk(w) \/ CommitMethodology(w)
    \/ GatePlan(w) \/ ReadPlan(w) \/ CommitPlan(w)

----------------------------------------------------------------------------
(* Properties.  Serial: as long as no two requests have been in flight     *)
(* together; two overlapping ones may break the property (README).         *)

Serial == ~overlapped

\* Whatever overlaps, a risk that counts as assessed or in treatment has a
\* probability and an impact, and a risk with a level has what it is computed
\* from: a stale copy takes neither back.
AssessedIsRated ==
    \A r \in {s \in Risks : risks[s] # NoRow} :
        risks[r].status \in {"assessed", "in_treatment"} \/ risks[r].level # NoValue =>
            Rated(risks[r])

\* Serially every risk, archived or not, is classified by the methodology in
\* use, before and after treatment, however evaluations, treatments and
\* changes of methodology follow each other; an impact off the scale gives no
\* level, and the risk is assessed all the same.
LevelsFollowMethodology ==
    Serial =>
        \A r \in Risks : risks[r] # NoRow =>
            /\ risks[r].level = LevelOf(methodology, risks[r].prob, risks[r].impact)
            /\ risks[r].rlevel = LevelOf(methodology, risks[r].rprob, risks[r].rimpact)

\* Whatever overlaps, a plan gives as assessed or in treatment no risk without
\* a probability and an impact.  Serially it covers risks, and none is still
\* identified: one identified while the plan was in review keeps it from being
\* approved.  A risk that has been accepted may never have been evaluated.
PlansAreDecided ==
    \A v \in DOMAIN plans :
        /\ \A r \in Risks : plans[v][r] # NoRow =>
               (plans[v][r].status \in {"assessed", "in_treatment"} => plans[v][r].rated)
        /\ Serial => /\ \E r \in Risks : plans[v][r] # NoRow
                     /\ \A r \in Risks : plans[v][r] # NoRow =>
                            plans[v][r].status # "identified"

=============================================================================
