--------------------------- MODULE Nonconformities ---------------------------
(***************************************************************************)
(* Findings of the internal audits, the nonconformities (NC) opened from   *)
(* them or by hand, their corrective actions and verifications, and the    *)
(* gate that closes an NC.  The records of improvements and of audits take *)
(* their codes the same way and appear here by their codes.                *)
(*                                                                         *)
(* A handler loads a row, queries what else it needs, and commits once;    *)
(* its UPDATE writes the columns that differ from the loaded ones.         *)
(***************************************************************************)
EXTENDS Integers, Sequences, FiniteSets, SequencesExt

CONSTANTS
    Workers,            \* request threads
    Findings,           \* ids of findings
    Actions,            \* ids of corrective actions
    FindingTypes,       \* values used of AuditFindingType
    OtherTables,        \* tables besides the NCs' that number their records
    MaxRecords,         \* bound of the model: records per table
    MaxVerifications,   \* bound of the model: verifications per NC
    NoRow, Idle         \* no row, no reference; no request

VARIABLES
    findings,       \* internal_audit_finding
    ncs,            \* nonconformity, in commit order
    others,         \* the codes of each other table, in commit order
    actions,        \* corrective_action
    verifications,  \* nonconformity_verification of each NC, by verified_at
    overlapped,     \* two requests have been in flight at once (history)
    req             \* the request each thread is serving

vars == <<findings, ncs, others, actions, verifications, overlapped, req>>

----------------------------------------------------------------------------
(* Data.                                                                   *)

\* PROMOTABLE_FINDING_TYPES.
Promotable == {"nc_maior", "nc_menor"}

NCTable == "nonconformity"

Tables == OtherTables \cup {NCTable}

ASSUME RegisterAssumption == NCTable \notin OtherTables /\ NoRow \notin Findings

FindingRows == [type : FindingTypes, promotable : BOOLEAN, active : BOOLEAN,
                ref : Nat]      \* index of the NC, 0: none

ASSUME NoRowAssumption == NoRow \notin FindingRows

NCStatus == {"open", "in_progress", "in_verification", "closed", "cancelled"}

NCRows == [code : Nat, source : Findings \cup {NoRow}, status : NCStatus]

ActionStatus == {"planned", "in_progress", "done", "cancelled"}

\* CORRECTIVE_ACTION_TERMINAL.
Terminal == {"done", "cancelled"}

ActionRows == [nc : Nat, status : ActionStatus]

VerificationResult == {"effective", "ineffective"}

\* _TRANSITIONS.
Transitions ==
    [start |-> {<<"open", "in_progress">>},
     send_verify |-> {<<"in_progress", "in_verification">>},
     close |-> {<<"in_verification", "closed">>},
     cancel |-> {"open", "in_progress", "in_verification"} \X {"cancelled"}]

Requests ==
    [op : {"edit_finding", "create", "promote", "transition", "edit_action"},
     finding : Findings \cup {NoRow}, table : Tables, nc : Nat,
     action : Actions \cup {NoRow}, old : FindingTypes \cup NCStatus \cup ActionStatus \cup {NoRow},
     new : FindingTypes \cup NCStatus \cup ActionStatus \cup {NoRow},
     code : Nat, todo : Seq({"count", "verified", "actions"})]

\* The type invariant; an NC in the trail of a request or of a row exists.
TypeOK ==
    /\ findings \in [Findings -> FindingRows \cup {NoRow}]
    /\ ncs \in Seq(NCRows)
    /\ others \in [OtherTables -> Seq(Nat)]
    /\ actions \in [Actions -> ActionRows \cup {NoRow}]
    /\ verifications \in Seq(Seq(VerificationResult))
    /\ Len(verifications) = Len(ncs)
    /\ overlapped \in BOOLEAN
    /\ req \in [Workers -> Requests \cup {Idle}]

Init ==
    /\ findings = [f \in Findings |-> NoRow]
    /\ ncs = <<>>
    /\ others = [t \in OtherTables |-> <<>>]
    /\ actions = [a \in Actions |-> NoRow]
    /\ verifications = <<>>
    /\ overlapped = FALSE
    /\ req = [w \in Workers |-> Idle]

Overlap(w) ==
    overlapped' = (overlapped \/ \E v \in Workers \ {w} : req[v] # Idle)

Serving(w, op) == req[w] # Idle /\ req[w].op = op

Ready(w, op) == Serving(w, op) /\ req[w].todo = <<>>

NextTodo(w, stage) ==
    req[w] # Idle /\ req[w].todo # <<>> /\ Head(req[w].todo) = stage

Request(op, todo) ==
    [op |-> op, finding |-> NoRow, table |-> NCTable, nc |-> 0, action |-> NoRow,
     old |-> NoRow, new |-> NoRow, code |-> 0, todo |-> todo]

Begin(w, r) ==
    /\ req[w] = Idle
    /\ req' = [req EXCEPT ![w] = r]
    /\ Overlap(w)
    /\ UNCHANGED <<findings, ncs, others, actions, verifications>>

Advance(w, r) ==
    /\ req' = [req EXCEPT ![w] = [r EXCEPT !.todo = Tail(@)]]
    /\ Overlap(w)
    /\ UNCHANGED <<findings, ncs, others, actions, verifications>>

Finish(w) == req' = [req EXCEPT ![w] = Idle] /\ Overlap(w)

\* An error response, or the death of the process: nothing is committed.
Fail(w) ==
    /\ req[w] # Idle
    /\ req' = [req EXCEPT ![w] = Idle]
    /\ UNCHANGED <<findings, ncs, others, actions, verifications, overlapped>>

\* A request whose only transaction ends where it begins.
AtOnce(w) == req[w] = Idle /\ Overlap(w) /\ UNCHANGED <<others, req>>

Column(current, loaded, new) == IF new = loaded THEN current ELSE new

----------------------------------------------------------------------------
(* Findings.                                                               *)

CreateFinding(w, f, type) ==
    /\ findings[f] = NoRow
    /\ AtOnce(w)
    /\ findings' = [findings EXCEPT ![f] =
           [type |-> type, promotable |-> type \in Promotable, active |-> TRUE, ref |-> 0]]
    /\ UNCHANGED <<ncs, actions, verifications>>

\* Fault: the flag is left as it was created.
PromotableOnce(row, r) == row.promotable

\* promotable as update_finding leaves it: set from the new type.
PromotableNow(row, r) ==
    Column(row.promotable, r.old \in Promotable, r.new \in Promotable)

\* get_finding: an inactive finding is not found.
BeginEditFinding(w, f, type) ==
    /\ findings[f] # NoRow
    /\ findings[f].active
    /\ Begin(w, [Request("edit_finding", <<>>) EXCEPT !.finding = f,
                     !.old = findings[f].type, !.new = type])

CommitEditFinding(w) ==
    /\ Serving(w, "edit_finding")
    /\ LET r == req[w]
           row == findings[r.finding]
       IN  findings' = [findings EXCEPT ![r.finding] =
               [row EXCEPT !.type = Column(row.type, r.old, r.new),
                           !.promotable = PromotableNow(row, r)]]
    /\ Finish(w)
    /\ UNCHANGED <<ncs, others, actions, verifications>>

InactivateFinding(w, f) ==
    /\ findings[f] # NoRow
    /\ findings[f].active
    /\ AtOnce(w)
    /\ findings' = [findings EXCEPT ![f].active = FALSE]
    /\ UNCHANGED <<ncs, actions, verifications>>

----------------------------------------------------------------------------
(* Records and their codes.                                                *)

CodesOf(t) ==
    IF t = NCTable THEN [n \in DOMAIN ncs |-> ncs[n].code] ELSE others[t]

\* create_nc, create_improvement, create_audit.
BeginCreate(w, t) ==
    /\ t \in Tables
    /\ Len(CodesOf(t)) < MaxRecords
    /\ Begin(w, [Request("create", <<"count">>) EXCEPT !.table = t])

\* Fault: a finding may be promoted again.
AnyFinding(row) == row.promotable

\* A finding that has its NC is answered with it; inactive ones are promoted too.
MayPromote(row) == row.promotable /\ row.ref = 0

BeginPromote(w, f) ==
    /\ findings[f] # NoRow
    /\ MayPromote(findings[f])
    /\ Len(ncs) < MaxRecords
    /\ Begin(w, [Request("promote", <<"count">>) EXCEPT !.finding = f])

\* _next_code: what is committed, plus one.
CountRecords(w) ==
    /\ NextTodo(w, "count")
    /\ Advance(w, [req[w] EXCEPT !.code = Len(CodesOf(req[w].table)) + 1])

\* Fault: the constraint is forgotten.
Unconstrained(t, code) == TRUE

\* The unique key on (tenant_id, code).
FreeCode(t, code) == \A n \in DOMAIN CodesOf(t) : CodesOf(t)[n] # code

\* Fault: the status is left to a default.
UnsetNC(code, f) == [code |-> code, source |-> f, status |-> NoRow]

NewNC(code, f) == [code |-> code, source |-> f, status |-> "open"]

\* The insert waits for one with the same code and is refused if it commits.
CommitCreate(w) ==
    /\ Ready(w, "create")
    /\ LET r == req[w]
       IN  /\ FreeCode(r.table, r.code)
           /\ IF r.table = NCTable
              THEN /\ ncs' = Append(ncs, NewNC(r.code, NoRow))
                   /\ verifications' = Append(verifications, <<>>)
                   /\ UNCHANGED others
              ELSE /\ others' = [others EXCEPT ![r.table] = Append(@, r.code)]
                   /\ UNCHANGED <<ncs, verifications>>
    /\ Finish(w)
    /\ UNCHANGED <<findings, actions>>

\* Fault: the reference is the count the code was made of.
RefOfCount(code) == code - 1

\* nonconformity_ref is the id the flush gave the new NC.
RefOfNew(code) == Len(ncs) + 1

CommitPromote(w) ==
    /\ Ready(w, "promote")
    /\ LET r == req[w]
       IN  /\ FreeCode(NCTable, r.code)
           /\ ncs' = Append(ncs, NewNC(r.code, r.finding))
           /\ findings' = [findings EXCEPT ![r.finding].ref = RefOfNew(r.code)]
    /\ verifications' = Append(verifications, <<>>)
    /\ Finish(w)
    /\ UNCHANGED <<others, actions>>

\* The unique key refuses the code (409).
RefuseCode(w) ==
    /\ Ready(w, "create") \/ Ready(w, "promote")
    /\ ~FreeCode(req[w].table, req[w].code)
    /\ Fail(w)

----------------------------------------------------------------------------
(* Corrective actions and verifications: accepted whatever the NC's status. *)

AddAction(w, a, n, to) ==
    /\ actions[a] = NoRow
    /\ AtOnce(w)
    /\ actions' = [actions EXCEPT ![a] = [nc |-> n, status |-> to]]
    /\ UNCHANGED <<findings, ncs, verifications>>

\* update_action, inactivate_action.
BeginEditAction(w, a, to) ==
    /\ actions[a] # NoRow
    /\ Begin(w, [Request("edit_action", <<>>) EXCEPT !.action = a,
                     !.old = actions[a].status, !.new = to])

CommitEditAction(w) ==
    /\ Serving(w, "edit_action")
    /\ LET r == req[w]
       IN  actions' = [actions EXCEPT ![r.action].status = Column(@, r.old, r.new)]
    /\ Finish(w)
    /\ UNCHANGED <<findings, ncs, others, verifications>>

AddVerification(w, n, result) ==
    /\ Len(verifications[n]) < MaxVerifications
    /\ AtOnce(w)
    /\ verifications' = [verifications EXCEPT ![n] = Append(@, result)]
    /\ UNCHANGED <<findings, ncs, actions>>

----------------------------------------------------------------------------
(* The life of an NC.                                                      *)

\* Fault: the close is not gated.
Ungated(action) == <<>>

\* can_close is asked for a close only, with two queries.
GateOf(action) == IF action = "close" THEN <<"verified", "actions">> ELSE <<>>

\* Fault: any status may be cancelled.
CancelAlways(from, action, to) ==
    <<from, to>> \in Transitions[action] \/ (action = "cancel" /\ to = "cancelled")

Valid(from, action, to) == <<from, to>> \in Transitions[action]

BeginTransition(w, n, action, to) ==
    /\ Valid(ncs[n].status, action, to)
    /\ Begin(w, [Request("transition", GateOf(action)) EXCEPT !.nc = n,
                     !.old = ncs[n].status, !.new = to])

\* Fault: any effective verification will do, or none.
NotRefuted(n) == \A i \in DOMAIN verifications[n] : verifications[n][i] = "effective"

\* has_effective_verification: the latest one.
Verified(n) == verifications[n] # <<>> /\ Last(verifications[n]) = "effective"

PassVerified(w) ==
    /\ NextTodo(w, "verified")
    /\ IF Verified(req[w].nc) THEN Advance(w, req[w]) ELSE Fail(w)

\* Fault: an action in progress does not count as open.
NothingPlanned(n) ==
    \A a \in Actions : actions[a] # NoRow /\ actions[a].nc = n =>
        actions[a].status # "planned"

\* open_actions is 0.
NothingOpen(n) ==
    \A a \in Actions : actions[a] # NoRow /\ actions[a].nc = n =>
        actions[a].status \in Terminal

PassActions(w) ==
    /\ NextTodo(w, "actions")
    /\ IF NothingOpen(req[w].nc) THEN Advance(w, req[w]) ELSE Fail(w)

CommitTransition(w) ==
    /\ Ready(w, "transition")
    /\ LET r == req[w]
       IN  ncs' = [ncs EXCEPT ![r.nc].status = Column(@, r.old, r.new)]
    /\ Finish(w)
    /\ UNCHANGED <<findings, others, actions, verifications>>

Next ==
    \E w \in Workers :
        \/ \E f \in Findings :
               \/ \E type \in FindingTypes :
                      CreateFinding(w, f, type) \/ BeginEditFinding(w, f, type)
               \/ InactivateFinding(w, f) \/ BeginPromote(w, f)
        \/ \E t \in Tables : BeginCreate(w, t)
        \/ \E n \in DOMAIN ncs :
               \/ \E a \in Actions, to \in ActionStatus : AddAction(w, a, n, to)
               \/ \E result \in VerificationResult : AddVerification(w, n, result)
               \/ \E action \in DOMAIN Transitions, to \in NCStatus :
                      BeginTransition(w, n, action, to)
        \/ \E a \in Actions, to \in ActionStatus : BeginEditAction(w, a, to)
        \/ CountRecords(w) \/ PassVerified(w) \/ PassActions(w)
        \/ CommitEditFinding(w) \/ CommitCreate(w) \/ CommitPromote(w)
        \/ CommitEditAction(w) \/ CommitTransition(w)
        \/ RefuseCode(w) \/ Fail(w)

Spec == Init /\ [][Next]_vars

----------------------------------------------------------------------------
(* Properties.  Serial: as long as no two requests have been in flight     *)
(* together; two overlapping ones may break the property (README).         *)

Serial == ~overlapped

Register == INSTANCE CodeRegister WITH codes <- [t \in Tables |-> CodesOf(t)]

\* However creations and promotions overlap or die, every table gives its
\* codes in order, without gap or repetition: count() + 1 under a unique key
\* implements the register.
CodesInOrder == Register!Spec

\* Whatever overlaps, a finding points to an NC that was opened from it.
RefIsItsOwn ==
    \A f \in Findings : findings[f] # NoRow /\ findings[f].ref # 0 =>
        findings[f].ref \in DOMAIN ncs /\ ncs[findings[f].ref].source = f

\* Serially promoting is idempotent: a finding has at most the one NC it
\* points to, through edits, retypings and inactivation.
PromotedOnce ==
    Serial =>
        \A n \in DOMAIN ncs :
            ncs[n].source # NoRow => findings[ncs[n].source].ref = n

\* Serially a finding can be promoted exactly when its type says so.
PromotableByType ==
    Serial =>
        \A f \in Findings : findings[f] # NoRow =>
            (findings[f].promotable <=> findings[f].type \in Promotable)

\* Whatever overlaps, no NC is closed that was never verified effective.
ClosedIsVerified ==
    \A n \in DOMAIN ncs : ncs[n].status = "closed" =>
        \E i \in DOMAIN verifications[n] : verifications[n][i] = "effective"

\* Serially an NC is closed only when its last verification was effective and
\* none of its actions is planned or in progress, and a closed or cancelled NC
\* stays what it is.
ClosesWhenReady ==
    [][~overlapped' => \A n \in DOMAIN ncs :
          /\ ncs[n].status \in {"closed", "cancelled"} => ncs'[n].status = ncs[n].status
          /\ ncs[n].status # "closed" /\ ncs'[n].status = "closed" =>
                 /\ Last(verifications[n]) = "effective"
                 /\ \A a \in Actions : actions[a] # NoRow /\ actions[a].nc = n =>
                        actions[a].status \in {"done", "cancelled"}]_vars

\* What a finding and its NC say of each other.
PromotionIsSound ==
    /\ TypeOK
    /\ RefIsItsOwn
    /\ PromotedOnce
    /\ PromotableByType

=============================================================================
