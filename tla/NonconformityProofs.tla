------------------------- MODULE NonconformityProofs -------------------------
(***************************************************************************)
(* What holds of findings, nonconformities and codes for any number of     *)
(* threads, findings, actions and tables.                                  *)
(*                                                                         *)
(* Carried says what a request in flight relies on and nothing takes back: *)
(* the code it counted is one given already or the next one, so the unique *)
(* key lets in only the next; the rows it loaded stay; an NC on its way to *)
(* closed past its gate has an effective verification, since verifications *)
(* are only added.  Undisturbed says what more is so of it until a second  *)
(* request overlaps: what it loaded is what is there.                      *)
(***************************************************************************)
EXTENDS Nonconformities, TLAPS

Count(t) == IF t = NCTable THEN Len(ncs) ELSE Len(others[t])

Numbered ==
    /\ \A n \in DOMAIN ncs : ncs[n].code = n
    /\ \A t \in OtherTables : \A n \in DOMAIN others[t] : others[t][n] = n

Effective(n) == \E i \in DOMAIN verifications[n] : verifications[n][i] = "effective"

Stages == {<<"verified", "actions">>, <<"actions">>, <<>>}

\* The NC is closed by a request that has its gate before it, or behind it.
Closing(r) ==
    /\ r.old = "in_verification"
    /\ r.todo \in Stages
    /\ r.todo # <<"verified", "actions">> => Effective(r.nc)

Carried(r) ==
    /\ r.op \in {"create", "promote"} =>
           /\ r.todo \in {<<"count">>, <<>>}
           /\ r.todo = <<>> => r.code \in 1 .. Count(r.table) + 1
    /\ r.op = "promote" =>
           /\ r.finding \in Findings /\ r.table = NCTable
           /\ findings[r.finding] \in FindingRows
    /\ r.op = "edit_finding" =>
           /\ r.finding \in Findings /\ findings[r.finding] \in FindingRows
           /\ r.old \in FindingTypes /\ r.new \in FindingTypes /\ r.todo = <<>>
    /\ r.op = "edit_action" =>
           /\ r.action \in Actions /\ actions[r.action] \in ActionRows
           /\ r.old \in ActionStatus /\ r.new \in ActionStatus /\ r.todo = <<>>
    /\ r.op = "transition" =>
           /\ r.nc \in DOMAIN ncs
           /\ r.old \in NCStatus \ {"closed", "cancelled"} /\ r.new \in NCStatus
           /\ r.old # r.new
           /\ IF r.new = "closed" THEN Closing(r) ELSE r.todo = <<>>

\* What a request that runs alone may rely on besides.
Undisturbed(r) ==
    /\ r.op = "promote" =>
           findings[r.finding].ref = 0 /\ findings[r.finding].promotable
    /\ r.op = "edit_finding" => findings[r.finding].type = r.old
    /\ r.op = "transition" =>
           /\ ncs[r.nc].status = r.old
           /\ r.new = "closed" /\ r.todo # <<"verified", "actions">> =>
                  verifications[r.nc] # <<>> /\ Last(verifications[r.nc]) = "effective"
           /\ r.new = "closed" /\ r.todo = <<>> => NothingOpen(r.nc)

Alone(w) ==
    /\ \A v \in Workers \ {w} : req[v] = Idle
    /\ Undisturbed(req[w])

InFlight ==
    \A w \in Workers : req[w] # Idle => Carried(req[w]) /\ (Serial => Alone(w))

Sourced ==
    \A n \in DOMAIN ncs :
        ncs[n].source # NoRow => findings[ncs[n].source] \in FindingRows

\* The inductive invariant.
IInv ==
    /\ TypeOK
    /\ Sourced
    /\ Numbered
    /\ RefIsItsOwn
    /\ PromotedOnce
    /\ PromotableByType
    /\ ClosedIsVerified
    /\ InFlight

----------------------------------------------------------------------------
(* Sequences.                                                              *)

\* What an append leaves alone and what it adds.
LEMMA AppendFacts ==
    ASSUME NEW S, NEW s \in Seq(S), NEW e \in S
    PROVE  /\ Append(s, e) \in Seq(S)
           /\ Len(Append(s, e)) = Len(s) + 1
           /\ DOMAIN Append(s, e) = DOMAIN s \cup {Len(s) + 1}
           /\ \A n \in DOMAIN s : Append(s, e)[n] = s[n]
           /\ Append(s, e)[Len(s) + 1] = e
    OBVIOUS

\* What replacing an element leaves alone.
LEMMA ExceptFacts ==
    ASSUME NEW S, NEW s \in Seq(S), NEW i \in DOMAIN s, NEW e \in S
    PROVE  /\ [s EXCEPT ![i] = e] \in Seq(S)
           /\ Len([s EXCEPT ![i] = e]) = Len(s)
           /\ DOMAIN [s EXCEPT ![i] = e] = DOMAIN s
           /\ [s EXCEPT ![i] = e][i] = e
           /\ \A n \in DOMAIN s : n # i => [s EXCEPT ![i] = e][n] = s[n]
    OBVIOUS

----------------------------------------------------------------------------
(* The first state.                                                        *)

\* The invariant holds at first.
LEMMA InitInv == Init => IInv
<1> SUFFICES ASSUME Init PROVE IInv
    OBVIOUS
<1>1. TypeOK
  <2>1. ncs \in Seq(NCRows) /\ verifications \in Seq(Seq(VerificationResult))
      BY DEF Init
  <2>2. Len(verifications) = Len(ncs)
      BY DEF Init
  <2>3. others \in [OtherTables -> Seq(Nat)]
      BY DEF Init
  <2>4. QED
      BY <2>1, <2>2, <2>3 DEF Init, TypeOK
<1>2. Sourced /\ Numbered /\ PromotedOnce /\ ClosedIsVerified
    BY DEF Init, Sourced, Numbered, PromotedOnce, ClosedIsVerified
<1>3. RefIsItsOwn /\ PromotableByType /\ InFlight
    BY DEF Init, RefIsItsOwn, PromotableByType, InFlight
<1>4. QED
    BY <1>1, <1>2, <1>3 DEF IInv

----------------------------------------------------------------------------
(* Steps that only touch the request they belong to.                       *)

\* A step that changes only the thread's own request preserves the invariant.
LEMMA OwnStep ==
    ASSUME IInv, NEW w \in Workers, NEW r \in Requests \cup {Idle},
           UNCHANGED <<findings, ncs, others, actions, verifications>>,
           req' = [req EXCEPT ![w] = r],
           Overlap(w) \/ (r = Idle /\ UNCHANGED overlapped),
           r # Idle => Carried(r),
           r # Idle /\ ~overlapped' => Undisturbed(r)
    PROVE  IInv'
<1>1. UNCHANGED <<findings, ncs, others, actions, verifications>>
    OBVIOUS
<1>2. overlapped' \in BOOLEAN /\ (~overlapped' => ~overlapped)
    BY DEF Overlap, IInv, TypeOK
<1>3. TypeOK'
    BY <1>1, <1>2 DEF IInv, TypeOK
<1>4. (Sourced /\ Numbered /\ RefIsItsOwn /\ PromotedOnce /\ PromotableByType
        /\ ClosedIsVerified)'
  <2>1. (Sourced /\ Numbered /\ RefIsItsOwn /\ ClosedIsVerified)'
      BY <1>1 DEF IInv, Sourced, Numbered, RefIsItsOwn, ClosedIsVerified
  <2>2. (PromotedOnce /\ PromotableByType)'
      BY <1>1, <1>2 DEF IInv, PromotedOnce, PromotableByType, Serial
  <2>3. QED
      BY <2>1, <2>2
<1>5. InFlight'
  <2> SUFFICES ASSUME NEW v \in Workers, (req[v] # Idle)'
               PROVE  (Carried(req[v]) /\ (Serial => Alone(v)))'
      BY DEF InFlight
  <2> PICK q : q = req'[v]
      OBVIOUS
  <2>1. Carried(q)
    <3>1. CASE v = w
        BY <3>1 DEF IInv, TypeOK
    <3>2. CASE v # w
        BY <3>2 DEF IInv, TypeOK, InFlight
    <3>3. QED
        BY <3>1, <3>2
  <2>2. Carried(req[v])'
    <3>1. Carried(q)'
        BY <1>1, <2>1 DEF Carried, Count, Closing, Effective
    <3>2. QED
        BY <3>1
  <2>3. ASSUME Serial' PROVE Alone(v)'
    <3>1. Undisturbed(q) /\ \A u \in Workers \ {v} : req'[u] = Idle
      <4>1. CASE v = w
          BY <4>1, <2>3, <1>2 DEF IInv, TypeOK, Overlap, Serial
      <4>2. CASE v # w
          BY <4>2, <2>3, <1>2 DEF IInv, TypeOK, InFlight, Alone, Overlap, Serial
      <4>3. QED
          BY <4>1, <4>2
    <3>2. Undisturbed(q)'
        BY <1>1, <3>1 DEF Undisturbed, NothingOpen
    <3>3. QED
        BY <3>1, <3>2 DEF Alone
  <2>4. QED
      BY <2>2, <2>3
<1>6. QED
    BY <1>3, <1>4, <1>5 DEF IInv

Todo == Seq({"count", "verified", "actions"})

\* The lists of what is still to be done, and their tails.
LEMMA TodoFacts ==
    /\ <<>> \in Todo /\ <<"count">> \in Todo
    /\ <<"verified", "actions">> \in Todo /\ <<"actions">> \in Todo
    /\ Tail(<<"count">>) = <<>> /\ Tail(<<"actions">>) = <<>>
    /\ Tail(<<"verified", "actions">>) = <<"actions">>
    /\ <<"count">> # <<>> /\ <<"actions">> # <<>> /\ <<"verified", "actions">> # <<>>
    /\ <<"verified", "actions">> # <<"actions">>
    /\ Head(<<"count">>) = "count" /\ Head(<<"actions">>) = "actions"
    /\ Head(<<"verified", "actions">>) = "verified"
    BY DEF Todo

\* A request begins with nothing counted and nothing loaded.
LEMMA RequestFields ==
    ASSUME NEW op \in {"edit_finding", "create", "promote", "transition", "edit_action"},
           NEW todo \in Todo
    PROVE  /\ Request(op, todo) \in Requests
           /\ Request(op, todo).op = op /\ Request(op, todo).todo = todo
           /\ Request(op, todo).table = NCTable
    BY DEF Request, Requests, Tables, Todo

\* A request that begins with what it has read preserves the invariant.
LEMMA BeginStep ==
    ASSUME IInv, NEW w \in Workers, NEW r \in Requests, Begin(w, r),
           Carried(r), ~overlapped' => Undisturbed(r)
    PROVE  IInv'
    BY OwnStep DEF Begin

\* BeginEditFinding preserves the invariant.
LEMMA BeginEditFindingStep ==
    ASSUME IInv, NEW w \in Workers, NEW f \in Findings, NEW type \in FindingTypes,
           BeginEditFinding(w, f, type)
    PROVE  IInv'
<1> PICK q : q = Request("edit_finding", <<>>)
    OBVIOUS
<1>0. q \in Requests /\ q.op = "edit_finding" /\ q.todo = <<>> /\ q.table = NCTable
    BY RequestFields, TodoFacts
<1> PICK r : r = [q EXCEPT !.finding = f,
                     !.old = findings[f].type, !.new = type]
    OBVIOUS
<1>1. findings[f] \in FindingRows /\ findings[f].type \in FindingTypes
    BY DEF BeginEditFinding, IInv, TypeOK, FindingRows
<1>2. r \in Requests /\ r.op = "edit_finding" /\ r.finding = f /\ r.todo = <<>>
      /\ r.old = findings[f].type /\ r.new = type
    BY <1>0, <1>1 DEF Requests
<1>3. Carried(r) /\ Undisturbed(r)
    BY <1>1, <1>2 DEF Carried, Undisturbed
<1>4. QED
    BY <1>2, <1>3, BeginStep DEF BeginEditFinding

\* BeginPromote preserves the invariant.
LEMMA BeginPromoteStep ==
    ASSUME IInv, NEW w \in Workers, NEW f \in Findings, BeginPromote(w, f)
    PROVE  IInv'
<1> PICK q : q = Request("promote", <<"count">>)
    OBVIOUS
<1>0. q \in Requests /\ q.op = "promote" /\ q.todo = <<"count">> /\ q.table = NCTable
    BY RequestFields, TodoFacts
<1> PICK r : r = [q EXCEPT !.finding = f]
    OBVIOUS
<1>1. findings[f] \in FindingRows /\ findings[f].ref = 0 /\ findings[f].promotable
    BY DEF BeginPromote, MayPromote, IInv, TypeOK
<1>2. r \in Requests /\ r.op = "promote" /\ r.finding = f /\ r.todo = <<"count">>
      /\ r.table = NCTable
    BY <1>0 DEF Requests
<1>3. Carried(r) /\ Undisturbed(r)
    BY <1>1, <1>2, TodoFacts DEF Carried, Undisturbed
<1>4. QED
    BY <1>2, <1>3, BeginStep DEF BeginPromote

\* BeginCreate preserves the invariant.
LEMMA BeginCreateStep ==
    ASSUME IInv, NEW w \in Workers, NEW t \in Tables, BeginCreate(w, t)
    PROVE  IInv'
<1> PICK q : q = Request("create", <<"count">>)
    OBVIOUS
<1>0. q \in Requests /\ q.op = "create" /\ q.todo = <<"count">> /\ q.table = NCTable
    BY RequestFields, TodoFacts
<1> PICK r : r = [q EXCEPT !.table = t]
    OBVIOUS
<1>1. r \in Requests /\ r.op = "create" /\ r.todo = <<"count">>
    BY <1>0 DEF Requests
<1>2. Carried(r) /\ Undisturbed(r)
    BY <1>1, TodoFacts DEF Carried, Undisturbed
<1>3. QED
    BY <1>1, <1>2, BeginStep DEF BeginCreate

\* BeginEditAction preserves the invariant.
LEMMA BeginEditActionStep ==
    ASSUME IInv, NEW w \in Workers, NEW a \in Actions, NEW to \in ActionStatus,
           BeginEditAction(w, a, to)
    PROVE  IInv'
<1> PICK q : q = Request("edit_action", <<>>)
    OBVIOUS
<1>0. q \in Requests /\ q.op = "edit_action" /\ q.todo = <<>> /\ q.table = NCTable
    BY RequestFields, TodoFacts
<1> PICK r : r = [q EXCEPT !.action = a,
                     !.old = actions[a].status, !.new = to]
    OBVIOUS
<1>1. actions[a] \in ActionRows /\ actions[a].status \in ActionStatus
    BY DEF BeginEditAction, IInv, TypeOK, ActionRows
<1>2. r \in Requests /\ r.op = "edit_action" /\ r.action = a /\ r.todo = <<>>
      /\ r.old = actions[a].status /\ r.new = to
    BY <1>0, <1>1 DEF Requests
<1>3. Carried(r) /\ Undisturbed(r)
    BY <1>1, <1>2 DEF Carried, Undisturbed
<1>4. QED
    BY <1>2, <1>3, BeginStep DEF BeginEditAction

\* BeginTransition preserves the invariant.
LEMMA BeginTransitionStep ==
    ASSUME IInv, NEW w \in Workers, NEW n \in DOMAIN ncs,
           NEW action \in DOMAIN Transitions, NEW to \in NCStatus,
           BeginTransition(w, n, action, to)
    PROVE  IInv'
<1> PICK q : q = Request("transition", GateOf(action))
    OBVIOUS
<1>0. q \in Requests /\ q.op = "transition" /\ q.todo = GateOf(action) /\ q.table = NCTable
    BY RequestFields, TodoFacts DEF GateOf
<1> PICK r : r = [q EXCEPT !.nc = n,
                     !.old = ncs[n].status, !.new = to]
    OBVIOUS
<1>1. GateOf(action) \in Todo
    BY TodoFacts DEF GateOf
<1>2. n \in Nat /\ ncs[n] \in NCRows /\ ncs[n].status \in NCStatus
  <2>1. n \in Nat /\ ncs[n] \in NCRows
      BY DEF IInv, TypeOK
  <2>2. QED
      BY <2>1 DEF NCRows
<1>3. r \in Requests /\ r.op = "transition" /\ r.nc = n /\ r.todo = GateOf(action)
      /\ r.old = ncs[n].status /\ r.new = to
    BY <1>0, <1>1, <1>2 DEF Requests
<1>4. <<ncs[n].status, to>> \in Transitions[action]
    BY DEF BeginTransition, Valid
<1>5. /\ ncs[n].status \notin {"closed", "cancelled"} /\ ncs[n].status # to
      /\ to = "closed" <=> action = "close"
      /\ to = "closed" => ncs[n].status = "in_verification"
    BY <1>2, <1>4 DEF Transitions
<1>6. Carried(r)
    BY <1>2, <1>3, <1>5, TodoFacts DEF Carried, Closing, GateOf, Stages
<1>7. Undisturbed(r)
    BY <1>3, <1>5, TodoFacts DEF Undisturbed, GateOf
<1>8. QED
    BY <1>3, <1>6, <1>7, BeginStep DEF BeginTransition

\* A request that ends with an error preserves the invariant.
LEMMA FailStep ==
    ASSUME IInv, NEW w \in Workers, Fail(w)
    PROVE  IInv'
    BY OwnStep DEF Fail

----------------------------------------------------------------------------
(* Steps between the first read and the commit.                            *)

\* A stage that is passed preserves the invariant.
LEMMA AdvanceStep ==
    ASSUME IInv, NEW w \in Workers, NEW r, Advance(w, r),
           NEW q \in Requests, q = [r EXCEPT !.todo = Tail(@)],
           Carried(q), ~overlapped' => Undisturbed(q)
    PROVE  IInv'
    BY OwnStep DEF Advance

\* What a request whose next stage is known relies on.
LEMMA AtStage ==
    ASSUME IInv, NEW w \in Workers, req[w] # Idle
    PROVE  /\ req[w] \in Requests /\ Carried(req[w])
           /\ ~overlapped => Undisturbed(req[w])
    BY DEF IInv, TypeOK, InFlight, Alone, Serial

\* CountRecords preserves the invariant.
LEMMA CountRecordsStep ==
    ASSUME IInv, NEW w \in Workers, CountRecords(w)
    PROVE  IInv'
<1> PICK r : r = req[w]
    OBVIOUS
<1> PICK c : c = Len(CodesOf(r.table)) + 1
    OBVIOUS
<1> PICK q : q = [[r EXCEPT !.code = c] EXCEPT !.todo = Tail(@)]
    OBVIOUS
<1>1. r \in Requests /\ Carried(r) /\ (~overlapped => Undisturbed(r))
    BY AtStage DEF CountRecords, NextTodo
<1>2. r.todo = <<"count">> /\ r.op \in {"create", "promote"}
  <2>1. r.todo # <<>> /\ Head(r.todo) = "count"
      BY DEF CountRecords, NextTodo
  <2>2. r.op \in {"edit_finding", "create", "promote", "transition", "edit_action"}
      BY <1>1 DEF Requests
  <2>3. r.op \notin {"edit_finding", "edit_action"}
      BY <1>1, <2>1 DEF Carried
  <2>4. r.op # "transition"
      BY <1>1, <2>1, TodoFacts DEF Carried, Closing, Stages
  <2>5. QED
      BY <1>1, <2>1, <2>2, <2>3, <2>4 DEF Carried
<1>3. c = Count(r.table) + 1 /\ c \in Nat /\ c >= 1
  <2>1. r.table \in OtherTables \cup {NCTable}
      BY <1>1 DEF Requests, Tables
  <2>2. CASE r.table = NCTable
    <3>1. Len([n \in DOMAIN ncs |-> ncs[n].code]) = Len(ncs) /\ Len(ncs) \in Nat
        BY DEF IInv, TypeOK
    <3>2. QED
        BY <2>2, <3>1 DEF CodesOf, Count
  <2>3. CASE r.table # NCTable
      BY <2>1, <2>3 DEF CodesOf, Count, IInv, TypeOK
  <2>4. QED
      BY <2>2, <2>3
<1>4. q \in Requests /\ q.op = r.op /\ q.todo = <<>> /\ q.code = c
      /\ q.table = r.table /\ q.finding = r.finding
    BY <1>1, <1>2, <1>3, TodoFacts DEF Requests, Todo
<1>5. Carried(q)
    BY <1>1, <1>2, <1>3, <1>4 DEF Carried, Count
<1>6. ~overlapped' => ~overlapped
    BY DEF CountRecords, Advance, Overlap
<1>7. ~overlapped' => Undisturbed(q)
    BY <1>1, <1>2, <1>4, <1>6 DEF Undisturbed
<1>8. Advance(w, [r EXCEPT !.code = c])
    BY DEF CountRecords
<1>9. QED
    BY <1>4, <1>5, <1>7, <1>8, AdvanceStep

\* The stages of the gate belong to a close.
LEMMA GateStage ==
    ASSUME IInv, NEW w \in Workers, NEW r, r = req[w], r # Idle, r.todo # <<>>,
           Head(r.todo) \in {"verified", "actions"}
    PROVE  /\ r.op = "transition" /\ r.new = "closed" /\ r.nc \in DOMAIN ncs
           /\ Head(r.todo) = "verified" => r.todo = <<"verified", "actions">>
           /\ Head(r.todo) = "actions" => r.todo = <<"actions">>
<1>1. r \in Requests /\ Carried(r)
    BY AtStage
<1>2. r.op \in {"edit_finding", "create", "promote", "transition", "edit_action"}
    BY <1>1 DEF Requests
<1>3. r.op \notin {"edit_finding", "edit_action"}
    BY <1>1 DEF Carried
<1>4. r.op \notin {"create", "promote"}
    BY <1>1, TodoFacts DEF Carried
<1>5. r.op = "transition" /\ r.new = "closed" /\ r.nc \in DOMAIN ncs /\ r.todo \in Stages
    BY <1>1, <1>2, <1>3, <1>4 DEF Carried, Closing
<1>6. QED
    BY <1>5, TodoFacts DEF Stages

\* PassVerified preserves the invariant.
LEMMA PassVerifiedStep ==
    ASSUME IInv, NEW w \in Workers, PassVerified(w)
    PROVE  IInv'
<1> PICK r : r = req[w]
    OBVIOUS
<1> PICK q : q = [r EXCEPT !.todo = Tail(@)]
    OBVIOUS
<1>1. r # Idle /\ r.todo # <<>> /\ Head(r.todo) = "verified"
    BY DEF PassVerified, NextTodo
<1>2. r \in Requests /\ Carried(r) /\ (~overlapped => Undisturbed(r))
    BY <1>1, AtStage
<1>3. r.op = "transition" /\ r.new = "closed" /\ r.nc \in DOMAIN ncs
      /\ r.todo = <<"verified", "actions">>
    BY <1>1, GateStage
<1>4. q \in Requests /\ q.op = r.op /\ q.todo = <<"actions">>
      /\ q.nc = r.nc /\ q.old = r.old /\ q.new = r.new
    BY <1>2, <1>3, TodoFacts DEF Requests, Todo
<1>5. CASE ~Verified(r.nc)
    BY <1>5, FailStep DEF PassVerified
<1>6. CASE Verified(r.nc)
  <2>1. Advance(w, r)
      BY <1>6 DEF PassVerified
  <2>2. Effective(r.nc)
    <3>1. verifications[r.nc] \in Seq(VerificationResult)
        BY <1>3 DEF IInv, TypeOK
    <3>2. QED
        BY <1>6, <3>1 DEF Verified, Last, Effective
  <2>3. Carried(q)
      BY <1>2, <1>3, <1>4, <2>2, TodoFacts DEF Carried, Closing, Stages
  <2>4. ~overlapped' => ~overlapped
      BY <2>1 DEF Advance, Overlap
  <2>5. ~overlapped' => Undisturbed(q)
      BY <1>2, <1>3, <1>4, <1>6, <2>4, TodoFacts DEF Undisturbed, Verified
  <2>6. QED
      BY <1>4, <2>1, <2>3, <2>5, AdvanceStep
<1>7. QED
    BY <1>5, <1>6

\* PassActions preserves the invariant.
LEMMA PassActionsStep ==
    ASSUME IInv, NEW w \in Workers, PassActions(w)
    PROVE  IInv'
<1> PICK r : r = req[w]
    OBVIOUS
<1> PICK q : q = [r EXCEPT !.todo = Tail(@)]
    OBVIOUS
<1>1. r # Idle /\ r.todo # <<>> /\ Head(r.todo) = "actions"
    BY DEF PassActions, NextTodo
<1>2. r \in Requests /\ Carried(r) /\ (~overlapped => Undisturbed(r))
    BY <1>1, AtStage
<1>3. r.op = "transition" /\ r.new = "closed" /\ r.nc \in DOMAIN ncs
      /\ r.todo = <<"actions">>
    BY <1>1, GateStage
<1>4. q \in Requests /\ q.op = r.op /\ q.todo = <<>>
      /\ q.nc = r.nc /\ q.old = r.old /\ q.new = r.new
    BY <1>2, <1>3, TodoFacts DEF Requests, Todo
<1>5. CASE ~NothingOpen(r.nc)
    BY <1>5, FailStep DEF PassActions
<1>6. CASE NothingOpen(r.nc)
  <2>1. Advance(w, r)
      BY <1>6 DEF PassActions
  <2>2. Carried(q)
      BY <1>2, <1>3, <1>4, TodoFacts DEF Carried, Closing, Stages
  <2>3. ~overlapped' => ~overlapped
      BY <2>1 DEF Advance, Overlap
  <2>4. ~overlapped' => Undisturbed(q)
      BY <1>2, <1>3, <1>4, <1>6, <2>3, TodoFacts DEF Undisturbed
  <2>5. QED
      BY <1>4, <2>1, <2>2, <2>4, AdvanceStep
<1>7. QED
    BY <1>5, <1>6

----------------------------------------------------------------------------
(* Commits.  Rows are added and changed, never removed.                    *)

Grows ==
    /\ DOMAIN ncs \subseteq DOMAIN ncs'
    /\ Len(ncs) \in Nat /\ Len(ncs') \in Nat /\ Len(ncs) <= Len(ncs')
    /\ \A t \in OtherTables :
           Len(others[t]) \in Nat /\ Len(others'[t]) \in Nat /\ Len(others[t]) <= Len(others'[t])
    /\ \A f \in Findings : findings[f] \in FindingRows => findings'[f] \in FindingRows
    /\ \A a \in Actions : actions[a] \in ActionRows => actions'[a] \in ActionRows
    /\ \A n \in DOMAIN ncs : Effective(n) => Effective(n)'

\* What a request relies on survives the commit of another.
LEMMA CarriedOn ==
    ASSUME NEW r \in Requests, Grows, Carried(r)
    PROVE  Carried(r)'
<1>1. r.table \in OtherTables \cup {NCTable}
    BY DEF Requests, Tables
<1>2. /\ Count(r.table) \in Nat /\ Count(r.table)' \in Nat
      /\ Count(r.table) <= Count(r.table)'
    BY <1>1 DEF Grows, Count
<1>3. r.op \in {"create", "promote"} /\ r.todo = <<>> => r.code \in 1 .. Count(r.table)' + 1
    BY <1>2 DEF Carried
<1>4. r.op = "transition" /\ Closing(r) => Closing(r)'
    BY DEF Carried, Grows, Closing
<1>5. /\ r.op = "promote" => (findings[r.finding] \in FindingRows)'
      /\ r.op = "edit_finding" => (findings[r.finding] \in FindingRows)'
      /\ r.op = "edit_action" => (actions[r.action] \in ActionRows)'
      /\ r.op = "transition" => (r.nc \in DOMAIN ncs)'
    BY DEF Carried, Grows
<1>6. (Count(r.table))' = Count(r.table)'
    OBVIOUS
<1>7. QED
    BY <1>3, <1>4, <1>5 DEF Carried

\* A commit leaves its own request answered; any other may go on, and if there
\* is another the requests have overlapped.
LEMMA CommitStep ==
    ASSUME IInv, NEW w \in Workers, Overlap(w), Grows, req' = [req EXCEPT ![w] = Idle]
    PROVE  /\ InFlight' /\ req' \in [Workers -> Requests \cup {Idle}]
           /\ overlapped' \in BOOLEAN /\ (~overlapped' => ~overlapped)
<1>1. overlapped' \in BOOLEAN /\ (~overlapped' => ~overlapped)
    BY DEF Overlap, IInv, TypeOK
<1>2. req' \in [Workers -> Requests \cup {Idle}]
    BY DEF IInv, TypeOK
<1>3. ASSUME NEW v \in Workers, req'[v] # Idle
      PROVE  Carried(req[v])' /\ overlapped'
  <2> PICK q : q = req[v]
      OBVIOUS
  <2>1. v # w /\ q = req'[v] /\ q # Idle
      BY <1>3 DEF IInv, TypeOK
  <2>2. q \in Requests /\ Carried(q)
      BY <2>1, AtStage
  <2>3. Carried(q)'
      BY <2>2, CarriedOn
  <2>4. overlapped'
      BY <2>1 DEF Overlap
  <2>5. QED
      BY <2>1, <2>3, <2>4
<1>4. InFlight'
    BY <1>3 DEF InFlight, Serial
<1>5. QED
    BY <1>1, <1>2, <1>4

\* A finding is written; what it says of its NC, if it is an old one, stays.
LEMMA FindingStep ==
    ASSUME IInv, NEW w \in Workers, NEW f \in Findings, NEW row \in FindingRows,
           findings' = [findings EXCEPT ![f] = row],
           Overlap(w), req' = [req EXCEPT ![w] = Idle],
           UNCHANGED <<ncs, others, actions, verifications>>,
           findings[f] = NoRow => row.ref = 0,
           findings[f] # NoRow => row.ref = findings[f].ref,
           ~overlapped' => (row.promotable <=> row.type \in Promotable)
    PROVE  IInv'
<1>1. UNCHANGED <<ncs, others, actions, verifications>>
    OBVIOUS
<1>2. findings' \in [Findings -> FindingRows \cup {NoRow}] /\ findings'[f] = row
      /\ \A g \in Findings : g # f => findings'[g] = findings[g]
    BY DEF IInv, TypeOK
<1>3. Grows
    BY <1>1, <1>2 DEF Grows, Effective, IInv, TypeOK
<1>4. /\ InFlight' /\ req' \in [Workers -> Requests \cup {Idle}]
      /\ overlapped' \in BOOLEAN /\ (~overlapped' => ~overlapped)
    BY <1>3, CommitStep
<1>5. TypeOK'
    BY <1>1, <1>2, <1>4 DEF IInv, TypeOK
<1>6. (Numbered /\ ClosedIsVerified)'
    BY <1>1 DEF IInv, Numbered, ClosedIsVerified
<1>7. Sourced'
    <2> SUFFICES ASSUME NEW n \in DOMAIN ncs, ncs[n].source # NoRow
                 PROVE  findings'[ncs[n].source] \in FindingRows
        BY <1>1 DEF Sourced
    <2>1. ncs[n].source \in Findings /\ findings[ncs[n].source] \in FindingRows
      <3>1. ncs[n] \in NCRows
          BY DEF IInv, TypeOK
      <3>2. QED
          BY <3>1 DEF IInv, Sourced, NCRows
    <2>2. QED
        BY <2>1, <1>2
<1>8. RefIsItsOwn'
    <2> SUFFICES ASSUME NEW g \in Findings, findings'[g] # NoRow, findings'[g].ref # 0
                 PROVE  findings'[g].ref \in DOMAIN ncs /\ ncs[findings'[g].ref].source = g
        BY <1>1 DEF RefIsItsOwn
    <2>1. CASE g # f
        BY <2>1, <1>2 DEF IInv, RefIsItsOwn
    <2>2. CASE g = f
        BY <2>2, <1>2 DEF IInv, RefIsItsOwn
    <2>3. QED
        BY <2>1, <2>2
<1>9. PromotedOnce'
    <2> SUFFICES ASSUME ~overlapped', NEW n \in DOMAIN ncs, ncs[n].source # NoRow
                 PROVE  findings'[ncs[n].source].ref = n
        BY <1>1 DEF PromotedOnce, Serial
    <2>1. ncs[n].source \in Findings /\ findings[ncs[n].source] \in FindingRows
          /\ findings[ncs[n].source].ref = n
      <3>1. ncs[n] \in NCRows
          BY DEF IInv, TypeOK
      <3>2. QED
          BY <3>1, <1>4 DEF IInv, Sourced, NCRows, PromotedOnce, Serial
    <2>2. CASE ncs[n].source # f
        BY <2>1, <2>2, <1>2
    <2>3. CASE ncs[n].source = f
        BY <2>1, <2>3, <1>2, NoRowAssumption
    <2>4. QED
        BY <2>2, <2>3
<1>10. PromotableByType'
    <2> SUFFICES ASSUME ~overlapped', NEW g \in Findings, findings'[g] # NoRow
                 PROVE  findings'[g].promotable <=> findings'[g].type \in Promotable
        BY DEF PromotableByType, Serial
    <2>1. CASE g # f
        BY <2>1, <1>2, <1>4 DEF IInv, PromotableByType, Serial
    <2>2. CASE g = f
        BY <2>2, <1>2
    <2>3. QED
        BY <2>1, <2>2
<1>11. QED
    BY <1>4, <1>5, <1>6, <1>7, <1>8, <1>9, <1>10 DEF IInv

\* CreateFinding preserves the invariant.
LEMMA CreateFindingStep ==
    ASSUME IInv, NEW w \in Workers, NEW f \in Findings, NEW type \in FindingTypes,
           CreateFinding(w, f, type)
    PROVE  IInv'
<1> PICK row : row = [type |-> type, promotable |-> type \in Promotable,
                      active |-> TRUE, ref |-> 0]
    OBVIOUS
<1>1. row.type = type /\ row.ref = 0 /\ (row.promotable <=> row.type \in Promotable)
    OBVIOUS
<1>2. row \in FindingRows
    BY DEF FindingRows
<1>3. req' = [req EXCEPT ![w] = Idle] /\ Overlap(w)
      /\ UNCHANGED <<ncs, others, actions, verifications>>
    BY DEF CreateFinding, AtOnce, IInv, TypeOK
<1>4. findings' = [findings EXCEPT ![f] = row] /\ findings[f] = NoRow
    BY DEF CreateFinding
<1>5. QED
    BY <1>1, <1>2, <1>3, <1>4, FindingStep

\* InactivateFinding preserves the invariant.
LEMMA InactivateFindingStep ==
    ASSUME IInv, NEW w \in Workers, NEW f \in Findings, InactivateFinding(w, f)
    PROVE  IInv'
<1> PICK old : old = findings[f]
    OBVIOUS
<1> PICK row : row = [old EXCEPT !.active = FALSE]
    OBVIOUS
<1>1. old \in FindingRows /\ findings[f] # NoRow
    BY DEF InactivateFinding, IInv, TypeOK
<1>2. row \in FindingRows /\ row.type = old.type /\ row.ref = old.ref
      /\ row.promotable = old.promotable
    BY <1>1 DEF FindingRows
<1>3. req' = [req EXCEPT ![w] = Idle] /\ Overlap(w)
      /\ UNCHANGED <<ncs, others, actions, verifications>>
    BY DEF InactivateFinding, AtOnce, IInv, TypeOK
<1>4. findings' = [findings EXCEPT ![f] = row]
    BY DEF InactivateFinding
<1>5. ~overlapped' => (row.promotable <=> row.type \in Promotable)
    BY <1>1, <1>2, <1>3 DEF Overlap, IInv, PromotableByType, Serial
<1>6. QED
    BY <1>1, <1>2, <1>3, <1>4, <1>5, FindingStep

\* CommitEditFinding preserves the invariant.
LEMMA CommitEditFindingStep ==
    ASSUME IInv, NEW w \in Workers, CommitEditFinding(w)
    PROVE  IInv'
<1> PICK r : r = req[w]
    OBVIOUS
<1> PICK old : old = findings[r.finding]
    OBVIOUS
<1> PICK flag : flag = PromotableNow(old, r)
    OBVIOUS
<1> PICK row : row = [old EXCEPT !.type = Column(old.type, r.old, r.new),
                                !.promotable = flag]
    OBVIOUS
<1>1. r \in Requests /\ Carried(r) /\ (~overlapped => Undisturbed(r)) /\ r.op = "edit_finding"
    BY AtStage DEF CommitEditFinding, Serving
<1>2. /\ r.finding \in Findings /\ old \in FindingRows
      /\ r.old \in FindingTypes /\ r.new \in FindingTypes
    BY <1>1 DEF Carried
<1>3. flag \in BOOLEAN
  <2>1. old.promotable \in BOOLEAN
      BY <1>2 DEF FindingRows
  <2>2. CASE (r.new \in Promotable) = (r.old \in Promotable)
      BY <2>1, <2>2 DEF PromotableNow, Column
  <2>3. CASE (r.new \in Promotable) # (r.old \in Promotable)
      BY <2>3 DEF PromotableNow, Column
  <2>4. QED
      BY <2>2, <2>3
<1>4. row \in FindingRows /\ row.ref = old.ref /\ row.promotable = flag
      /\ row.type = Column(old.type, r.old, r.new)
    BY <1>2, <1>3 DEF FindingRows, Column
<1>5. req' = [req EXCEPT ![w] = Idle] /\ Overlap(w)
      /\ UNCHANGED <<ncs, others, actions, verifications>>
    BY DEF CommitEditFinding, Finish
<1>6. findings' = [findings EXCEPT ![r.finding] = row]
    BY DEF CommitEditFinding
<1>7. ASSUME ~overlapped' PROVE row.promotable <=> row.type \in Promotable
  <2>1. old.type = r.old /\ (old.promotable <=> old.type \in Promotable)
      BY <1>1, <1>2, <1>5, <1>7, NoRowAssumption
      DEF Overlap, Undisturbed, IInv, PromotableByType, Serial
  <2>2. row.type = r.new
      BY <1>4, <2>1 DEF Column
  <2>3. flag <=> r.new \in Promotable
    <3>1. CASE (r.new \in Promotable) = (r.old \in Promotable)
        BY <2>1, <3>1 DEF PromotableNow, Column
    <3>2. CASE (r.new \in Promotable) # (r.old \in Promotable)
        BY <3>2 DEF PromotableNow, Column
    <3>3. QED
        BY <3>1, <3>2
  <2>4. QED
      BY <1>4, <2>2, <2>3
<1>8. findings[r.finding] # NoRow
    BY <1>2, NoRowAssumption
<1>9. QED
    BY <1>2, <1>4, <1>5, <1>6, <1>7, <1>8, FindingStep

----------------------------------------------------------------------------
(* Commits that leave findings and numbers alone.                          *)

\* Verifications are added, statuses move, and nothing else of an NC changes.
LEMMA ProgressStep ==
    ASSUME IInv, NEW w \in Workers,
           Overlap(w), req' = [req EXCEPT ![w] = Idle], UNCHANGED <<findings, others>>,
           ncs' \in Seq(NCRows), Len(ncs') = Len(ncs),
           \A n \in DOMAIN ncs : ncs'[n].code = ncs[n].code /\ ncs'[n].source = ncs[n].source,
           actions' \in [Actions -> ActionRows \cup {NoRow}],
           \A a \in Actions : actions[a] \in ActionRows => actions'[a] \in ActionRows,
           verifications' \in Seq(Seq(VerificationResult)),
           Len(verifications') = Len(verifications),
           \A n \in DOMAIN ncs : Effective(n) => Effective(n)',
           \A n \in DOMAIN ncs :
               ncs'[n].status = "closed" => ncs[n].status = "closed" \/ Effective(n)
    PROVE  IInv'
<1>1. UNCHANGED <<findings, others>> /\ DOMAIN ncs' = DOMAIN ncs
    BY DEF IInv, TypeOK
<1>2. Grows
    BY <1>1 DEF Grows, IInv, TypeOK
<1>3. /\ InFlight' /\ req' \in [Workers -> Requests \cup {Idle}]
      /\ overlapped' \in BOOLEAN /\ (~overlapped' => ~overlapped)
    BY <1>2, CommitStep
<1>4. TypeOK'
    BY <1>1, <1>3 DEF IInv, TypeOK
<1>5. (Sourced /\ Numbered /\ RefIsItsOwn)'
    BY <1>1 DEF IInv, Sourced, Numbered, RefIsItsOwn
<1>6. (PromotedOnce /\ PromotableByType)'
    BY <1>1, <1>3 DEF IInv, PromotedOnce, PromotableByType, Serial
<1>7. ClosedIsVerified'
    BY <1>1 DEF IInv, ClosedIsVerified, Effective
<1>8. QED
    BY <1>3, <1>4, <1>5, <1>6, <1>7 DEF IInv

\* AddAction preserves the invariant.
LEMMA AddActionStep ==
    ASSUME IInv, NEW w \in Workers, NEW a \in Actions, NEW n \in DOMAIN ncs,
           NEW to \in ActionStatus, AddAction(w, a, n, to)
    PROVE  IInv'
<1> PICK row : row = [nc |-> n, status |-> to]
    OBVIOUS
<1>1. row \in ActionRows
    BY DEF ActionRows, IInv, TypeOK
<1>2. req' = [req EXCEPT ![w] = Idle] /\ Overlap(w)
      /\ UNCHANGED <<findings, ncs, others, verifications>>
    BY DEF AddAction, AtOnce, IInv, TypeOK
<1>3. actions' = [actions EXCEPT ![a] = row]
    BY DEF AddAction
<1>4. actions' \in [Actions -> ActionRows \cup {NoRow}]
      /\ \A b \in Actions : actions[b] \in ActionRows => actions'[b] \in ActionRows
    BY <1>1, <1>3 DEF IInv, TypeOK
<1>5. QED
    BY <1>2, <1>4, ProgressStep DEF IInv, TypeOK, Effective

\* CommitEditAction preserves the invariant.
LEMMA CommitEditActionStep ==
    ASSUME IInv, NEW w \in Workers, CommitEditAction(w)
    PROVE  IInv'
<1> PICK r : r = req[w]
    OBVIOUS
<1> PICK to : to = Column(actions[r.action].status, r.old, r.new)
    OBVIOUS
<1> PICK row : row = [actions[r.action] EXCEPT !.status = to]
    OBVIOUS
<1>1. r \in Requests /\ Carried(r) /\ r.op = "edit_action"
    BY AtStage DEF CommitEditAction, Serving
<1>2. r.action \in Actions /\ actions[r.action] \in ActionRows /\ r.new \in ActionStatus
    BY <1>1 DEF Carried
<1>3. row \in ActionRows
    BY <1>2 DEF ActionRows, Column
<1>4. req' = [req EXCEPT ![w] = Idle] /\ Overlap(w)
      /\ UNCHANGED <<findings, ncs, others, verifications>>
    BY DEF CommitEditAction, Finish
<1>5. actions' = [actions EXCEPT ![r.action] = row]
    BY DEF CommitEditAction
<1>6. actions' \in [Actions -> ActionRows \cup {NoRow}]
      /\ \A b \in Actions : actions[b] \in ActionRows => actions'[b] \in ActionRows
    BY <1>2, <1>3, <1>5 DEF IInv, TypeOK
<1>7. QED
    BY <1>4, <1>6, ProgressStep DEF IInv, TypeOK, Effective

\* AddVerification preserves the invariant.
LEMMA AddVerificationStep ==
    ASSUME IInv, NEW w \in Workers, NEW n \in DOMAIN ncs,
           NEW result \in VerificationResult, AddVerification(w, n, result)
    PROVE  IInv'
<1> PICK list : list = Append(verifications[n], result)
    OBVIOUS
<1>1. n \in DOMAIN verifications /\ verifications[n] \in Seq(VerificationResult)
    BY DEF IInv, TypeOK
<1>2. list \in Seq(VerificationResult)
      /\ DOMAIN list = DOMAIN verifications[n] \cup {Len(verifications[n]) + 1}
      /\ \A i \in DOMAIN verifications[n] : list[i] = verifications[n][i]
    BY <1>1, AppendFacts
<1>3. req' = [req EXCEPT ![w] = Idle] /\ Overlap(w)
      /\ UNCHANGED <<findings, ncs, others, actions>>
    BY DEF AddVerification, AtOnce, IInv, TypeOK
<1>4. verifications' = [verifications EXCEPT ![n] = list]
    BY DEF AddVerification
<1>5. /\ verifications' \in Seq(Seq(VerificationResult))
      /\ Len(verifications') = Len(verifications)
      /\ verifications'[n] = list
      /\ \A m \in DOMAIN verifications : m # n => verifications'[m] = verifications[m]
    BY <1>1, <1>2, <1>4, ExceptFacts DEF IInv, TypeOK
<1>6. ASSUME NEW m \in DOMAIN ncs, Effective(m)
      PROVE  \E i \in DOMAIN verifications'[m] : verifications'[m][i] = "effective"
  <2>1. m \in DOMAIN verifications
      BY DEF IInv, TypeOK
  <2>2. CASE m = n
      BY <2>2, <1>2, <1>5, <1>6 DEF Effective
  <2>3. CASE m # n
      BY <2>1, <2>3, <1>5, <1>6 DEF Effective
  <2>4. QED
      BY <2>2, <2>3
<1>7. \A m \in DOMAIN ncs : Effective(m) => Effective(m)'
    BY <1>6 DEF Effective
<1>8. QED
    BY <1>3, <1>5, <1>7, ProgressStep DEF IInv, TypeOK

\* The row a transition commits.
LEMMA TransitionRow ==
    ASSUME IInv, NEW w \in Workers, CommitTransition(w), NEW r, r = req[w],
           NEW row, row = [ncs[r.nc] EXCEPT !.status = r.new]
    PROVE  /\ r \in Requests /\ Carried(r) /\ (~overlapped => Undisturbed(r))
           /\ r.op = "transition" /\ r.todo = <<>> /\ r.nc \in DOMAIN ncs
           /\ row \in NCRows /\ row.status = r.new /\ row.code = ncs[r.nc].code
           /\ row.source = ncs[r.nc].source
           /\ ncs' = [ncs EXCEPT ![r.nc] = row]
           /\ r.old \notin {"closed", "cancelled"}
           /\ r.new = "closed" => Effective(r.nc)
<1>1. r \in Requests /\ Carried(r) /\ (~overlapped => Undisturbed(r))
      /\ r.op = "transition" /\ r.todo = <<>>
    BY AtStage DEF CommitTransition, Ready, Serving
<1>2. r.nc \in DOMAIN ncs /\ r.new \in NCStatus /\ r.old # r.new
      /\ r.old \notin {"closed", "cancelled"}
    BY <1>1 DEF Carried
<1>3. ncs[r.nc] \in NCRows
    BY <1>2 DEF IInv, TypeOK
<1>4. row \in NCRows /\ row.status = r.new /\ row.code = ncs[r.nc].code
      /\ row.source = ncs[r.nc].source
    BY <1>2, <1>3 DEF NCRows
<1>5. Column(ncs[r.nc].status, r.old, r.new) = r.new
    BY <1>2 DEF Column
<1>6. ncs' = [ncs EXCEPT ![r.nc] = row]
    BY <1>5 DEF CommitTransition
<1>7. r.new = "closed" => Effective(r.nc)
    BY <1>1, TodoFacts DEF Carried, Closing
<1>8. QED
    BY <1>1, <1>2, <1>4, <1>6, <1>7

\* CommitTransition preserves the invariant.
LEMMA CommitTransitionStep ==
    ASSUME IInv, NEW w \in Workers, CommitTransition(w)
    PROVE  IInv'
<1> PICK r : r = req[w]
    OBVIOUS
<1> PICK row : row = [ncs[r.nc] EXCEPT !.status = r.new]
    OBVIOUS
<1>1. /\ r.nc \in DOMAIN ncs
      /\ row \in NCRows /\ row.status = r.new /\ row.code = ncs[r.nc].code
      /\ row.source = ncs[r.nc].source
      /\ ncs' = [ncs EXCEPT ![r.nc] = row]
      /\ r.new = "closed" => Effective(r.nc)
    BY TransitionRow
<1>2. /\ ncs' \in Seq(NCRows) /\ Len(ncs') = Len(ncs)
      /\ ncs'[r.nc] = row
      /\ \A n \in DOMAIN ncs : n # r.nc => ncs'[n] = ncs[n]
    BY <1>1, ExceptFacts DEF IInv, TypeOK
<1>3. req' = [req EXCEPT ![w] = Idle] /\ Overlap(w)
      /\ UNCHANGED <<findings, others, actions, verifications>>
    BY DEF CommitTransition, Finish
<1>4. \A n \in DOMAIN ncs : ncs'[n].code = ncs[n].code /\ ncs'[n].source = ncs[n].source
    BY <1>1, <1>2
<1>5. \A n \in DOMAIN ncs :
          ncs'[n].status = "closed" => ncs[n].status = "closed" \/ Effective(n)
    BY <1>1, <1>2
<1>6. QED
    BY <1>2, <1>3, <1>4, <1>5, ProgressStep DEF IInv, TypeOK, Effective

----------------------------------------------------------------------------
(* Commits that give a code.                                               *)

\* The unique key lets in the next code only.
LEMMA NextCode ==
    ASSUME IInv, NEW t \in Tables, NEW code \in 1 .. Count(t) + 1, FreeCode(t, code)
    PROVE  code = Count(t) + 1
<1>1. CASE t = NCTable
  <2> SUFFICES ASSUME code \in 1 .. Len(ncs) PROVE FALSE
      BY <1>1 DEF Count, IInv, TypeOK
  <2>1. code \in DOMAIN ncs /\ CodesOf(t) = [n \in DOMAIN ncs |-> ncs[n].code]
      BY <1>1 DEF CodesOf, IInv, TypeOK
  <2>2. code \in DOMAIN CodesOf(t) /\ CodesOf(t)[code] = code
      BY <2>1 DEF IInv, Numbered
  <2>3. QED
      BY <2>2 DEF FreeCode
<1>2. CASE t # NCTable
  <2>1. t \in OtherTables /\ others[t] \in Seq(Nat) /\ CodesOf(t) = others[t]
      BY <1>2 DEF Tables, CodesOf, IInv, TypeOK
  <2> SUFFICES ASSUME code \in 1 .. Len(others[t]) PROVE FALSE
      BY <1>2, <2>1 DEF Count
  <2>2. code \in DOMAIN CodesOf(t) /\ CodesOf(t)[code] = code
      BY <2>1 DEF IInv, Numbered
  <2>3. QED
      BY <2>2 DEF FreeCode
<1>3. QED
    BY <1>1, <1>2

\* A new NC, with the next code, in the status open and without verifications.
LEMMA NewNCFacts ==
    ASSUME IInv, NEW source \in Findings \cup {NoRow}, NEW row,
           row = NewNC(Len(ncs) + 1, source),
           ncs' = Append(ncs, row), verifications' = Append(verifications, <<>>)
    PROVE  /\ row.code = Len(ncs) + 1 /\ row.source = source /\ row.status = "open"
           /\ ncs' \in Seq(NCRows) /\ Len(ncs') = Len(ncs) + 1
           /\ DOMAIN ncs' = DOMAIN ncs \cup {Len(ncs) + 1}
           /\ ncs'[Len(ncs) + 1] = row /\ \A n \in DOMAIN ncs : ncs'[n] = ncs[n]
           /\ verifications' \in Seq(Seq(VerificationResult))
           /\ Len(verifications') = Len(ncs')
           /\ \A n \in DOMAIN ncs : verifications'[n] = verifications[n]
           /\ \A n \in DOMAIN ncs'  : ncs'[n].code = n
<1>1. ncs \in Seq(NCRows) /\ verifications \in Seq(Seq(VerificationResult))
      /\ Len(verifications) = Len(ncs) /\ Len(ncs) \in Nat
      /\ DOMAIN verifications = DOMAIN ncs
    BY DEF IInv, TypeOK
<1>2. row.code = Len(ncs) + 1 /\ row.source = source /\ row.status = "open"
    BY DEF NewNC
<1>3. row \in NCRows
    BY <1>1 DEF NewNC, NCRows, NCStatus
<1>4. /\ ncs' \in Seq(NCRows) /\ Len(ncs') = Len(ncs) + 1
      /\ DOMAIN ncs' = DOMAIN ncs \cup {Len(ncs) + 1}
      /\ ncs'[Len(ncs) + 1] = row /\ \A n \in DOMAIN ncs : ncs'[n] = ncs[n]
    BY <1>1, <1>3, AppendFacts
<1>5. <<>> \in Seq(VerificationResult)
    OBVIOUS
<1>6. /\ verifications' \in Seq(Seq(VerificationResult))
      /\ Len(verifications') = Len(ncs')
      /\ \A n \in DOMAIN ncs : verifications'[n] = verifications[n]
    BY <1>1, <1>4, <1>5, AppendFacts
<1>7. \A n \in DOMAIN ncs' : ncs'[n].code = n
    BY <1>2, <1>4 DEF IInv, Numbered
<1>8. QED
    BY <1>2, <1>4, <1>6, <1>7

\* An NC is added and a finding may point to it.
LEMMA NewNCStep ==
    ASSUME IInv, NEW w \in Workers, NEW source \in Findings \cup {NoRow}, NEW row,
           row = NewNC(Len(ncs) + 1, source),
           Overlap(w), req' = [req EXCEPT ![w] = Idle], UNCHANGED <<others, actions>>,
           ncs' = Append(ncs, row), verifications' = Append(verifications, <<>>),
           source = NoRow => UNCHANGED findings,
           source # NoRow =>
               /\ findings[source] \in FindingRows
               /\ findings' = [findings EXCEPT ![source].ref = Len(ncs) + 1]
               /\ ~overlapped' => findings[source].ref = 0
    PROVE  IInv'
<1> PICK new : new = [findings[source] EXCEPT !.ref = Len(ncs) + 1]
    OBVIOUS
<1>1. /\ row.code = Len(ncs) + 1 /\ row.source = source /\ row.status = "open"
      /\ ncs' \in Seq(NCRows) /\ Len(ncs') = Len(ncs) + 1
      /\ DOMAIN ncs' = DOMAIN ncs \cup {Len(ncs) + 1}
      /\ ncs'[Len(ncs) + 1] = row /\ \A n \in DOMAIN ncs : ncs'[n] = ncs[n]
      /\ verifications' \in Seq(Seq(VerificationResult))
      /\ Len(verifications') = Len(ncs')
      /\ \A n \in DOMAIN ncs : verifications'[n] = verifications[n]
      /\ \A n \in DOMAIN ncs'  : ncs'[n].code = n
    BY NewNCFacts
<1>2. Len(ncs) \in Nat /\ Len(ncs) + 1 \notin DOMAIN ncs
    BY DEF IInv, TypeOK
<1>3. UNCHANGED <<others, actions>>
    OBVIOUS
<1>4. source # NoRow =>
          /\ source \in Findings /\ new \in FindingRows /\ new.ref = Len(ncs) + 1
          /\ new.type = findings[source].type
          /\ new.promotable = findings[source].promotable
  <2> SUFFICES ASSUME source # NoRow
               PROVE  /\ source \in Findings /\ new \in FindingRows
                      /\ new.ref = Len(ncs) + 1 /\ new.type = findings[source].type
                      /\ new.promotable = findings[source].promotable
      OBVIOUS
  <2> PICK old : old = findings[source]
      OBVIOUS
  <2>1. old \in FindingRows /\ source \in Findings
      OBVIOUS
  <2>2. new = [old EXCEPT !.ref = Len(ncs) + 1]
      OBVIOUS
  <2>3. new \in FindingRows /\ new.ref = Len(ncs) + 1 /\ new.type = old.type
        /\ new.promotable = old.promotable
    <3> PICK k : k = Len(ncs) + 1
        OBVIOUS
    <3>1. k \in Nat /\ new = [old EXCEPT !.ref = k]
        BY <1>2, <2>2
    <3>2. new \in FindingRows /\ new.ref = k /\ new.type = old.type
          /\ new.promotable = old.promotable
        BY <2>1, <3>1 DEF FindingRows
    <3>3. QED
        BY <3>2
  <2>4. QED
      BY <2>1, <2>3
<1>5. /\ findings' \in [Findings -> FindingRows \cup {NoRow}]
      /\ \A f \in Findings : f # source => findings'[f] = findings[f]
      /\ source # NoRow => findings'[source] = new
    BY <1>4, RegisterAssumption DEF IInv, TypeOK
<1>6. \A f \in Findings : findings[f] \in FindingRows => findings'[f] \in FindingRows
    BY <1>4, <1>5, RegisterAssumption
<1>7. Grows
    BY <1>1, <1>2, <1>3, <1>6 DEF Grows, Effective, IInv, TypeOK
<1>8. /\ InFlight' /\ req' \in [Workers -> Requests \cup {Idle}]
      /\ overlapped' \in BOOLEAN /\ (~overlapped' => ~overlapped)
    BY <1>7, CommitStep
<1>9. TypeOK'
    BY <1>1, <1>3, <1>5, <1>8 DEF IInv, TypeOK
<1>10. Numbered'
    BY <1>1, <1>3 DEF IInv, Numbered
<1>11. ClosedIsVerified'
    BY <1>1 DEF IInv, ClosedIsVerified
<1>12. \A n \in DOMAIN ncs : ncs[n].source # NoRow =>
           ncs[n].source \in Findings /\ findings[ncs[n].source] \in FindingRows
  <2> TAKE n \in DOMAIN ncs
  <2>1. ncs[n] \in NCRows
      BY DEF IInv, TypeOK
  <2>2. QED
      BY <2>1 DEF IInv, Sourced, NCRows
<1>13. Sourced'
    <2> SUFFICES ASSUME NEW n \in DOMAIN ncs', ncs'[n].source # NoRow
                 PROVE  findings'[ncs'[n].source] \in FindingRows
        BY DEF Sourced
    <2>1. CASE n \in DOMAIN ncs
        BY <2>1, <1>1, <1>6, <1>12
    <2>2. CASE n = Len(ncs) + 1
        BY <2>2, <1>1, <1>4, <1>5
    <2>3. QED
        BY <2>1, <2>2, <1>1
<1>14. RefIsItsOwn'
    <2> SUFFICES ASSUME NEW f \in Findings, findings'[f] # NoRow, findings'[f].ref # 0
                 PROVE  findings'[f].ref \in DOMAIN ncs' /\ ncs'[findings'[f].ref].source = f
        BY DEF RefIsItsOwn
    <2>1. CASE f # source
        BY <2>1, <1>1, <1>5 DEF IInv, RefIsItsOwn
    <2>2. CASE f = source
      <3>1. source # NoRow /\ findings'[f].ref = Len(ncs) + 1
          BY <2>2, <1>4, <1>5, RegisterAssumption
      <3>2. ncs'[Len(ncs) + 1].source = f /\ Len(ncs) + 1 \in DOMAIN ncs'
          BY <2>2, <1>1
      <3>3. QED
          BY <3>1, <3>2
    <2>3. QED
        BY <2>1, <2>2
<1>15. PromotedOnce'
    <2> SUFFICES ASSUME ~overlapped', NEW n \in DOMAIN ncs', ncs'[n].source # NoRow
                 PROVE  findings'[ncs'[n].source].ref = n
        BY DEF PromotedOnce, Serial
    <2>1. CASE n \in DOMAIN ncs
      <3>1. findings[ncs[n].source].ref = n /\ n # 0 /\ ncs[n].source \in Findings
          BY <2>1, <1>1, <1>8, <1>12 DEF IInv, TypeOK, PromotedOnce, Serial
      <3>2. ncs[n].source # source
          BY <3>1, <2>1, <1>1
      <3>3. QED
          BY <3>1, <3>2, <2>1, <1>1, <1>5
    <2>2. CASE n = Len(ncs) + 1
      <3>1. ncs'[n].source = source /\ source # NoRow
          BY <2>2, <1>1
      <3>2. QED
          BY <2>2, <3>1, <1>4, <1>5
    <2>3. QED
        BY <2>1, <2>2, <1>1
<1>16. PromotableByType'
    <2> SUFFICES ASSUME ~overlapped', NEW f \in Findings, findings'[f] # NoRow
                 PROVE  findings'[f].promotable <=> findings'[f].type \in Promotable
        BY DEF PromotableByType, Serial
    <2>1. findings[f] # NoRow =>
              (findings[f].promotable <=> findings[f].type \in Promotable)
        BY <1>8 DEF IInv, PromotableByType, Serial
    <2>2. CASE f # source
        BY <2>1, <2>2, <1>5
    <2>3. CASE f = source
        BY <2>1, <2>3, <1>4, <1>5, RegisterAssumption, NoRowAssumption
    <2>4. QED
        BY <2>2, <2>3
<1>17. QED
    BY <1>8, <1>9, <1>10, <1>11, <1>13, <1>14, <1>15, <1>16 DEF IInv

\* CommitPromote preserves the invariant.
LEMMA CommitPromoteStep ==
    ASSUME IInv, NEW w \in Workers, CommitPromote(w)
    PROVE  IInv' /\ ncs' = Append(ncs, NewNC(Len(ncs) + 1, req[w].finding))
<1> PICK r : r = req[w]
    OBVIOUS
<1>1. r \in Requests /\ Carried(r) /\ (~overlapped => Undisturbed(r))
      /\ r.op = "promote" /\ r.todo = <<>>
    BY AtStage DEF CommitPromote, Ready, Serving
<1>2. /\ r.finding \in Findings /\ findings[r.finding] \in FindingRows
      /\ r.code \in 1 .. Count(NCTable) + 1
    BY <1>1 DEF Carried
<1>3. r.code = Len(ncs) + 1
  <2>1. FreeCode(NCTable, r.code)
      BY DEF CommitPromote
  <2>2. QED
      BY <1>2, <2>1, NextCode DEF Tables, Count
<1>4. /\ ncs' = Append(ncs, NewNC(Len(ncs) + 1, r.finding))
      /\ findings' = [findings EXCEPT ![r.finding].ref = Len(ncs) + 1]
      /\ verifications' = Append(verifications, <<>>)
      /\ req' = [req EXCEPT ![w] = Idle] /\ Overlap(w) /\ UNCHANGED <<others, actions>>
    BY <1>3 DEF CommitPromote, RefOfNew, Finish
<1>5. ~overlapped' => findings[r.finding].ref = 0
    BY <1>1, <1>4 DEF Overlap, Undisturbed
<1>6. r.finding # NoRow
    BY <1>2, RegisterAssumption
<1>7. QED
    BY <1>2, <1>4, <1>5, <1>6, NewNCStep

\* A code is given in another table.
LEMMA OtherTableStep ==
    ASSUME IInv, NEW w \in Workers, NEW t \in OtherTables,
           others' = [others EXCEPT ![t] = Append(others[t], Len(others[t]) + 1)],
           Overlap(w), req' = [req EXCEPT ![w] = Idle],
           UNCHANGED <<findings, ncs, actions, verifications>>
    PROVE  IInv'
<1> PICK list : list = Append(others[t], Len(others[t]) + 1)
    OBVIOUS
<1>1. UNCHANGED <<findings, ncs, actions, verifications>>
    OBVIOUS
<1>2. others[t] \in Seq(Nat) /\ Len(others[t]) + 1 \in Nat
    BY DEF IInv, TypeOK
<1>3. /\ list \in Seq(Nat) /\ Len(list) = Len(others[t]) + 1
      /\ DOMAIN list = DOMAIN others[t] \cup {Len(others[t]) + 1}
      /\ \A n \in DOMAIN others[t] : list[n] = others[t][n]
      /\ list[Len(others[t]) + 1] = Len(others[t]) + 1
    BY <1>2, AppendFacts
<1>4. /\ others' \in [OtherTables -> Seq(Nat)] /\ others'[t] = list
      /\ \A u \in OtherTables : u # t => others'[u] = others[u]
    BY <1>3 DEF IInv, TypeOK
<1>5. Grows
  <2>1. \A u \in OtherTables :
            Len(others[u]) \in Nat /\ Len(others'[u]) \in Nat /\ Len(others[u]) <= Len(others'[u])
    <3> TAKE u \in OtherTables
    <3>1. CASE u = t
        BY <3>1, <1>2, <1>3, <1>4
    <3>2. CASE u # t
        BY <3>2, <1>4 DEF IInv, TypeOK
    <3>3. QED
        BY <3>1, <3>2
  <2>2. QED
      BY <1>1, <2>1 DEF Grows, Effective, IInv, TypeOK
<1>6. /\ InFlight' /\ req' \in [Workers -> Requests \cup {Idle}]
      /\ overlapped' \in BOOLEAN /\ (~overlapped' => ~overlapped)
    BY <1>5, CommitStep
<1>7. TypeOK'
    BY <1>1, <1>4, <1>6 DEF IInv, TypeOK
<1>8. \A u \in OtherTables : \A n \in DOMAIN others'[u] : others'[u][n] = n
  <2> TAKE u \in OtherTables
  <2>1. CASE u = t
      BY <2>1, <1>3, <1>4 DEF IInv, Numbered
  <2>2. CASE u # t
      BY <2>2, <1>4 DEF IInv, Numbered
  <2>3. QED
      BY <2>1, <2>2
<1>9. Numbered'
    BY <1>1, <1>8 DEF IInv, Numbered
<1>10. (Sourced /\ RefIsItsOwn /\ ClosedIsVerified)'
    BY <1>1 DEF IInv, Sourced, RefIsItsOwn, ClosedIsVerified
<1>11. (PromotedOnce /\ PromotableByType)'
    BY <1>1, <1>6 DEF IInv, PromotedOnce, PromotableByType, Serial
<1>12. QED
    BY <1>6, <1>7, <1>9, <1>10, <1>11 DEF IInv

\* CommitCreate preserves the invariant.
LEMMA CommitCreateStep ==
    ASSUME IInv, NEW w \in Workers, CommitCreate(w)
    PROVE  /\ IInv'
           /\ \/ /\ ncs' = Append(ncs, NewNC(Len(ncs) + 1, NoRow))
                 /\ UNCHANGED others
              \/ \E t \in OtherTables :
                     /\ others' = [others EXCEPT ![t] = Append(others[t], Len(others[t]) + 1)]
                     /\ UNCHANGED ncs
<1> PICK r : r = req[w]
    OBVIOUS
<1>1. r \in Requests /\ Carried(r) /\ r.op = "create" /\ r.todo = <<>>
    BY AtStage DEF CommitCreate, Ready, Serving
<1>2. r.table \in Tables /\ r.code \in 1 .. Count(r.table) + 1
    BY <1>1 DEF Carried, Requests
<1>3. r.code = Count(r.table) + 1
  <2>1. FreeCode(r.table, r.code)
      BY DEF CommitCreate
  <2>2. QED
      BY <1>2, <2>1, NextCode
<1>4. req' = [req EXCEPT ![w] = Idle] /\ Overlap(w) /\ UNCHANGED <<findings, actions>>
    BY DEF CommitCreate, Finish
<1>5. CASE r.table = NCTable
  <2>1. r.code = Len(ncs) + 1
      BY <1>3, <1>5 DEF Count
  <2>2. /\ ncs' = Append(ncs, NewNC(Len(ncs) + 1, NoRow))
        /\ verifications' = Append(verifications, <<>>) /\ UNCHANGED others
      BY <1>5, <2>1 DEF CommitCreate
  <2>3. QED
      BY <1>4, <2>2, NewNCStep
<1>6. CASE r.table # NCTable
  <2> PICK t : t = r.table
      OBVIOUS
  <2>1. t \in OtherTables /\ r.code = Len(others[t]) + 1
      BY <1>2, <1>3, <1>6 DEF Count, Tables
  <2>2. /\ others' = [others EXCEPT ![t] = Append(others[t], Len(others[t]) + 1)]
        /\ UNCHANGED <<ncs, verifications>>
      BY <1>6, <2>1 DEF CommitCreate
  <2>3. QED
      BY <1>4, <2>1, <2>2, OtherTableStep
<1>7. QED
    BY <1>5, <1>6

\* RefuseCode preserves the invariant.
LEMMA RefuseCodeStep ==
    ASSUME IInv, NEW w \in Workers, RefuseCode(w)
    PROVE  IInv'
    BY FailStep DEF RefuseCode

----------------------------------------------------------------------------
(* The invariant.                                                          *)

\* Every step preserves the invariant.
LEMMA NextInv == IInv /\ [Next]_vars => IInv'
<1> SUFFICES ASSUME IInv, [Next]_vars PROVE IInv'
    OBVIOUS
<1>1. CASE UNCHANGED vars
  <2>1. UNCHANGED <<findings, ncs, others, actions, verifications, overlapped, req>>
      BY <1>1 DEF vars
  <2>2. (TypeOK /\ Sourced /\ Numbered /\ RefIsItsOwn /\ PromotedOnce)'
      BY <2>1 DEF IInv, TypeOK, Sourced, Numbered, RefIsItsOwn, PromotedOnce, Serial
  <2>3. (PromotableByType /\ ClosedIsVerified)'
      BY <2>1 DEF IInv, PromotableByType, ClosedIsVerified, Serial
  <2>4. ASSUME NEW v \in Workers, NEW q, q = req[v], Carried(q) PROVE Carried(q)'
      BY <2>1, <2>4 DEF Carried, Count, Closing, Effective
  <2>5. ASSUME NEW v \in Workers, NEW q, q = req[v], Undisturbed(q) PROVE Undisturbed(q)'
      BY <2>1, <2>5 DEF Undisturbed, NothingOpen
  <2>6. ASSUME NEW v \in Workers, req'[v] # Idle
        PROVE  Carried(req[v])' /\ (Serial => Alone(v))'
    <3> PICK q : q = req[v]
        OBVIOUS
    <3>1. q = req'[v] /\ Carried(q) /\ (Serial => Alone(v))
        BY <2>1, <2>6 DEF IInv, InFlight
    <3>2. Carried(req[v])'
        BY <2>4, <3>1
    <3>3. Serial => \A u \in Workers \ {v} : req'[u] = Idle
        BY <2>1, <3>1 DEF Alone
    <3>4. Serial => Undisturbed(req[v])'
        BY <2>5, <3>1 DEF Alone
    <3>5. QED
        BY <2>1, <3>2, <3>3, <3>4 DEF Alone, Serial
  <2>7. InFlight'
      BY <2>6 DEF InFlight
  <2>8. QED
      BY <2>2, <2>3, <2>7 DEF IInv
<1>2. CASE Next
  <2> PICK w \in Workers :
        \/ \E f \in Findings :
               \/ \E type \in FindingTypes :
                      CreateFinding(w, f, type) \/ BeginEditFinding(w, f, type)
               \/ InactivateFinding(w, f) \/ BeginPromote(w, f)
        \/ \E t \in Tables : BeginCreate(w, t)
        \/ \E n \in DOMAIN ncs :
               \/ \E a \in Actions, to \in ActionStatus : AddAction(w, a, n, to)
               \/ \E result \in VerificationResult : AddVerification(w, n, result)
               \/ \E action \in DOMAIN Transitions, to \in NCStatus :
                      BeginTransition(w, n, action, to)
        \/ \E a \in Actions, to \in ActionStatus : BeginEditAction(w, a, to)
        \/ CountRecords(w) \/ PassVerified(w) \/ PassActions(w)
        \/ CommitEditFinding(w) \/ CommitCreate(w) \/ CommitPromote(w)
        \/ CommitEditAction(w) \/ CommitTransition(w)
        \/ RefuseCode(w) \/ Fail(w)
      BY <1>2 DEF Next
  <2>1. ASSUME NEW f \in Findings, NEW type \in FindingTypes,
               CreateFinding(w, f, type) \/ BeginEditFinding(w, f, type)
        PROVE  IInv'
      BY <2>1, CreateFindingStep, BeginEditFindingStep
  <2>2. ASSUME NEW f \in Findings, InactivateFinding(w, f) \/ BeginPromote(w, f)
        PROVE  IInv'
      BY <2>2, InactivateFindingStep, BeginPromoteStep
  <2>3. ASSUME NEW t \in Tables, BeginCreate(w, t) PROVE IInv'
      BY <2>3, BeginCreateStep
  <2>4. ASSUME NEW n \in DOMAIN ncs, NEW a \in Actions, NEW to \in ActionStatus,
               AddAction(w, a, n, to)
        PROVE  IInv'
      BY <2>4, AddActionStep
  <2>5. ASSUME NEW n \in DOMAIN ncs, NEW result \in VerificationResult,
               AddVerification(w, n, result)
        PROVE  IInv'
      BY <2>5, AddVerificationStep
  <2>6. ASSUME NEW n \in DOMAIN ncs, NEW action \in DOMAIN Transitions,
               NEW to \in NCStatus, BeginTransition(w, n, action, to)
        PROVE  IInv'
      BY <2>6, BeginTransitionStep
  <2>7. ASSUME NEW a \in Actions, NEW to \in ActionStatus, BeginEditAction(w, a, to)
        PROVE  IInv'
      BY <2>7, BeginEditActionStep
  <2>8. CountRecords(w) \/ PassVerified(w) \/ PassActions(w) => IInv'
      BY CountRecordsStep, PassVerifiedStep, PassActionsStep
  <2>9. CommitEditFinding(w) \/ CommitCreate(w) \/ CommitPromote(w) => IInv'
      BY CommitEditFindingStep, CommitCreateStep, CommitPromoteStep
  <2>10. CommitEditAction(w) \/ CommitTransition(w) => IInv'
      BY CommitEditActionStep, CommitTransitionStep
  <2>11. RefuseCode(w) \/ Fail(w) => IInv'
      BY RefuseCodeStep, FailStep
  <2>12. QED
      BY <2>1, <2>2, <2>3, <2>4, <2>5, <2>6, <2>7, <2>8, <2>9, <2>10, <2>11
<1>3. QED
    BY <1>1, <1>2

\* The invariant holds always.
LEMMA Invariance == Spec => []IInv
<1>1. QED
    BY InitInv, NextInv, PTL DEF Spec

----------------------------------------------------------------------------
(* What follows from it.                                                   *)

\* Whatever overlaps, findings, NCs, actions and the requests in flight keep
\* their types, and a finding points to an NC opened from it.  Serially a
\* finding has at most that one NC, and is promotable as its type says.
THEOREM PromotionSound == Spec => []PromotionIsSound
<1>1. IInv => PromotionIsSound
    BY DEF IInv, PromotionIsSound
<1>2. QED
    BY <1>1, Invariance, PTL

\* Whatever overlaps, no NC is closed that was never verified effective.
THEOREM NoneClosedUnverified == Spec => []ClosedIsVerified
<1>1. IInv => ClosedIsVerified
    BY DEF IInv
<1>2. QED
    BY <1>1, Invariance, PTL

\* Which steps touch an NC that exists, and which only those after it.
LEMMA OldNCs ==
    ASSUME IInv, [Next]_vars, NEW n \in DOMAIN ncs
    PROVE  ncs'[n] = ncs[n] \/ \E w \in Workers : CommitTransition(w) /\ req[w].nc = n
<1>1. CASE \E w \in Workers : CommitTransition(w)
  <2> PICK w \in Workers : CommitTransition(w)
      BY <1>1
  <2> PICK r : r = req[w]
      OBVIOUS
  <2> PICK row : row = [ncs[r.nc] EXCEPT !.status = r.new]
      OBVIOUS
  <2>1. r.nc \in DOMAIN ncs /\ row \in NCRows /\ ncs' = [ncs EXCEPT ![r.nc] = row]
      BY TransitionRow
  <2>2. QED
      BY <2>1, ExceptFacts DEF IInv, TypeOK
<1>2. CASE \E w \in Workers : CommitCreate(w) \/ CommitPromote(w)
  <2> PICK w \in Workers : CommitCreate(w) \/ CommitPromote(w)
      BY <1>2
  <2>1. UNCHANGED ncs \/ \E row : ncs' = Append(ncs, row)
      BY CommitCreateStep, CommitPromoteStep
  <2>2. QED
      BY <2>1 DEF IInv, TypeOK
<1>3. CASE ~ \E w \in Workers : CommitTransition(w) \/ CommitCreate(w) \/ CommitPromote(w)
    BY <1>3 DEF Next, vars, CreateFinding, BeginEditFinding, InactivateFinding,
       BeginPromote, BeginCreate, AddAction, AddVerification, BeginTransition,
       BeginEditAction, CountRecords, PassVerified, PassActions, CommitEditFinding,
       CommitEditAction, RefuseCode, Fail, AtOnce, Begin, Advance
<1>4. QED
    BY <1>1, <1>2, <1>3

\* Serially an NC is closed only when its last verification was effective and
\* none of its actions is open; closed and cancelled ones stay what they are.
THEOREM ClosesOnlyWhenReady == Spec => ClosesWhenReady
<1> DEFINE Gated ==
        ~overlapped' => \A n \in DOMAIN ncs :
          /\ ncs[n].status \in {"closed", "cancelled"} => ncs'[n].status = ncs[n].status
          /\ ncs[n].status # "closed" /\ ncs'[n].status = "closed" =>
                 /\ Last(verifications[n]) = "effective"
                 /\ \A a \in Actions : actions[a] # NoRow /\ actions[a].nc = n =>
                        actions[a].status \in {"done", "cancelled"}
<1>1. ASSUME IInv, [Next]_vars PROVE [Gated]_vars
  <2> SUFFICES ASSUME ~overlapped', NEW n \in DOMAIN ncs, ncs'[n] # ncs[n]
               PROVE  /\ ncs[n].status \notin {"closed", "cancelled"}
                      /\ ncs'[n].status = "closed" =>
                             Last(verifications[n]) = "effective" /\ NothingOpen(n)
      BY DEF NothingOpen, Terminal
  <2> PICK w \in Workers : CommitTransition(w) /\ req[w].nc = n
      BY <1>1, OldNCs
  <2> PICK r : r = req[w]
      OBVIOUS
  <2> PICK row : row = [ncs[r.nc] EXCEPT !.status = r.new]
      OBVIOUS
  <2>1. /\ ~overlapped => Undisturbed(r)
        /\ r.op = "transition" /\ r.todo = <<>> /\ r.nc \in DOMAIN ncs
        /\ row \in NCRows /\ row.status = r.new
        /\ ncs' = [ncs EXCEPT ![r.nc] = row]
        /\ r.old \notin {"closed", "cancelled"}
      BY <1>1, TransitionRow
  <2>2. ncs'[n] = row
      BY <1>1, <2>1, ExceptFacts DEF IInv, TypeOK
  <2>3. Undisturbed(r)
      BY <2>1 DEF CommitTransition, Finish, Overlap
  <2>4. ncs[n].status = r.old
      BY <2>1, <2>3 DEF Undisturbed
  <2>5. r.new = "closed" => Last(verifications[n]) = "effective" /\ NothingOpen(n)
      BY <2>1, <2>3, TodoFacts DEF Undisturbed
  <2>6. QED
      BY <2>1, <2>2, <2>4, <2>5
<1>2. QED
    BY <1>1, Invariance, PTL DEF Spec, ClosesWhenReady

\* An NC's code goes to the end of the codes of its table.
LEMMA AppendedCode ==
    ASSUME IInv, NEW row, ncs' = Append(ncs, row), row.code = Len(ncs) + 1,
           UNCHANGED others
    PROVE  \E t \in Tables :
               [u \in Tables |-> CodesOf(u)]' =
                   [[u \in Tables |-> CodesOf(u)] EXCEPT ![t] = Append(@, Len(@) + 1)]
<1> DEFINE Old == [n \in DOMAIN ncs |-> ncs[n].code]
           New == [n \in DOMAIN ncs' |-> ncs'[n].code]
<1>1. ncs \in Seq(NCRows) /\ Len(ncs) \in Nat
    BY DEF IInv, TypeOK
<1>2. DOMAIN ncs = 1 .. Len(ncs) /\ DOMAIN ncs' = 1 .. Len(ncs) + 1
      /\ ncs'[Len(ncs) + 1] = row /\ \A n \in DOMAIN ncs : ncs'[n] = ncs[n]
    BY <1>1
<1>3. Old \in Seq(Nat) /\ Len(Old) = Len(ncs)
  <2>1. \A n \in DOMAIN ncs : ncs[n].code \in Nat
      BY <1>1, <1>2 DEF IInv, Numbered
  <2>2. QED
      BY <1>1, <1>2, <2>1
<1>4. New = Append(Old, Len(Old) + 1)
    BY <1>1, <1>2, <1>3
<1>5. NCTable \in Tables /\ CodesOf(NCTable) = Old /\ CodesOf(NCTable)' = New
    BY DEF Tables, CodesOf
<1>6. ASSUME NEW u \in Tables, u # NCTable PROVE CodesOf(u)' = CodesOf(u)
    BY <1>6 DEF CodesOf
<1> HIDE DEF Old, New
<1>7. [u \in Tables |-> CodesOf(u)]' =
          [[u \in Tables |-> CodesOf(u)] EXCEPT ![NCTable] = Append(@, Len(@) + 1)]
    BY <1>4, <1>5, <1>6
<1>8. QED
    BY <1>5, <1>7

\* Every other step leaves the codes as they are.
LEMMA OtherSteps ==
    ASSUME IInv, [Next]_vars, ~ \E w \in Workers : CommitCreate(w) \/ CommitPromote(w)
    PROVE  /\ UNCHANGED others /\ DOMAIN ncs' = DOMAIN ncs
           /\ \A n \in DOMAIN ncs : ncs'[n].code = ncs[n].code
<1>1. CASE \E w \in Workers : CommitTransition(w)
  <2> PICK w \in Workers : CommitTransition(w)
      BY <1>1
  <2> PICK r : r = req[w]
      OBVIOUS
  <2> PICK row : row = [ncs[r.nc] EXCEPT !.status = r.new]
      OBVIOUS
  <2>1. r.nc \in DOMAIN ncs /\ row \in NCRows /\ ncs' = [ncs EXCEPT ![r.nc] = row]
        /\ row.code = ncs[r.nc].code
      BY TransitionRow
  <2>2. DOMAIN ncs' = DOMAIN ncs /\ \A n \in DOMAIN ncs : ncs'[n].code = ncs[n].code
      BY <2>1, ExceptFacts DEF IInv, TypeOK
  <2>3. QED
      BY <2>2 DEF CommitTransition
<1>2. CASE ~ \E w \in Workers : CommitTransition(w)
  <2>1. UNCHANGED <<ncs, others>>
      BY <1>2 DEF Next, vars, CreateFinding, BeginEditFinding, InactivateFinding,
         BeginPromote, BeginCreate, AddAction, AddVerification, BeginTransition,
         BeginEditAction, CountRecords, PassVerified, PassActions, CommitEditFinding,
         CommitEditAction, RefuseCode, Fail, AtOnce, Begin, Advance
  <2>2. QED
      BY <2>1
<1>3. QED
    BY <1>1, <1>2

\* However creations and promotions overlap, fail or die, each table's codes
\* are those of the register: the next one is given each time, none is given
\* twice, skipped or taken back.
THEOREM CodesAsInRegister == Spec => CodesInOrder
<1> DEFINE Codes == [t \in Tables |-> CodesOf(t)]
<1>1. Init => Codes = [t \in Tables |-> <<>>]
  <2> SUFFICES ASSUME Init, NEW t \in Tables PROVE CodesOf(t) = <<>>
      OBVIOUS
  <2>1. CASE t = NCTable
      BY <2>1 DEF Init, CodesOf
  <2>2. CASE t # NCTable
      BY <2>2 DEF Init, CodesOf, Tables
  <2>3. QED
      BY <2>1, <2>2
<1>2. ASSUME IInv, [Next]_vars
      PROVE  Codes' = Codes \/ \E t \in Tables :
                 Codes' = [Codes EXCEPT ![t] = Append(@, Len(@) + 1)]
  <2>1. CASE \E w \in Workers : CommitCreate(w) \/ CommitPromote(w)
    <3>1. \/ (\E row : ncs' = Append(ncs, row) /\ row.code = Len(ncs) + 1) /\ UNCHANGED others
          \/ \E t \in OtherTables :
                 /\ others' = [others EXCEPT ![t] = Append(others[t], Len(others[t]) + 1)]
                 /\ UNCHANGED ncs
      <4> PICK w \in Workers : CommitCreate(w) \/ CommitPromote(w)
          BY <2>1
      <4>1. \A source : NewNC(Len(ncs) + 1, source).code = Len(ncs) + 1
          BY DEF NewNC
      <4>2. CASE CommitCreate(w)
          BY <1>2, <4>1, <4>2, CommitCreateStep
      <4>3. CASE CommitPromote(w)
          BY <1>2, <4>1, <4>3, CommitPromoteStep DEF CommitPromote
      <4>4. QED
          BY <4>2, <4>3
    <3>2. CASE (\E row : ncs' = Append(ncs, row) /\ row.code = Len(ncs) + 1)
               /\ UNCHANGED others
        BY <1>2, <3>2, AppendedCode
    <3>3. CASE \E t \in OtherTables :
                 /\ others' = [others EXCEPT ![t] = Append(others[t], Len(others[t]) + 1)]
                 /\ UNCHANGED ncs
      <4> PICK t \in OtherTables :
                 /\ others' = [others EXCEPT ![t] = Append(others[t], Len(others[t]) + 1)]
                 /\ UNCHANGED ncs
          BY <3>3
      <4>1. t \in Tables /\ t # NCTable /\ CodesOf(t) = others[t]
            /\ CodesOf(t)' = Append(others[t], Len(others[t]) + 1)
          BY <1>2, RegisterAssumption DEF Tables, CodesOf, IInv, TypeOK
      <4>2. ASSUME NEW u \in Tables, u # t PROVE CodesOf(u)' = CodesOf(u)
          BY <1>2, <4>2 DEF Tables, CodesOf, IInv, TypeOK
      <4>3. Codes' = [Codes EXCEPT ![t] = Append(@, Len(@) + 1)]
          BY <4>1, <4>2
      <4>4. QED
          BY <4>1, <4>3
    <3>4. QED
        BY <3>1, <3>2, <3>3
  <2>2. CASE ~ \E w \in Workers : CommitCreate(w) \/ CommitPromote(w)
    <3>1. UNCHANGED others /\ DOMAIN ncs' = DOMAIN ncs
          /\ \A n \in DOMAIN ncs : ncs'[n].code = ncs[n].code
        BY <1>2, <2>2, OtherSteps
    <3>2. ASSUME NEW t \in Tables PROVE CodesOf(t)' = CodesOf(t)
        BY <3>1 DEF CodesOf
    <3>3. QED
        BY <3>2
  <2>3. QED
      BY <2>1, <2>2
<1>3. Init => Register!Init
    BY <1>1 DEF Register!Init
<1>4. ASSUME IInv, [Next]_vars
      PROVE  [Register!Next]_([t \in Tables |-> CodesOf(t)])
    BY <1>2, <1>4 DEF Register!Next, Register!Give
<1>5. QED
    BY <1>3, <1>4, Invariance, PTL DEF Spec, CodesInOrder, Register!Spec

=============================================================================
