------------------------------ MODULE GapProofs ------------------------------
(***************************************************************************)
(* What holds of the Gap Analysis for every set of threads, items,         *)
(* releases and assignments.                                               *)
(*                                                                         *)
(* In any interleaving requests find what they have loaded: rows are not   *)
(* deleted (InFlight).  As long as no two have been in flight together,    *)
(* the one that is also finds it as it was (Undisturbed).                  *)
(***************************************************************************)
EXTENDS GapAnalysis, TLAPS

AllRequests == Requests \cup GuidanceRequests \cup {Idle}

\* What is still to be done of a signature and of an approval.
SignTodo == {<<"read", "review", "count">>, <<"review", "count">>, <<"count">>, <<>>}

ApproveTodo == {<<"read", "count">>, <<"count">>, <<>>}

\* What a request in flight carries whatever else happens.
InFlight(r) ==
    /\ r.op = "adopt" =>
           r.seed \in Releases /\ \A x \in Refs : r.known[x] # NoRow => catalog[x] # NoRow
    /\ r.op = "edit" =>
           /\ r.ref \in Refs /\ items[r.ref] # NoRow
           /\ r.loaded \in ItemRows /\ r.row \in ItemRows
    /\ r.op = "move" =>
           /\ r.assignment \in Assignments /\ assignments[r.assignment] # NoRow
           /\ r.to \in {"in_progress", "submitted", "cancelled"}
    /\ r.op = "sign" =>
           r.assignment \in Assignments /\ r.todo \in SignTodo /\ assessment # NoRow
    /\ r.op = "approve" =>
           r.assignment = NoRow /\ r.todo \in ApproveTodo /\ assessment # NoRow
    /\ r.op \in {"adopt", "edit", "move"} => r.todo = <<>>
    /\ r.op = "guide" =>
           \A f \in Fields : r.new[f] # r.loaded[f] => {r.loaded[f], r.new[f]} \subseteq Values

\* What it finds as it has left or read it, when it is alone.
Undisturbed(r) ==
    /\ r.op = "adopt" => r.known = catalog
    /\ r.op = "move" => assignments[r.assignment] \in {"pending", "in_progress"}
    /\ r.op = "sign" => assignments[r.assignment] = "submitted"
    /\ r.op \in {"sign", "approve"} =>
           /\ r.todo \in {<<"review", "count">>, <<"count">>, <<>>} => r.seen = Snapshot(r.op)
           /\ r.todo = <<>> => r.number = Len(baselines) + 1
    /\ r.op \in {"guide", "load"} => r.loaded = content
    /\ r.op = "load" => r.new = [f \in Fields |-> Filled(f, content[f])]

Alone == \A v, w \in Workers : req[v] # Idle /\ req[w] # Idle => v = w

RequestInv ==
    /\ req \in [Workers -> AllRequests]
    /\ overlapped \in BOOLEAN
    /\ \A w \in Workers : req[w] # Idle => InFlight(req[w])
    /\ Serial => Alone /\ \A w \in Workers : req[w] # Idle => Undisturbed(req[w])

RowsTyped ==
    /\ catalog \in [Refs -> CatalogRows \cup {NoRow}]
    /\ items \in Assessed
    /\ assessment \in AssessmentRows \cup {NoRow}
    /\ assignments \in [Assignments -> AssignmentStatus \cup {NoRow}]
    /\ crashes \in 0 .. MaxCrashes

BaselinesTyped ==
    /\ baselines \in Seq(Baselines)
    /\ assessment # NoRow => assessment.current \in {0} \cup DOMAIN baselines

\* There is an assessment as soon as there is anything that belongs to it.
AssessedFirst ==
    assessment = NoRow => baselines = <<>> /\ \A a \in Assignments : assignments[a] = NoRow

\* What the organization has added itself is never discontinued.
OwnAreActive ==
    Serial => \A r \in Refs : catalog[r] # NoRow /\ catalog[r].custom => ~catalog[r].discontinued

\* The inductive invariant, of the rows and of the requests.
StateInv ==
    /\ RowsTyped
    /\ BaselinesTyped
    /\ GuidanceTypeOK
    /\ AssessedFirst
    /\ OwnAreActive
    /\ SignedHasBaseline
    /\ SignedOnce
    /\ BaselinesInOrder
    /\ CatalogFollowsSeed
    /\ GuidanceIsTold

Inv == StateInv /\ RequestInv

\* The invariant holds at first.
LEMMA InitInv == Init => Inv
<1> SUFFICES ASSUME Init PROVE Inv
    OBVIOUS
<1>1. GuidanceTypeOK /\ GuidanceIsTold
  <2>1. content \in Contents
      BY DEF Init, GuidanceInit, Contents, Values
  <2>2. \A f \in Fields : trail[f] = <<>>
      BY DEF Init, GuidanceInit
  <2>3. trail \in [Fields -> Seq(Edits)]
      BY DEF Init, GuidanceInit
  <2>4. QED
      BY <2>1, <2>2, <2>3 DEF GuidanceTypeOK, GuidanceIsTold
<1>2. RowsTyped /\ BaselinesTyped /\ AssessedFirst
    BY GapAssumption DEF Init, RowsTyped, BaselinesTyped, AssessedFirst, Assessed, Nothing
<1>3. /\ OwnAreActive /\ SignedHasBaseline /\ SignedOnce /\ BaselinesInOrder
      /\ CatalogFollowsSeed
    BY NoRowAssumption DEF Init, OwnAreActive, SignedHasBaseline, SignedOnce, BaselinesInOrder,
       CatalogFollowsSeed, Nothing, AssignmentStatus
<1>4. RequestInv
    BY DEF Init, RequestInv, AllRequests, Alone
<1>5. QED
    BY <1>1, <1>2, <1>3, <1>4 DEF Inv, StateInv

\* Nothing is deleted.
Kept ==
    /\ \A x \in Refs : catalog[x] # NoRow => catalog'[x] # NoRow
    /\ \A x \in Refs : items[x] # NoRow => items'[x] # NoRow
    /\ \A a \in Assignments : assignments[a] # NoRow => assignments'[a] # NoRow
    /\ assessment # NoRow => assessment' # NoRow

\* A step of one thread, as far as requests are concerned: the others carry
\* what they carried, and if there is still no overlap, there are none.
LEMMA RequestStep ==
    ASSUME Inv, NEW w \in Workers, NEW r \in AllRequests, req' = [req EXCEPT ![w] = r],
           Overlap(w) \/ (req[w] # Idle /\ r = Idle /\ UNCHANGED overlapped), Kept,
           r # Idle => InFlight(r)', r # Idle /\ Serial' => Undisturbed(r)'
    PROVE  RequestInv' /\ (Serial' => Serial)
<1>1. /\ \A v \in Workers : req'[v] = IF v = w THEN r ELSE req[v]
      /\ req' \in [Workers -> AllRequests] /\ overlapped' \in BOOLEAN
    BY DEF Inv, RequestInv, Overlap
<1>2. Serial' => Serial /\ \A v \in Workers \ {w} : req[v] = Idle
    BY DEF Serial, Overlap, Inv, RequestInv, Alone
<1>3. ASSUME NEW v \in Workers, req'[v] # Idle PROVE InFlight(req[v])'
  <2>1. CASE v = w
      BY <1>1, <1>3, <2>1
  <2>2. CASE v # w
    <3>1. PICK q \in AllRequests : q = req[v] /\ q = req'[v] /\ q # Idle
        BY <1>1, <1>3, <2>2 DEF Inv, RequestInv
    <3>2. InFlight(q)
        BY <3>1 DEF Inv, RequestInv
    <3>3. InFlight(q)'
        BY <3>2 DEF InFlight, Kept
    <3>4. QED
        BY <3>1, <3>3
  <2>3. QED
      BY <2>1, <2>2
<1>4. ASSUME Serial' PROVE Alone' /\ \A v \in Workers : req'[v] # Idle => Undisturbed(req[v])'
    BY <1>1, <1>2, <1>4 DEF Alone
<1>5. QED
    BY <1>1, <1>2, <1>3, <1>4 DEF RequestInv

\* A step that leaves the rows alone.
LEMMA QuietRows ==
    ASSUME Inv, UNCHANGED <<work, assessment, baselines, assignments, guidanceVars>>,
           crashes' \in 0 .. MaxCrashes, Serial' => Serial
    PROVE  StateInv' /\ Kept
<1>1. RowsTyped' /\ BaselinesTyped' /\ GuidanceTypeOK' /\ AssessedFirst' /\ Kept
    BY DEF Inv, StateInv, RowsTyped, BaselinesTyped, GuidanceTypeOK, AssessedFirst, Kept, work,
       guidanceVars
<1>2. OwnAreActive' /\ SignedHasBaseline' /\ SignedOnce' /\ BaselinesInOrder' /\ CatalogFollowsSeed'
    BY DEF Inv, StateInv, OwnAreActive, SignedHasBaseline, SignedOnce, BaselinesInOrder,
       CatalogFollowsSeed, work
<1>3. GuidanceIsTold'
    BY DEF Inv, StateInv, GuidanceIsTold, guidanceVars
<1>4. QED
    BY <1>1, <1>2, <1>3 DEF StateInv

----------------------------------------------------------------------------
(* Requests that begin, and that end without a write.                      *)

\* A request of the organization that begins.
LEMMA BeginStep ==
    ASSUME Inv, NEW w \in Workers, NEW r \in AllRequests, Begin(w, r), InFlight(r),
           Serial => Undisturbed(r)
    PROVE  Inv'
<1>1. /\ req' = [req EXCEPT ![w] = r] /\ Overlap(w)
      /\ UNCHANGED <<work, assessment, baselines, assignments, crashes, guidanceVars>>
    BY DEF Begin
<1>2. crashes' \in 0 .. MaxCrashes /\ (Serial' => Serial)
    BY <1>1 DEF Inv, StateInv, RowsTyped, Serial, Overlap, RequestInv
<1>3. InFlight(r)' /\ (Serial' => Undisturbed(r)')
    BY <1>1, <1>2 DEF InFlight, Undisturbed, Snapshot, work, guidanceVars
<1>4. StateInv' /\ Kept
    BY <1>1, <1>2, QuietRows
<1>5. QED
    BY <1>1, <1>3, <1>4, RequestStep DEF Inv

\* A request on the guidance that begins.
LEMMA BeginOnContentStep ==
    ASSUME Inv, NEW w \in Workers, NEW r \in AllRequests, BeginOnContent(w, r), Apart, InFlight(r),
           Serial => Undisturbed(r)
    PROVE  Inv'
BY BeginStep DEF BeginOnContent, Apart, Begin

\* A request that ends without a write.
LEMMA EndStep ==
    ASSUME Inv, NEW w \in Workers, RefuseAdopt(w) \/ Crash(w) PROVE Inv'
<1>1. /\ req' = [req EXCEPT ![w] = Idle]
      /\ Overlap(w) \/ (req[w] # Idle /\ UNCHANGED overlapped)
      /\ UNCHANGED <<work, assessment, baselines, assignments, guidanceVars>>
    BY DEF RefuseAdopt, Crash, Finish
<1>2. crashes' \in 0 .. MaxCrashes
    BY GapAssumption DEF Inv, StateInv, RowsTyped, RefuseAdopt, Crash, Finish
<1>3. Serial' => Serial
    BY <1>1 DEF Serial, Overlap
<1>4. StateInv' /\ Kept
    BY <1>1, <1>2, <1>3, QuietRows
<1>5. QED
    BY <1>1, <1>4, RequestStep DEF Inv, AllRequests

\* The fields of a request of the organization.
LEMMA NewRequest ==
    ASSUME NEW op \in {"adopt", "edit", "move", "sign", "approve"}, NEW todo \in Seq(Stages)
    PROVE  /\ Request(op, todo) \in Requests
           /\ \A s \in Releases, known \in [Refs -> CatalogRows \cup {NoRow}] :
                  [Request(op, todo) EXCEPT !.seed = s, !.known = known] \in Requests
           /\ \A x \in Refs, old, new \in ItemRows :
                  [Request(op, todo) EXCEPT !.ref = x, !.loaded = old, !.row = new] \in Requests
           /\ \A a \in Assignments, to \in AssignmentStatus :
                  [Request(op, todo) EXCEPT !.assignment = a, !.to = to] \in Requests
           /\ \A a \in Assignments : [Request(op, todo) EXCEPT !.assignment = a] \in Requests
<1>1. Nothing \in [Refs -> CatalogRows \cup {NoRow}] /\ Nothing \in Snapshots /\ 0 \in Nat
    BY DEF Nothing, Snapshots
<1>2. Request(op, todo) \in Requests
    BY <1>1 DEF Request, Requests
<1>3. QED
    BY <1>2 DEF Requests

\* What remains to be done are stages.
LEMMA TodoTyped == SignTodo \cup ApproveTodo \subseteq Seq(Stages)
BY DEF SignTodo, ApproveTodo, Stages

\* The requests that begin preserve the invariant.
LEMMA Begins ==
    ASSUME Inv, NEW w \in Workers,
           \/ \E x \in Refs, status \in Statuses \cup {NoRow}, justified \in BOOLEAN \cup {NoRow} :
                  BeginEdit(w, x, status, justified)
           \/ \E s \in Releases : BeginAdopt(w, s)
           \/ BeginApprove(w)
           \/ \E a \in Assignments :
                  BeginSign(w, a) \/ Claim(w, a) \/ Submit(w, a) \/ CancelAssignment(w, a)
    PROVE  Inv'
<1>0. <<>> \in Seq(Stages) /\ <<"read", "count">> \in Seq(Stages)
      /\ <<"read", "review", "count">> \in Seq(Stages)
    BY TodoTyped DEF SignTodo, ApproveTodo
<1>1. ASSUME NEW x \in Refs, NEW status \in Statuses \cup {NoRow},
             NEW justified \in BOOLEAN \cup {NoRow}, BeginEdit(w, x, status, justified)
      PROVE  Inv'
  <2>1. PICK old : old = items[x]
      OBVIOUS
  <2>2. PICK new : new = Merged(old, status, justified)
      OBVIOUS
  <2>3. PICK r : r = [Request("edit", <<>>) EXCEPT !.ref = x, !.loaded = old, !.row = new]
      OBVIOUS
  <2>4. Begin(w, r) /\ old # NoRow /\ old \in ItemRows
      BY <1>1, <2>1, <2>2, <2>3 DEF BeginEdit, Inv, StateInv, RowsTyped, Assessed
  <2>5. new \in ItemRows
    <3>1. old.status \in Statuses /\ old.justified \in BOOLEAN
        BY <2>4 DEF ItemRows
    <3>2. QED
        BY <3>1, <2>2 DEF Merged, ItemRows
  <2>6. r \in Requests
      BY <1>0, <2>3, <2>4, <2>5, NewRequest
  <2>7. /\ r.op = "edit" /\ r.todo = <<>> /\ r.ref = x /\ r.loaded = old /\ r.row = new
      BY <2>3 DEF Request
  <2>8. InFlight(r) /\ Undisturbed(r)
      BY <2>1, <2>4, <2>5, <2>7 DEF InFlight, Undisturbed, Snapshot
  <2>9. QED
      BY <2>4, <2>6, <2>8, BeginStep DEF AllRequests
<1>2. ASSUME NEW s \in Releases, BeginAdopt(w, s) PROVE Inv'
  <2>1. PICK r : r = [Request("adopt", <<>>) EXCEPT !.seed = s, !.known = catalog]
      OBVIOUS
  <2>2. r \in Requests
      BY <1>0, <2>1, NewRequest DEF Inv, StateInv, RowsTyped
  <2>3. r.op = "adopt" /\ r.todo = <<>> /\ r.seed = s /\ r.known = catalog
      BY <2>1 DEF Request
  <2>4. InFlight(r) /\ Undisturbed(r)
      BY <2>3 DEF InFlight, Undisturbed, Snapshot
  <2>5. QED
      BY <1>2, <2>1, <2>2, <2>4, BeginStep DEF BeginAdopt, AllRequests
<1>3. CASE BeginApprove(w)
  <2>1. PICK r : r = Request("approve", <<"read", "count">>)
      OBVIOUS
  <2>2. r \in Requests
      BY <1>0, <2>1, NewRequest
  <2>3. r.op = "approve" /\ r.todo = <<"read", "count">> /\ r.assignment = NoRow
      BY <2>1 DEF Request
  <2>4. assessment # NoRow /\ Begin(w, r)
      BY <1>3, <2>1 DEF BeginApprove
  <2>5. /\ <<"read", "count">> # <<"review", "count">> /\ <<"read", "count">> # <<"count">>
        /\ <<"read", "count">> # <<>>
      OBVIOUS
  <2>6. InFlight(r) /\ Undisturbed(r)
      BY <2>3, <2>4, <2>5 DEF InFlight, Undisturbed, Snapshot, ApproveTodo
  <2>7. QED
      BY <2>2, <2>4, <2>6, BeginStep DEF AllRequests
<1>4. ASSUME NEW a \in Assignments, BeginSign(w, a) PROVE Inv'
  <2>1. PICK todo : todo = <<"read", "review", "count">>
      OBVIOUS
  <2>2. PICK r : r = [Request("sign", todo) EXCEPT !.assignment = a]
      OBVIOUS
  <2>3. r \in Requests
      BY <1>0, <2>1, <2>2, NewRequest
  <2>4. r.op = "sign" /\ r.todo = todo /\ r.assignment = a
      BY <2>2 DEF Request
  <2>5. assignments[a] = "submitted" /\ Begin(w, r)
      BY <1>4, <2>1, <2>2 DEF BeginSign, MaySign
  <2>6. assignments[a] # NoRow
      BY <2>5, NoRowAssumption DEF AssignmentStatus
  <2>7. assessment # NoRow
      BY <2>6 DEF Inv, StateInv, AssessedFirst
  <2>8. todo \in SignTodo /\ todo \notin {<<"review", "count">>, <<"count">>, <<>>}
      BY <2>1 DEF SignTodo
  <2>9. InFlight(r) /\ Undisturbed(r)
      BY <2>4, <2>5, <2>7, <2>8 DEF InFlight, Undisturbed, Snapshot
  <2>10. QED
      BY <2>3, <2>5, <2>9, BeginStep DEF AllRequests
<1>5. ASSUME NEW a \in Assignments, NEW to \in {"in_progress", "submitted", "cancelled"},
             assignments[a] \in {"pending", "in_progress"}, BeginMove(w, a, to)
      PROVE  Inv'
  <2>1. PICK r : r = [Request("move", <<>>) EXCEPT !.assignment = a, !.to = to]
      OBVIOUS
  <2>2. r \in Requests
      BY <1>0, <2>1, NewRequest DEF AssignmentStatus
  <2>3. r.op = "move" /\ r.todo = <<>> /\ r.assignment = a /\ r.to = to
      BY <2>1 DEF Request
  <2>4. assignments[a] # NoRow
      BY <1>5, NoRowAssumption DEF AssignmentStatus
  <2>5. InFlight(r) /\ Undisturbed(r)
      BY <1>5, <2>3, <2>4 DEF InFlight, Undisturbed, Snapshot
  <2>6. QED
      BY <1>5, <2>1, <2>2, <2>5, BeginStep DEF BeginMove, AllRequests
<1>6. QED
    BY <1>1, <1>2, <1>3, <1>4, <1>5 DEF Claim, Submit, CancelAssignment

\* A field as a load fills it.
LEMMA FilledTyped ==
    ASSUME NEW f \in Fields, NEW old \in Values \cup {NoRow}
    PROVE  Filled(f, old) \in Values
BY DEF Filled, Values

\* The requests on the guidance that begin preserve the invariant.
LEMMA GuidanceBegins ==
    ASSUME Inv, NEW w \in Workers, BeginGuidance(w), Apart PROVE Inv'
<1>0. content \in Contents
    BY DEF Inv, StateInv, GuidanceTypeOK
<1>1. CASE BeginLoad(w)
  <2>1. PICK new : new = [f \in Fields |-> Filled(f, content[f])]
      OBVIOUS
  <2>2. PICK r : r = [op |-> "load", target |-> NoRow, loaded |-> content, new |-> new]
      OBVIOUS
  <2>3. new \in Contents
      BY <1>0, <2>1, FilledTyped DEF Contents
  <2>4. r \in GuidanceRequests
      BY <1>0, <2>2, <2>3 DEF GuidanceRequests
  <2>5. InFlight(r) /\ Undisturbed(r)
      BY <2>1, <2>2 DEF InFlight, Undisturbed, Snapshot
  <2>6. QED
      BY <1>1, <2>1, <2>2, <2>4, <2>5, BeginOnContentStep DEF BeginLoad, AllRequests
<1>2. ASSUME NEW target \in Targets, NEW patch \in [Fields -> Texts \cup {Empty, NoRow}],
             BeginGuide(w, target, patch)
      PROVE  Inv'
  <2>1. PICK new : new = Patched(target, patch)
      OBVIOUS
  <2>2. PICK r : r = [op |-> "guide", target |-> target, loaded |-> content, new |-> new]
      OBVIOUS
  <2>3. \A f \in Fields : /\ new[f] \in Values \cup {NoRow}
                          /\ new[f] # content[f] => {content[f], new[f]} \subseteq Values
      BY <1>0, <1>2, <2>1 DEF Patched, Contents, Values, BeginGuide
  <2>4. r \in GuidanceRequests
    <3>1. new \in Contents
        BY <2>1, <2>3 DEF Patched, Contents
    <3>2. QED
        BY <1>0, <2>2, <3>1 DEF GuidanceRequests
  <2>5. InFlight(r) /\ Undisturbed(r)
      BY <2>2, <2>3 DEF InFlight, Undisturbed, Snapshot
  <2>6. QED
      BY <1>2, <2>1, <2>2, <2>4, <2>5, BeginOnContentStep DEF BeginGuide, AllRequests
<1>3. QED
    BY <1>1, <1>2 DEF BeginGuidance, UpdateItemGuidance, UpdateLegend

----------------------------------------------------------------------------
(* Steps that write rows.                                                  *)

\* What does not read the rows a step writes stays as it is.
LEMMA GuidanceSame ==
    ASSUME Inv, UNCHANGED guidanceVars, Serial' => Serial
    PROVE  GuidanceTypeOK' /\ GuidanceIsTold'
BY DEF Inv, StateInv, GuidanceTypeOK, GuidanceIsTold, guidanceVars

\* The catalog, and the seed it follows.
LEMMA CatalogSame ==
    ASSUME Inv, UNCHANGED catalog, Serial' => Serial,
           assessment' # NoRow => assessment # NoRow /\ assessment'.seed = assessment.seed
    PROVE  OwnAreActive' /\ CatalogFollowsSeed'
BY DEF Inv, StateInv, OwnAreActive, CatalogFollowsSeed

\* The baselines, and who signed them.
LEMMA BaselinesSame ==
    ASSUME Inv, UNCHANGED <<baselines, assignments>>, Serial' => Serial, assessment # NoRow,
           assessment'.current = assessment.current
    PROVE  SignedHasBaseline' /\ SignedOnce' /\ BaselinesInOrder'
BY DEF Inv, StateInv, SignedHasBaseline, SignedOnce, BaselinesInOrder

\* Who signed a baseline is an assignment.
LEMMA SignersTyped ==
    ASSUME Inv, NEW b \in DOMAIN baselines
    PROVE  baselines[b] \in Baselines /\ baselines[b].by \in Assignments \cup {NoRow}
<1>1. baselines[b] \in Baselines
    BY DEF Inv, StateInv, BaselinesTyped
<1>2. QED
    BY <1>1 DEF Baselines

\* A step that writes, and begins and ends no other request than its own.
LEMMA WriteStep ==
    ASSUME Inv, NEW w \in Workers, NEW r \in AllRequests, req' = [req EXCEPT ![w] = r], Overlap(w),
           UNCHANGED crashes, Kept, r # Idle => InFlight(r)',
           r # Idle /\ Serial' => Undisturbed(r)',
           (Serial' => Serial) =>
               /\ catalog' \in [Refs -> CatalogRows \cup {NoRow}]
               /\ items' \in Assessed
               /\ assessment' \in AssessmentRows \cup {NoRow}
               /\ assignments' \in [Assignments -> AssignmentStatus \cup {NoRow}]
               /\ BaselinesTyped' /\ GuidanceTypeOK' /\ AssessedFirst' /\ OwnAreActive'
               /\ SignedHasBaseline' /\ SignedOnce' /\ BaselinesInOrder'
               /\ CatalogFollowsSeed' /\ GuidanceIsTold'
    PROVE  Inv'
<1>1. RequestInv' /\ (Serial' => Serial)
    BY RequestStep
<1>2. RowsTyped'
    BY <1>1 DEF RowsTyped, Inv, StateInv
<1>3. QED
    BY <1>1, <1>2 DEF Inv, StateInv

\* A step that answers at once is one of a request that is never seen.
LEMMA AtOnceIs ==
    ASSUME Inv, NEW w \in Workers, AtOnce(w)
    PROVE  /\ req' = [req EXCEPT ![w] = Idle] /\ Overlap(w)
           /\ UNCHANGED <<crashes, guidanceVars>>
           /\ Serial' => Serial
BY DEF AtOnce, Inv, RequestInv, Overlap, Serial

\* The steps that answer at once.
LEMMA AtOnceSteps ==
    ASSUME Inv, NEW w \in Workers,
           \/ \E x \in Refs : CreateCatalogItem(w, x)
           \/ SubmitReview(w)
           \/ \E a \in Assignments : CreateAssignment(w, a)
    PROVE  Inv'
<1>1. AtOnce(w)
    BY DEF CreateCatalogItem, SubmitReview, CreateAssignment
<1>2. /\ req' = [req EXCEPT ![w] = Idle] /\ Overlap(w) /\ UNCHANGED <<crashes, guidanceVars>>
      /\ Serial' => Serial
      /\ Idle \in AllRequests
    BY <1>1, AtOnceIs DEF AllRequests
<1>3. GuidanceTypeOK' /\ GuidanceIsTold'
    BY <1>2, GuidanceSame
<1>4. ASSUME NEW x \in Refs, CreateCatalogItem(w, x) PROVE Inv'
  <2>1. PICK row : row = [custom |-> TRUE, discontinued |-> FALSE]
      OBVIOUS
  <2>2. row \in CatalogRows /\ row # NoRow /\ row.custom /\ ~row.discontinued
    <3>1. row \in CatalogRows
        BY <2>1 DEF CatalogRows
    <3>2. row.custom = TRUE /\ row.discontinued = FALSE
        BY <2>1
    <3>3. QED
        BY <3>1, <3>2, NoRowAssumption
  <2>3. /\ catalog[x] = NoRow /\ catalog' = [catalog EXCEPT ![x] = row]
        /\ UNCHANGED <<items, assessment, baselines, assignments>>
      BY <1>4, <2>1 DEF CreateCatalogItem
  <2>4. catalog' \in [Refs -> CatalogRows \cup {NoRow}]
        /\ \A y \in Refs : catalog'[y] = IF y = x THEN row ELSE catalog[y]
      BY <2>2, <2>3 DEF Inv, StateInv, RowsTyped
  <2>5. OwnAreActive' /\ CatalogFollowsSeed'
    <3>1. OwnAreActive'
        BY <1>2, <2>2, <2>4 DEF Inv, StateInv, OwnAreActive
    <3>2. Seeded \subseteq Refs
        BY DEF Refs
    <3>3. CatalogFollowsSeed'
        BY <1>2, <2>2, <2>3, <2>4, <3>2 DEF Inv, StateInv, CatalogFollowsSeed
    <3>4. QED
        BY <3>1, <3>3
  <2>6. SignedHasBaseline' /\ SignedOnce' /\ BaselinesInOrder' /\ AssessedFirst' /\ BaselinesTyped'
      BY <1>2, <2>3 DEF Inv, StateInv, SignedHasBaseline, SignedOnce, BaselinesInOrder,
         AssessedFirst, BaselinesTyped
  <2>7. Kept
      BY <2>2, <2>3, <2>4 DEF Kept
  <2>8. items' \in Assessed /\ assessment' \in AssessmentRows \cup {NoRow}
        /\ assignments' \in [Assignments -> AssignmentStatus \cup {NoRow}]
      BY <2>3 DEF Inv, StateInv, RowsTyped
  <2>9. QED
      BY <1>2, <1>3, <2>4, <2>5, <2>6, <2>7, <2>8, WriteStep
<1>5. CASE SubmitReview(w)
  <2>1. /\ assessment \in AssessmentRows /\ UNCHANGED <<work, baselines, assignments>>
        /\ assessment' = [assessment EXCEPT !.draft = "in_review"]
      BY <1>5 DEF SubmitReview, Inv, StateInv, RowsTyped
  <2>2. /\ assessment' \in AssessmentRows /\ assessment'.seed = assessment.seed
        /\ assessment'.current = assessment.current /\ assessment # NoRow /\ assessment' # NoRow
      BY <2>1, NoRowAssumption DEF AssessmentRows
  <2>3. UNCHANGED <<catalog, items>>
      BY <2>1 DEF work
  <2>4. /\ OwnAreActive' /\ CatalogFollowsSeed' /\ SignedHasBaseline' /\ SignedOnce'
        /\ BaselinesInOrder'
      BY <1>2, <2>1, <2>2, <2>3, CatalogSame, BaselinesSame
  <2>5. AssessedFirst' /\ BaselinesTyped' /\ Kept
      BY <2>1, <2>2, <2>3 DEF Inv, StateInv, AssessedFirst, BaselinesTyped, Kept
  <2>6. catalog' \in [Refs -> CatalogRows \cup {NoRow}] /\ items' \in Assessed
        /\ assignments' \in [Assignments -> AssignmentStatus \cup {NoRow}]
      BY <2>1, <2>3 DEF Inv, StateInv, RowsTyped
  <2>7. QED
      BY <1>2, <1>3, <2>2, <2>4, <2>5, <2>6, WriteStep
<1>6. ASSUME NEW a \in Assignments, CreateAssignment(w, a) PROVE Inv'
  <2>1. /\ assessment # NoRow /\ assignments[a] = NoRow
        /\ assignments' = [assignments EXCEPT ![a] = "pending"]
        /\ UNCHANGED <<catalog, items, assessment, baselines>>
      BY <1>6 DEF CreateAssignment, work
  <2>2. assignments' \in [Assignments -> AssignmentStatus \cup {NoRow}]
        /\ \A c \in Assignments : assignments'[c] = IF c = a THEN "pending" ELSE assignments[c]
      BY <2>1 DEF Inv, StateInv, RowsTyped, AssignmentStatus
  <2>3. "pending" # NoRow /\ "signed" # NoRow
      BY NoRowAssumption DEF AssignmentStatus
  <2>4. SignedHasBaseline'
      BY <2>1, <2>2 DEF Inv, StateInv, SignedHasBaseline
  <2>5. SignedOnce'
    <3>1. ASSUME NEW b \in DOMAIN baselines, baselines[b].by # NoRow
          PROVE  baselines[b].by \in Assignments
        BY <3>1, SignersTyped
    <3>2. QED
        BY <1>2, <2>1, <2>2, <2>3, <3>1 DEF Inv, StateInv, SignedOnce
  <2>6. OwnAreActive' /\ CatalogFollowsSeed' /\ BaselinesInOrder' /\ AssessedFirst'
        /\ BaselinesTyped'
      BY <1>2, <2>1 DEF Inv, StateInv, BaselinesInOrder, AssessedFirst, BaselinesTyped,
         OwnAreActive, CatalogFollowsSeed
  <2>7. Kept
      BY <2>1, <2>2, <2>3 DEF Kept
  <2>8. catalog' \in [Refs -> CatalogRows \cup {NoRow}] /\ items' \in Assessed
        /\ assessment' \in AssessmentRows \cup {NoRow}
      BY <2>1 DEF Inv, StateInv, RowsTyped
  <2>9. QED
      BY <1>2, <1>3, <2>2, <2>4, <2>5, <2>6, <2>7, <2>8, WriteStep
<1>7. QED
    BY <1>4, <1>5, <1>6

\* The request a thread serves is what the invariant says of it.
LEMMA Served ==
    ASSUME Inv, NEW w \in Workers, req[w] # Idle
    PROVE  /\ req[w] \in Requests \cup GuidanceRequests
           /\ InFlight(req[w])
           /\ Serial => Undisturbed(req[w])
           /\ req[w].op \in {"adopt", "edit", "move", "sign", "approve"} => req[w] \in Requests
           /\ req[w].op \in {"guide", "load"} => req[w] \in GuidanceRequests
BY DEF Inv, RequestInv, AllRequests, Requests, GuidanceRequests

\* A request that ends.
LEMMA FinishIs ==
    ASSUME Inv, NEW w \in Workers, Finish(w)
    PROVE  /\ req' = [req EXCEPT ![w] = Idle] /\ Overlap(w) /\ Idle \in AllRequests
           /\ UNCHANGED <<crashes, guidanceVars>>
           /\ Serial' => Serial
           /\ GuidanceTypeOK' /\ GuidanceIsTold'
<1>1. /\ req' = [req EXCEPT ![w] = Idle] /\ Overlap(w) /\ Idle \in AllRequests
      /\ UNCHANGED <<crashes, guidanceVars>> /\ (Serial' => Serial)
    BY DEF Finish, Overlap, Serial, AllRequests
<1>2. QED
    BY <1>1, GuidanceSame

\* CommitEdit and CommitMove preserve the invariant.
LEMMA CommitRow ==
    ASSUME Inv, NEW w \in Workers, CommitEdit(w) \/ CommitMove(w) PROVE Inv'
<1>1. PICK q : q = req[w]
    OBVIOUS
<1>2. /\ q # Idle /\ q.op \in {"edit", "move"} /\ InFlight(q) /\ (Serial => Undisturbed(q))
      /\ Finish(w)
    BY <1>1, Served DEF CommitEdit, CommitMove, Serving
<1>3. CASE CommitEdit(w)
  <2>1. q.op = "edit" /\ UNCHANGED <<catalog, assessment, baselines, assignments>>
      BY <1>1, <1>3 DEF CommitEdit, Serving
  <2>2. PICK row : row = [c \in {"status", "justified"} |->
                              Column(items[q.ref][c], q.loaded[c], q.row[c])]
      OBVIOUS
  <2>3. items' = [items EXCEPT ![q.ref] = row]
      BY <1>1, <1>3, <2>2 DEF CommitEdit
  <2>4. q.ref \in Refs /\ items[q.ref] \in ItemRows /\ q.loaded \in ItemRows /\ q.row \in ItemRows
      BY <1>2, <2>1 DEF InFlight, Inv, StateInv, RowsTyped, Assessed
  <2>5. row \in ItemRows /\ row # NoRow
    <3>1. row = [status |-> row.status, justified |-> row.justified]
        BY <2>2
    <3>2. row.status \in Statuses /\ row.justified \in BOOLEAN
        BY <2>2, <2>4 DEF Column, ItemRows
    <3>3. row \in ItemRows
        BY <3>1, <3>2 DEF ItemRows
    <3>4. QED
        BY <3>3, NoRowAssumption
  <2>6. items' \in Assessed /\ \A x \in Refs : items[x] # NoRow => items'[x] # NoRow
      BY <2>3, <2>4, <2>5 DEF Inv, StateInv, RowsTyped, Assessed
  <2>7. Kept
      BY <2>1, <2>6 DEF Kept
  <2>8. /\ OwnAreActive' /\ CatalogFollowsSeed' /\ BaselinesInOrder' /\ AssessedFirst'
        /\ BaselinesTyped' /\ SignedHasBaseline' /\ SignedOnce'
      BY <1>2, <2>1, FinishIs DEF Inv, StateInv, BaselinesInOrder, AssessedFirst, BaselinesTyped,
         OwnAreActive, CatalogFollowsSeed, SignedHasBaseline, SignedOnce
  <2>9. /\ catalog' \in [Refs -> CatalogRows \cup {NoRow}]
        /\ assessment' \in AssessmentRows \cup {NoRow}
        /\ assignments' \in [Assignments -> AssignmentStatus \cup {NoRow}]
      BY <2>1 DEF Inv, StateInv, RowsTyped
  <2>10. QED
      BY <1>2, <2>6, <2>7, <2>8, <2>9, FinishIs, WriteStep
<1>4. CASE CommitMove(w)
  <2>1. q.op = "move" /\ UNCHANGED <<catalog, items, assessment, baselines>>
      BY <1>1, <1>4 DEF CommitMove, Serving, work
  <2>2. PICK a \in Assignments : a = q.assignment
      BY <1>2, <2>1 DEF InFlight
  <2>3. PICK to \in {"in_progress", "submitted", "cancelled"} : to = q.to
      BY <1>2, <2>1 DEF InFlight
  <2>4. assignments' = [assignments EXCEPT ![a] = to]
      BY <1>1, <1>4, <2>2, <2>3 DEF CommitMove
  <2>5. /\ assignments' \in [Assignments -> AssignmentStatus \cup {NoRow}]
        /\ \A c \in Assignments : assignments'[c] = IF c = a THEN to ELSE assignments[c]
      BY <2>4 DEF Inv, StateInv, RowsTyped, AssignmentStatus
  <2>6. to # NoRow /\ to # "signed" /\ assignments[a] # NoRow
      BY <1>2, <2>1, <2>2, NoRowAssumption DEF AssignmentStatus, InFlight
  <2>7. SignedHasBaseline'
      BY <2>1, <2>5, <2>6 DEF Inv, StateInv, SignedHasBaseline
  <2>8. SignedOnce'
    <3>1. ASSUME NEW b \in DOMAIN baselines, baselines[b].by # NoRow
          PROVE  baselines[b].by \in Assignments
        BY <3>1, SignersTyped
    <3>2. Serial => assignments[a] # "signed"
        BY <1>2, <2>1, <2>2 DEF Undisturbed, Snapshot
    <3>3. QED
        BY <1>2, <2>1, <2>5, <3>1, <3>2, FinishIs DEF Inv, StateInv, SignedOnce
  <2>9. OwnAreActive' /\ CatalogFollowsSeed' /\ BaselinesInOrder' /\ AssessedFirst'
        /\ BaselinesTyped'
      BY <1>2, <2>1, <2>2, <2>6, FinishIs DEF Inv, StateInv, BaselinesInOrder, AssessedFirst,
         BaselinesTyped, OwnAreActive, CatalogFollowsSeed
  <2>10. Kept
      BY <2>1, <2>5, <2>6 DEF Kept
  <2>11. catalog' \in [Refs -> CatalogRows \cup {NoRow}] /\ items' \in Assessed
         /\ assessment' \in AssessmentRows \cup {NoRow}
      BY <2>1 DEF Inv, StateInv, RowsTyped
  <2>12. QED
      BY <1>2, <2>5, <2>7, <2>8, <2>9, <2>10, <2>11, FinishIs, WriteStep
<1>5. QED
    BY <1>3, <1>4

----------------------------------------------------------------------------
(* Signing and approving.                                                  *)

\* What follows each stage.
LEMMA SignStages ==
    ASSUME NEW todo \in SignTodo, todo # <<>>
    PROVE  /\ Tail(todo) \in SignTodo
           /\ Head(todo) = "read" => Tail(todo) = <<"review", "count">>
           /\ Head(todo) = "review" => todo = <<"review", "count">> /\ Tail(todo) = <<"count">>
           /\ Head(todo) = "count" => todo = <<"count">> /\ Tail(todo) = <<>>
<1>1. CASE todo = <<"read", "review", "count">>
    BY <1>1 DEF SignTodo
<1>2. CASE todo = <<"review", "count">>
    BY <1>2 DEF SignTodo
<1>3. CASE todo = <<"count">>
    BY <1>3 DEF SignTodo
<1>4. QED
    BY <1>1, <1>2, <1>3 DEF SignTodo

\* The same of an approval.
LEMMA ApproveStages ==
    ASSUME NEW todo \in ApproveTodo, todo # <<>>
    PROVE  /\ Tail(todo) \in ApproveTodo
           /\ Head(todo) = "read" => Tail(todo) = <<"count">>
           /\ Head(todo) # "review"
           /\ Head(todo) = "count" => todo = <<"count">> /\ Tail(todo) = <<>>
<1>1. CASE todo = <<"read", "count">>
    BY <1>1 DEF ApproveTodo
<1>2. CASE todo = <<"count">>
    BY <1>2 DEF ApproveTodo
<1>3. QED
    BY <1>1, <1>2 DEF ApproveTodo

\* A request that has stages left is a signature or an approval.
LEMMA Staged ==
    ASSUME Inv, NEW w \in Workers, NEW stage, NextTodo(w, stage)
    PROVE  /\ req[w] # Idle /\ req[w] \in Requests /\ req[w].op \in {"sign", "approve"}
           /\ req[w].todo # <<>> /\ Head(req[w].todo) = stage
           /\ req[w].op = "sign" => req[w].todo \in SignTodo
           /\ req[w].op = "approve" => req[w].todo \in ApproveTodo
           /\ assessment # NoRow /\ assessment \in AssessmentRows
<1>1. PICK q : q = req[w]
    OBVIOUS
<1>2. /\ q # Idle /\ q.op \notin {"guide", "load"} /\ q.todo # <<>> /\ Head(q.todo) = stage
      /\ q \in Requests \cup GuidanceRequests /\ InFlight(q)
    BY <1>1, Served DEF NextTodo, AboutGuidance
<1>3. q \in Requests
    BY <1>2 DEF GuidanceRequests
<1>4. q.op \in {"adopt", "edit", "move", "sign", "approve"}
    BY <1>3 DEF Requests
<1>5. /\ q.op \in {"sign", "approve"} /\ assessment # NoRow
      /\ q.op = "sign" => q.todo \in SignTodo
      /\ q.op = "approve" => q.todo \in ApproveTodo
    BY <1>2, <1>4 DEF InFlight
<1>6. QED
    BY <1>1, <1>2, <1>3, <1>5 DEF Inv, StateInv, RowsTyped

\* A snapshot has an item for every item there is, with or without its
\* justification.
LEMMA SnapshotTyped ==
    ASSUME Inv, NEW op PROVE Snapshot(op) \in Snapshots
<1> SUFFICES ASSUME NEW x \in Refs, items[x] # NoRow
             PROVE  items[x] \in SealedRows /\ [items[x] EXCEPT !.justified = NoRow] \in SealedRows
    BY DEF Snapshot, Snapshots, Inv, StateInv, RowsTyped, Assessed
<1>1. items[x] \in ItemRows
    BY DEF Inv, StateInv, RowsTyped, Assessed
<1>2. QED
    BY <1>1 DEF ItemRows, SealedRows

\* ReadContent and CountBaselines preserve the invariant.
LEMMA StageSteps ==
    ASSUME Inv, NEW w \in Workers, ReadContent(w) \/ CountBaselines(w) PROVE Inv'
<1>1. PICK r : r = req[w]
    OBVIOUS
<1>2. PICK stage : stage \in {"read", "count"} /\ NextTodo(w, stage)
    BY DEF ReadContent, CountBaselines
<1>3. /\ r # Idle /\ r \in Requests /\ r.op \in {"sign", "approve"}
      /\ r.todo # <<>> /\ Head(r.todo) = stage
      /\ r.op = "sign" => r.todo \in SignTodo
      /\ r.op = "approve" => r.todo \in ApproveTodo
      /\ assessment # NoRow /\ assessment \in AssessmentRows
    BY <1>1, <1>2, Staged
<1>4. InFlight(r) /\ (Serial => Undisturbed(r))
    BY <1>1, <1>3, Served
<1>5. /\ r.op = "sign" => Tail(r.todo) \in SignTodo
      /\ r.op = "approve" => Tail(r.todo) \in ApproveTodo
      /\ Tail(r.todo) \in Seq(Stages)
    BY <1>3, SignStages, ApproveStages, TodoTyped
<1>6. ASSUME NEW seen \in Snapshots, NEW draft \in {"draft", "in_review", NoRow},
             NEW number \in Nat, NEW q,
             q = [r EXCEPT !.seen = seen, !.draft = draft, !.number = number,
                           !.todo = Tail(r.todo)],
             req' = [req EXCEPT ![w] = q], Overlap(w),
             UNCHANGED <<work, assessment, baselines, assignments, crashes, guidanceVars>>,
             Serial => Undisturbed(q)
      PROVE  Inv'
  <2>1. q \in Requests
      BY <1>3, <1>5, <1>6 DEF Requests
  <2>2. q.op = r.op /\ q.assignment = r.assignment /\ q.todo = Tail(r.todo)
      BY <1>3, <1>6 DEF Requests
  <2>3. InFlight(q)
      BY <1>3, <1>4, <1>5, <2>2 DEF InFlight
  <2>4. crashes' \in 0 .. MaxCrashes /\ (Serial' => Serial)
      BY <1>6 DEF Inv, StateInv, RowsTyped, Serial, Overlap
  <2>5. StateInv' /\ Kept
      BY <1>6, <2>4, QuietRows
  <2>6. InFlight(q)' /\ (Serial' => Undisturbed(q)')
      BY <1>6, <2>3, <2>4 DEF InFlight, Undisturbed, Snapshot, work, guidanceVars
  <2>7. QED
      BY <1>6, <2>1, <2>5, <2>6, RequestStep DEF Inv, AllRequests
<1>7. CASE ReadContent(w)
  <2>1. PICK draft : draft = assessment.draft
      OBVIOUS
  <2>2. draft \in {"draft", "in_review", NoRow}
      BY <1>3, <2>1 DEF AssessmentRows
  <2>3. PICK seen \in Snapshots : seen = Snapshot(r.op)
      BY SnapshotTyped
  <2>4. PICK q : q = [r EXCEPT !.seen = seen, !.draft = draft, !.number = r.number,
                               !.todo = Tail(r.todo)]
      OBVIOUS
  <2>5. [[r EXCEPT !.seen = seen, !.draft = draft] EXCEPT !.todo = Tail(r.todo)] = q
      BY <1>3, <2>4 DEF Requests
  <2>6. [r EXCEPT !.seen = seen, !.draft = draft].todo = r.todo
      BY <1>3 DEF Requests
  <2>7. /\ req' = [req EXCEPT ![w] = q] /\ Overlap(w)
        /\ UNCHANGED <<work, assessment, baselines, assignments, crashes, guidanceVars>>
      BY <1>1, <1>7, <2>1, <2>5, <2>6, <2>3 DEF ReadContent, Advance
  <2>8. r.number \in Nat /\ q.op = r.op /\ q.assignment = r.assignment /\ q.seen = seen
        /\ q.todo = Tail(r.todo)
      BY <1>3, <2>4 DEF Requests
  <2>9. Head(r.todo) = "read"
      BY <1>1, <1>7 DEF ReadContent, NextTodo
  <2>10. Tail(r.todo) # <<>>
    <3>1. <<"count">> # <<>> /\ <<"review", "count">> # <<>>
        OBVIOUS
    <3>2. QED
        BY <1>3, <2>9, <3>1, SignStages, ApproveStages
  <2>11. Serial => Undisturbed(q)
      BY <1>3, <1>4, <2>8, <2>10, <2>3 DEF Undisturbed
  <2>12. QED
      BY <1>6, <2>2, <2>4, <2>7, <2>8, <2>11
<1>8. CASE CountBaselines(w)
  <2>1. PICK number : number = Len(baselines) + 1
      OBVIOUS
  <2>2. number \in Nat
      BY <2>1 DEF Inv, StateInv, BaselinesTyped
  <2>3. PICK q : q = [r EXCEPT !.seen = r.seen, !.draft = r.draft, !.number = number,
                               !.todo = Tail(r.todo)]
      OBVIOUS
  <2>4. [[r EXCEPT !.number = number] EXCEPT !.todo = Tail(r.todo)] = q
      BY <1>3, <2>3 DEF Requests
  <2>5. [r EXCEPT !.number = number].todo = r.todo
      BY <1>3 DEF Requests
  <2>6. /\ req' = [req EXCEPT ![w] = q] /\ Overlap(w)
        /\ UNCHANGED <<work, assessment, baselines, assignments, crashes, guidanceVars>>
      BY <1>1, <1>8, <2>1, <2>4, <2>5 DEF CountBaselines, Advance, NextNumber
  <2>7. r.seen \in Snapshots /\ r.draft \in {"draft", "in_review", NoRow}
      BY <1>3 DEF Requests
  <2>8. /\ q.op = r.op /\ q.assignment = r.assignment /\ q.seen = r.seen
        /\ q.todo = Tail(r.todo) /\ q.number = number
      BY <1>3, <2>3 DEF Requests
  <2>9. Head(r.todo) = "count"
      BY <1>1, <1>8 DEF CountBaselines, NextTodo
  <2>10. r.todo = <<"count">>
      BY <1>3, <2>9, SignStages, ApproveStages
  <2>11. Serial => r.seen = Snapshot(r.op)
      BY <1>3, <1>4, <2>10 DEF Undisturbed
  <2>12. Serial => Undisturbed(q)
      BY <1>3, <1>4, <2>1, <2>8, <2>11 DEF Undisturbed
  <2>13. QED
      BY <1>6, <2>2, <2>3, <2>6, <2>7, <2>12
<1>9. QED
    BY <1>7, <1>8

\* The assessment goes to review before it is signed.
LEMMA ReviewStep ==
    ASSUME Inv, NEW w \in Workers, EnsureReview(w) PROVE Inv'
<1>1. PICK r : r = req[w]
    OBVIOUS
<1>2. /\ r # Idle /\ r \in Requests /\ r.op = "sign" /\ r.todo \in SignTodo
      /\ r.todo = <<"review", "count">> /\ Tail(r.todo) = <<"count">>
      /\ assessment # NoRow /\ assessment \in AssessmentRows
  <2>1. NextTodo(w, "review")
      BY DEF EnsureReview
  <2>2. QED
      BY <1>1, <2>1, Staged, SignStages, ApproveStages
<1>3. InFlight(r) /\ (Serial => Undisturbed(r))
    BY <1>1, <1>2, Served
<1>4. PICK q : q = [r EXCEPT !.todo = <<"count">>]
    OBVIOUS
<1>5. /\ q \in Requests /\ q.op = r.op /\ q.assignment = r.assignment /\ q.seen = r.seen
      /\ q.todo = <<"count">>
  <2>1. <<"count">> \in Seq(Stages)
      BY TodoTyped DEF SignTodo
  <2>2. QED
      BY <1>2, <1>4, <2>1 DEF Requests
<1>6. /\ req' = [req EXCEPT ![w] = q] /\ Overlap(w)
      /\ UNCHANGED <<catalog, items, baselines, assignments, crashes, guidanceVars>>
    BY <1>1, <1>2, <1>4 DEF EnsureReview, AtReview, work, Inv, RequestInv
<1>7. /\ assessment' \in AssessmentRows /\ assessment' # NoRow
      /\ assessment'.seed = assessment.seed /\ assessment'.current = assessment.current
  <2>1. PICK draft : draft = Column(assessment.draft, r.draft, "in_review")
      OBVIOUS
  <2>2. assessment' = [assessment EXCEPT !.draft = draft]
      BY <1>1, <2>1 DEF EnsureReview
  <2>3. draft \in {"draft", "in_review"}
      BY <1>2, <2>1 DEF Column, AssessmentRows
  <2>4. QED
      BY <1>2, <2>2, <2>3, NoRowAssumption DEF AssessmentRows
<1>8. Serial' => Serial
    BY <1>6 DEF Serial, Overlap
<1>9. InFlight(q) /\ (Serial => Undisturbed(q))
  <2>1. <<"count">> \in SignTodo /\ <<"count">> # <<>>
      BY DEF SignTodo
  <2>2. QED
      BY <1>2, <1>3, <1>5, <2>1 DEF InFlight, Undisturbed, Snapshot
<1>10. InFlight(q)' /\ (Serial' => Undisturbed(q)')
    BY <1>6, <1>7, <1>8, <1>9, <1>2, <1>5 DEF InFlight, Undisturbed, Snapshot, guidanceVars
<1>11. /\ OwnAreActive' /\ CatalogFollowsSeed' /\ SignedHasBaseline' /\ SignedOnce'
       /\ BaselinesInOrder'
    BY <1>2, <1>6, <1>7, <1>8, CatalogSame, BaselinesSame
<1>12. AssessedFirst' /\ BaselinesTyped' /\ Kept /\ GuidanceTypeOK' /\ GuidanceIsTold'
    BY <1>2, <1>6, <1>7, <1>8, GuidanceSame DEF Inv, StateInv, AssessedFirst, BaselinesTyped, Kept
<1>13. catalog' \in [Refs -> CatalogRows \cup {NoRow}] /\ items' \in Assessed
       /\ assignments' \in [Assignments -> AssignmentStatus \cup {NoRow}]
    BY <1>6 DEF Inv, StateInv, RowsTyped
<1>14. QED
    BY <1>5, <1>6, <1>7, <1>10, <1>11, <1>12, <1>13, WriteStep DEF AllRequests

\* CommitBaseline preserves the invariant: whoever signs leaves a baseline, and
\* if nothing overlaps, one, with the next number.
LEMMA BaselineStep ==
    ASSUME Inv, NEW w \in Workers, CommitBaseline(w) PROVE Inv'
<1>1. PICK q : q = req[w]
    OBVIOUS
<1>2. /\ q # Idle /\ q \in Requests /\ q.op \in {"sign", "approve"} /\ q.todo = <<>>
      /\ InFlight(q) /\ (Serial => Undisturbed(q)) /\ Finish(w)
      /\ UNCHANGED <<catalog, items>>
    BY <1>1, Served DEF CommitBaseline, Ready, Serving, work
<1>3. /\ assessment \in AssessmentRows
      /\ q.op = "sign" => q.assignment \in Assignments
      /\ q.op = "approve" => q.assignment = NoRow
    BY <1>2 DEF InFlight, Inv, StateInv, RowsTyped
<1>4. PICK n \in Nat : n = Len(baselines)
    BY DEF Inv, StateInv, BaselinesTyped
<1>5. PICK b : b = [number |-> q.number, content |-> q.seen, by |-> q.assignment]
    OBVIOUS
<1>6. b \in Baselines /\ b.by = q.assignment /\ b.number = q.number
    BY <1>2, <1>5 DEF Requests, Baselines
<1>7. /\ baselines' = Append(baselines, b) /\ assignments' = SignedBy(q)
      /\ assessment' = [assessment EXCEPT !.draft = "draft", !.current = Len(baselines')]
    BY <1>1, <1>5 DEF CommitBaseline, Sealed
<1>8. /\ baselines' \in Seq(Baselines) /\ Len(baselines') = n + 1
      /\ DOMAIN baselines = 1 .. n /\ DOMAIN baselines' = 1 .. n + 1
      /\ baselines'[n + 1] = b
      /\ \A i \in 1 .. n : baselines'[i] = baselines[i]
    BY <1>4, <1>6, <1>7 DEF Inv, StateInv, BaselinesTyped
<1>9. /\ assignments' \in [Assignments -> AssignmentStatus \cup {NoRow}]
      /\ \A a \in Assignments :
             assignments'[a] = IF a = q.assignment THEN "signed" ELSE assignments[a]
    BY <1>7 DEF SignedBy, Inv, StateInv, RowsTyped, AssignmentStatus
<1>10. /\ assessment' \in AssessmentRows /\ assessment' # NoRow
       /\ assessment'.seed = assessment.seed /\ assessment'.current = n + 1
  <2>1. assessment' = [assessment EXCEPT !.draft = "draft", !.current = n + 1]
      BY <1>7, <1>8
  <2>2. n + 1 \in Nat
      OBVIOUS
  <2>3. QED
      BY <1>3, <2>1, <2>2, NoRowAssumption DEF AssessmentRows
<1>11. BaselinesTyped'
    BY <1>8, <1>10 DEF BaselinesTyped
<1>12. SignedHasBaseline'
  <2> SUFFICES ASSUME NEW a \in Assignments, assignments'[a] = "signed"
               PROVE  \E i \in DOMAIN baselines' : baselines'[i].by = a
      BY DEF SignedHasBaseline
  <2>1. n + 1 \in 1 .. n + 1 /\ 1 .. n \subseteq 1 .. n + 1
      OBVIOUS
  <2>2. CASE a = q.assignment
      BY <1>6, <1>8, <2>1, <2>2
  <2>3. CASE a # q.assignment
    <3>1. PICK i \in 1 .. n : baselines[i].by = a
        BY <1>8, <1>9, <2>3 DEF Inv, StateInv, SignedHasBaseline
    <3>2. QED
        BY <1>8, <2>1, <3>1
  <2>4. QED
      BY <2>2, <2>3
<1>13. ASSUME Serial PROVE SignedOnce'
  <2>1. \A i \in 1 .. n : baselines[i].by \in Assignments \cup {NoRow}
      BY <1>8, SignersTyped
  <2>2. \A i \in 1 .. n : baselines[i].by # NoRow =>
            /\ assignments[baselines[i].by] = "signed"
            /\ \A j \in 1 .. n : baselines[j].by = baselines[i].by => i = j
      BY <1>8, <1>13 DEF Inv, StateInv, SignedOnce
  <2>3. q.op = "sign" => assignments[q.assignment] # "signed"
      BY <1>2, <1>13 DEF Undisturbed, Snapshot
  <2>4. \A i \in 1 .. n : baselines[i].by # NoRow => baselines[i].by # q.assignment
      BY <1>2, <1>3, <2>2, <2>3
  <2>5. b.by # NoRow => b.by \in Assignments
      BY <1>2, <1>3, <1>6
  <2>6. ASSUME NEW i \in 1 .. n + 1, baselines'[i].by # NoRow
        PROVE  /\ assignments'[baselines'[i].by] = "signed"
               /\ \A j \in 1 .. n + 1 : baselines'[j].by = baselines'[i].by => j = i
    <3>1. \A j \in 1 .. n + 1 : j = n + 1 \/ j \in 1 .. n
        OBVIOUS
    <3>2. CASE i = n + 1
        BY <1>6, <1>8, <1>9, <2>4, <2>5, <2>6, <3>1, <3>2
    <3>3. CASE i \in 1 .. n
      <4>1. assignments'[baselines'[i].by] = "signed"
          BY <1>8, <1>9, <2>1, <2>2, <2>6, <3>3
      <4>2. ASSUME NEW j \in 1 .. n + 1, baselines'[j].by = baselines'[i].by PROVE j = i
          BY <1>6, <1>8, <2>2, <2>4, <2>6, <3>1, <3>3, <4>2
      <4>3. QED
          BY <4>1, <4>2
    <3>4. QED
        BY <3>1, <3>2, <3>3
  <2>7. QED
      BY <1>8, <2>6 DEF SignedOnce
<1>14. ASSUME Serial PROVE BaselinesInOrder'
  <2>1. q.number = n + 1
      BY <1>2, <1>4, <1>14 DEF Undisturbed, Snapshot
  <2>2. \A i \in 1 .. n : baselines[i].number = i
      BY <1>8, <1>14 DEF Inv, StateInv, BaselinesInOrder
  <2>3. \A i \in 1 .. n + 1 : baselines'[i].number = i
      BY <1>6, <1>8, <2>1, <2>2
  <2>4. QED
      BY <1>8, <1>10, <2>3 DEF BaselinesInOrder
<1>15. (Serial' => Serial) => SignedOnce' /\ BaselinesInOrder'
    BY <1>13, <1>14 DEF SignedOnce, BaselinesInOrder
<1>16. AssessedFirst' /\ Kept
  <2>1. "signed" # NoRow
      BY NoRowAssumption DEF AssignmentStatus
  <2>2. QED
      BY <1>2, <1>9, <1>10, <2>1 DEF AssessedFirst, Kept
<1>17. (Serial' => Serial) => OwnAreActive' /\ CatalogFollowsSeed'
  <2>1. assessment # NoRow
      BY <1>3, NoRowAssumption
  <2>2. QED
      BY <1>2, <1>10, <2>1, CatalogSame
<1>18. catalog' \in [Refs -> CatalogRows \cup {NoRow}] /\ items' \in Assessed
    BY <1>2 DEF Inv, StateInv, RowsTyped
<1>19. QED
    BY <1>2, <1>9, <1>10, <1>11, <1>12, <1>15, <1>16, <1>17, <1>18, FinishIs, WriteStep

----------------------------------------------------------------------------
(* Adopting a release.                                                     *)

\* A row as an adoption leaves it, and what that is if nothing happened since
\* it was loaded.
LEMMA AdoptedIs ==
    ASSUME NEW row \in CatalogRows \cup {NoRow}, NEW loaded \in CatalogRows \cup {NoRow},
           loaded # NoRow => row # NoRow, NEW x, NEW s,
           NEW new, new = Adopted(row, loaded, x, s)
    PROVE  /\ new \in CatalogRows
           /\ row = NoRow => ~new.custom /\ ~new.discontinued
           /\ row # NoRow /\ row = loaded =>
                  /\ new.custom = row.custom
                  /\ x \in SeedRefs[s] => ~new.discontinued
                  /\ x \notin SeedRefs[s] /\ ~row.custom => new.discontinued
                  /\ x \notin SeedRefs[s] /\ row.custom => new.discontinued = row.discontinued
<1>1. CASE loaded = NoRow
  <2>1. new = [custom |-> FALSE, discontinued |-> FALSE]
      BY <1>1 DEF Adopted
  <2>2. new \in CatalogRows /\ new.custom = FALSE /\ new.discontinued = FALSE
      BY <2>1 DEF CatalogRows
  <2>3. QED
      BY <1>1, <2>2
<1>2. CASE loaded # NoRow
  <2>1. row \in CatalogRows /\ row # NoRow /\ loaded \in CatalogRows
      BY <1>2
  <2>2. row.custom \in BOOLEAN /\ row.discontinued \in BOOLEAN /\ loaded.discontinued \in BOOLEAN
      BY <2>1 DEF CatalogRows
  <2>3. CASE x \in SeedRefs[s]
    <3>1. PICK d : d = Column(row.discontinued, loaded.discontinued, FALSE)
        OBVIOUS
    <3>2. d \in BOOLEAN
        BY <2>2, <3>1 DEF Column
    <3>3. row = loaded => d = FALSE
        BY <2>2, <3>1 DEF Column
    <3>4. new = [row EXCEPT !.discontinued = d]
        BY <1>2, <2>3, <3>1 DEF Adopted
    <3>5. new \in CatalogRows /\ new.custom = row.custom /\ new.discontinued = d
        BY <2>1, <3>2, <3>4 DEF CatalogRows
    <3>6. QED
        BY <1>2, <2>1, <2>3, <3>3, <3>5
  <2>4. CASE x \notin SeedRefs[s] /\ ~loaded.custom
    <3>1. PICK d : d = Column(row.discontinued, loaded.discontinued, TRUE)
        OBVIOUS
    <3>2. d \in BOOLEAN
        BY <2>2, <3>1 DEF Column
    <3>3. row = loaded => d = TRUE
        BY <2>2, <3>1 DEF Column
    <3>4. new = [row EXCEPT !.discontinued = d]
        BY <1>2, <2>4, <3>1 DEF Adopted
    <3>5. new \in CatalogRows /\ new.custom = row.custom /\ new.discontinued = d
        BY <2>1, <3>2, <3>4 DEF CatalogRows
    <3>6. QED
        BY <1>2, <2>1, <2>4, <3>3, <3>5
  <2>5. CASE x \notin SeedRefs[s] /\ loaded.custom
    <3>1. new = row
        BY <1>2, <2>5 DEF Adopted
    <3>2. QED
        BY <1>2, <2>1, <2>5, <3>1
  <2>6. QED
      BY <2>3, <2>4, <2>5
<1>3. QED
    BY <1>1, <1>2

\* CommitAdopt preserves the invariant.
LEMMA AdoptStep ==
    ASSUME Inv, NEW w \in Workers, CommitAdopt(w) PROVE Inv'
<1>1. PICK q : q = req[w]
    OBVIOUS
<1>2. /\ q # Idle /\ q \in Requests /\ q.op = "adopt"
      /\ InFlight(q) /\ (Serial => Undisturbed(q)) /\ Finish(w)
      /\ UNCHANGED <<baselines, assignments>>
    BY <1>1, Served DEF CommitAdopt, Serving
<1>3. /\ q.seed \in Releases /\ q.known \in [Refs -> CatalogRows \cup {NoRow}]
      /\ \A x \in Refs : q.known[x] # NoRow => catalog[x] # NoRow
      /\ Serial => q.known = catalog
    BY <1>2 DEF InFlight, Undisturbed, Snapshot, Requests
<1>4. /\ catalog \in [Refs -> CatalogRows \cup {NoRow}] /\ items \in Assessed
      /\ assessment \in AssessmentRows \cup {NoRow}
      /\ assignments \in [Assignments -> AssignmentStatus \cup {NoRow}]
    BY DEF Inv, StateInv, RowsTyped
<1>5. catalog' = [x \in Refs |->
          IF x \in Missing(q) \/ q.known[x] # NoRow
          THEN Adopted(catalog[x], q.known[x], x, q.seed) ELSE catalog[x]]
    BY <1>1 DEF CommitAdopt
<1>6. ASSUME NEW x \in Refs
      PROVE  /\ catalog'[x] \in CatalogRows \cup {NoRow}
             /\ catalog[x] # NoRow => catalog'[x] # NoRow
  <2>1. PICK new : new = Adopted(catalog[x], q.known[x], x, q.seed)
      OBVIOUS
  <2>2. new \in CatalogRows /\ new # NoRow
      BY <1>3, <1>4, <1>6, <2>1, AdoptedIs, NoRowAssumption
  <2>3. catalog'[x] \in {new, catalog[x]}
      BY <1>5, <1>6, <2>1
  <2>4. QED
      BY <1>4, <1>6, <2>2, <2>3
<1>7. ASSUME Serial, NEW x \in Refs
      PROVE  /\ catalog'[x] # NoRow /\ ~catalog'[x].discontinued <=>
                    x \in SeedRefs[q.seed] \/ (catalog'[x] # NoRow /\ catalog'[x].custom)
             /\ catalog'[x] # NoRow /\ catalog'[x].custom => ~catalog'[x].discontinued
  <2>1. PICK row \in CatalogRows \cup {NoRow} : row = catalog[x]
      BY <1>4, <1>7
  <2>2. PICK new : new = Adopted(row, row, x, q.seed)
      OBVIOUS
  <2>3. /\ new \in CatalogRows /\ new # NoRow
        /\ row = NoRow => ~new.custom /\ ~new.discontinued
        /\ row # NoRow =>
               /\ new.custom = row.custom
               /\ x \in SeedRefs[q.seed] => ~new.discontinued
               /\ x \notin SeedRefs[q.seed] /\ ~row.custom => new.discontinued
               /\ x \notin SeedRefs[q.seed] /\ row.custom =>
                      new.discontinued = row.discontinued
      BY <2>2, AdoptedIs, NoRowAssumption
  <2>4. catalog[x] # NoRow /\ catalog[x].custom => ~catalog[x].discontinued
      BY <1>7 DEF Inv, StateInv, OwnAreActive
  <2>5. x \in Missing(q) <=> x \in SeedRefs[q.seed] /\ catalog[x] = NoRow
      BY <1>3, <1>7 DEF Missing
  <2>6. CASE x \in SeedRefs[q.seed] \/ catalog[x] # NoRow
    <3>1. catalog'[x] = new
        BY <1>3, <1>5, <1>7, <2>1, <2>2, <2>5, <2>6
    <3>2. QED
        BY <2>1, <2>3, <2>4, <2>6, <3>1, Zenon
  <2>7. CASE x \notin SeedRefs[q.seed] /\ catalog[x] = NoRow
    <3>1. catalog'[x] = NoRow
        BY <1>3, <1>5, <1>7, <2>5, <2>7
    <3>2. QED
        BY <2>7, <3>1
  <2>8. QED
      BY <2>6, <2>7
<1>8. catalog' \in [Refs -> CatalogRows \cup {NoRow}]
    BY <1>5, <1>6
<1>9. /\ items' \in Assessed /\ \A x \in Refs : items[x] # NoRow => items'[x] = items[x]
  <2>1. PICK row : row = [status |-> "not_filled", justified |-> FALSE]
      OBVIOUS
  <2>2. row \in ItemRows
      BY <2>1, GapAssumption DEF ItemRows
  <2>3. items' = [x \in Refs |->
            IF items[x] = NoRow /\ catalog'[x] # NoRow /\ ~catalog'[x].discontinued
            THEN row ELSE items[x]]
      BY <2>1 DEF CommitAdopt
  <2>4. QED
      BY <1>4, <2>2, <2>3 DEF Assessed
<1>10. /\ assessment' \in AssessmentRows /\ assessment' # NoRow /\ assessment'.seed = q.seed
       /\ assessment # NoRow => assessment'.current = assessment.current
       /\ assessment = NoRow => assessment'.current = 0
  <2>1. assessment' = IF assessment = NoRow
            THEN [draft |-> "draft", seed |-> q.seed, current |-> 0]
            ELSE [assessment EXCEPT !.seed = q.seed]
      BY <1>1 DEF CommitAdopt
  <2>2. CASE assessment = NoRow
    <3>1. assessment' \in AssessmentRows /\ assessment'.seed = q.seed /\ assessment'.current = 0
        BY <1>3, <2>1, <2>2 DEF AssessmentRows
    <3>2. QED
        BY <2>2, <3>1, NoRowAssumption
  <2>3. CASE assessment # NoRow
    <3>1. /\ assessment' \in AssessmentRows /\ assessment'.seed = q.seed
          /\ assessment'.current = assessment.current
        BY <1>3, <1>4, <2>1, <2>3 DEF AssessmentRows
    <3>2. QED
        BY <2>3, <3>1, NoRowAssumption
  <2>4. QED
      BY <2>2, <2>3
<1>11. (Serial' => Serial) => OwnAreActive' /\ CatalogFollowsSeed'
  <2>1. Seeded \subseteq Refs
      BY DEF Refs
  <2>2. Serial => OwnAreActive' /\ CatalogFollowsSeed'
      BY <1>7, <1>10, <2>1, Zenon DEF OwnAreActive, CatalogFollowsSeed
  <2>3. QED
      BY <2>2 DEF OwnAreActive, CatalogFollowsSeed
<1>12. BaselinesTyped' /\ AssessedFirst' /\ Kept
    BY <1>2, <1>6, <1>9, <1>10 DEF BaselinesTyped, AssessedFirst, Kept, Inv, StateInv
<1>13. (Serial' => Serial) => SignedHasBaseline' /\ SignedOnce' /\ BaselinesInOrder'
  <2>1. assessment = NoRow => baselines = <<>>
      BY DEF Inv, StateInv, AssessedFirst
  <2>2. Len(<<>>) = 0
      OBVIOUS
  <2>3. QED
      BY <1>2, <1>10, <2>1, <2>2
         DEF Inv, StateInv, SignedHasBaseline, SignedOnce, BaselinesInOrder
<1>14. QED
    BY <1>2, <1>4, <1>8, <1>9, <1>10, <1>11, <1>12, <1>13, FinishIs, WriteStep

----------------------------------------------------------------------------
(* The guidance.                                                           *)

\* A text that was told, as it may be found later.
Follows(f, told, found) == found = told \/ (told = Empty /\ found = SeedText /\ f[1] = "seed_item")

\* What the trail of one field tells.
ToldOf(f) ==
    trail[f] # <<>> =>
        /\ Follows(f, Last(trail[f]).new, content[f])
        /\ \A e \in 2 .. Len(trail[f]) : Follows(f, trail[f][e - 1].new, trail[f][e].old)

\* The property, field by field.
LEMMA ToldIs == GuidanceIsTold <=> (Serial => \A f \in Fields : ToldOf(f))
BY DEF GuidanceIsTold, ToldOf, Follows

\* A step of the guidance that keeps its own rows right.
LEMMA ContentStep ==
    ASSUME Inv, NEW w \in Workers, AnswerGuidance(w), Apart, GuidanceTypeOK',
           Serial => \A f \in Fields : ToldOf(f)'
    PROVE  Inv'
<1>1. /\ req' = [req EXCEPT ![w] = Idle] /\ Overlap(w) /\ Idle \in AllRequests
      /\ UNCHANGED <<catalog, items, assessment, baselines, assignments, crashes>>
      /\ Serial' => Serial
    BY DEF AnswerGuidance, Apart, work, Overlap, Serial, AllRequests
<1>2. Kept
    BY <1>1 DEF Kept
<1>3. GuidanceIsTold'
    BY <1>1 DEF GuidanceIsTold, ToldOf, Follows
<1>4. /\ catalog' \in [Refs -> CatalogRows \cup {NoRow}] /\ items' \in Assessed
      /\ assessment' \in AssessmentRows \cup {NoRow}
      /\ assignments' \in [Assignments -> AssignmentStatus \cup {NoRow}]
    BY <1>1 DEF Inv, StateInv, RowsTyped
<1>5. /\ OwnAreActive' /\ CatalogFollowsSeed' /\ BaselinesInOrder' /\ AssessedFirst'
      /\ BaselinesTyped' /\ SignedHasBaseline' /\ SignedOnce'
    BY <1>1 DEF Inv, StateInv, BaselinesInOrder, AssessedFirst, BaselinesTyped,
       OwnAreActive, CatalogFollowsSeed, SignedHasBaseline, SignedOnce
<1>6. QED
    BY <1>1, <1>2, <1>3, <1>4, <1>5, WriteStep

\* CommitLoad preserves the invariant: a load fills what an edit has emptied,
\* and nothing else that was told.
LEMMA LoadStep ==
    ASSUME Inv, NEW w \in Workers, CommitLoad(w), Apart PROVE Inv'
<1>1. PICK r : r = req[w]
    OBVIOUS
<1>2. /\ r # Idle /\ r.op = "load" /\ r \in GuidanceRequests /\ (Serial => Undisturbed(r))
      /\ AnswerGuidance(w) /\ UNCHANGED trail
    BY <1>1, Served DEF CommitLoad, AboutGuidance
<1>3. r.loaded \in Contents /\ r.new \in Contents
    BY <1>2 DEF GuidanceRequests
<1>4. content \in Contents /\ trail \in [Fields -> Seq(Edits)]
    BY DEF Inv, StateInv, GuidanceTypeOK
<1>5. PICK written : written = [f \in Fields |-> Column(content[f], r.loaded[f], r.new[f])]
    OBVIOUS
<1>6. content' = content \/ content' = written
    BY <1>1, <1>5 DEF CommitLoad
<1>7. GuidanceTypeOK'
  <2>1. written \in Contents
      BY <1>3, <1>4, <1>5 DEF Column, Contents
  <2>2. QED
      BY <1>2, <1>4, <1>6, <2>1 DEF GuidanceTypeOK
<1>8. ASSUME Serial, NEW f \in Fields PROVE ToldOf(f)'
  <2>1. ToldOf(f)
      BY <1>8, ToldIs DEF Inv, StateInv
  <2>2. content'[f] = content[f] \/ content'[f] = Filled(f, content[f])
    <3>1. r.new[f] = Filled(f, content[f])
        BY <1>2, <1>8 DEF Undisturbed, Snapshot
    <3>2. written[f] \in {content[f], r.new[f]}
        BY <1>5, <1>8 DEF Column
    <3>3. QED
        BY <1>6, <3>1, <3>2
  <2>3. ASSUME NEW told \in Values, Follows(f, told, content[f]) PROVE Follows(f, told, content'[f])
    <3>1. content[f] # NoRow
        BY <2>3, NoTextAssumption DEF Follows, Values
    <3>2. QED
        BY <2>2, <2>3, <3>1 DEF Filled, Follows
  <2>4. trail[f] # <<>> => Last(trail[f]).new \in Values
    <3>1. trail[f] # <<>> => Last(trail[f]) \in Edits
        BY <1>4, <1>8 DEF Last
    <3>2. QED
        BY <3>1 DEF Edits
  <2>5. QED
      BY <1>2, <2>1, <2>3, <2>4 DEF ToldOf, Follows
<1>9. QED
    BY <1>2, <1>7, <1>8, ContentStep

\* CommitGuide preserves the invariant: what changes is told, from what it was.
LEMMA GuideStep ==
    ASSUME Inv, NEW w \in Workers, CommitGuide(w), Apart PROVE Inv'
<1>1. PICK r : r = req[w]
    OBVIOUS
<1>2. /\ r # Idle /\ r.op = "guide" /\ r \in GuidanceRequests
      /\ InFlight(r) /\ (Serial => Undisturbed(r)) /\ AnswerGuidance(w)
    BY <1>1, Served DEF CommitGuide, AboutGuidance
<1>3. r.loaded \in Contents /\ r.new \in Contents
    BY <1>2 DEF GuidanceRequests
<1>4. content \in Contents /\ trail \in [Fields -> Seq(Edits)]
    BY DEF Inv, StateInv, GuidanceTypeOK
<1>5. /\ content' = [f \in Fields |-> Column(content[f], r.loaded[f], r.new[f])]
      /\ trail' = [f \in Fields |->
             IF f \in Told(r)
             THEN Append(trail[f], [old |-> r.loaded[f], new |-> r.new[f]]) ELSE trail[f]]
    BY <1>1 DEF CommitGuide
<1>6. ASSUME NEW f \in Fields, f \in Told(r)
      PROVE  [old |-> r.loaded[f], new |-> r.new[f]] \in Edits
    BY <1>2, <1>6 DEF InFlight, Told, Edits
<1>7. GuidanceTypeOK'
  <2>1. content' \in Contents
      BY <1>3, <1>4, <1>5 DEF Column, Contents
  <2>2. \A f \in Fields : trail'[f] \in Seq(Edits)
      BY <1>4, <1>5, <1>6
  <2>3. QED
      BY <1>5, <2>1, <2>2 DEF GuidanceTypeOK
<1>8. ASSUME Serial, NEW f \in Fields PROVE ToldOf(f)'
  <2>1. ToldOf(f)
      BY <1>8, ToldIs DEF Inv, StateInv
  <2>2. r.loaded[f] = content[f]
      BY <1>2, <1>8 DEF Undisturbed, Snapshot
  <2>3. CASE f \notin Told(r)
    <3>1. content'[f] = content[f] /\ trail'[f] = trail[f]
        BY <1>5, <1>8, <2>2, <2>3 DEF Told, Column
    <3>2. QED
        BY <2>1, <3>1 DEF ToldOf, Follows
  <2>4. CASE f \in Told(r)
    <3>1. PICK e \in Edits : e = [old |-> content[f], new |-> r.new[f]]
        BY <1>6, <1>8, <2>2, <2>4
    <3>2. e.old = content[f] /\ e.new = r.new[f] /\ content'[f] = r.new[f]
        BY <1>5, <1>8, <2>2, <2>4, <3>1 DEF Told, Column
    <3>3. PICK t \in Seq(Edits) : t = trail[f]
        BY <1>4, <1>8
    <3>4. PICK u : u = Append(t, e)
        OBVIOUS
    <3>5. trail'[f] = u
        BY <1>5, <1>8, <2>2, <2>4, <3>1, <3>3, <3>4
    <3>6. PICK n \in Nat : n = Len(t)
        BY <3>3
    <3>7. /\ Len(u) = n + 1 /\ u[n + 1] = e /\ Last(u) = e
          /\ \A i \in 1 .. n : u[i] = t[i]
        BY <3>1, <3>3, <3>4, <3>6 DEF Last
    <3>8. n # 0 => t # <<>> /\ Last(t) = t[n]
        BY <3>3, <3>6 DEF Last
    <3>9. ASSUME NEW i \in 2 .. n + 1 PROVE Follows(f, u[i - 1].new, u[i].old)
      <4>1. CASE i = n + 1
        <5>1. n # 0 /\ i - 1 = n /\ n \in 1 .. n
            BY <3>9, <4>1
        <5>2. u[i - 1] = Last(t) /\ u[i].old = content[f] /\ t # <<>>
            BY <3>2, <3>7, <3>8, <4>1, <5>1
        <5>3. QED
            BY <2>1, <3>3, <5>2 DEF ToldOf
      <4>2. CASE i # n + 1
        <5>1. i \in 2 .. n /\ i - 1 \in 1 .. n /\ i \in 1 .. n /\ n # 0
            BY <3>9, <4>2
        <5>2. u[i - 1] = t[i - 1] /\ u[i] = t[i] /\ t # <<>>
            BY <3>7, <3>8, <5>1
        <5>3. Follows(f, t[i - 1].new, t[i].old)
            BY <2>1, <3>3, <3>6, <5>1, <5>2 DEF ToldOf
        <5>4. QED
            BY <5>2, <5>3
      <4>3. QED
          BY <4>1, <4>2
    <3>10. Follows(f, Last(u).new, content'[f])
        BY <3>2, <3>7 DEF Follows
    <3>11. QED
        BY <3>5, <3>7, <3>9, <3>10 DEF ToldOf, Follows
  <2>5. QED
      BY <2>3, <2>4
<1>9. QED
    BY <1>2, <1>7, <1>8, ContentStep

----------------------------------------------------------------------------
(* The theorems.                                                           *)

\* Every step preserves the invariant.
LEMMA NextInv == Inv /\ [Next]_vars => Inv'
<1> SUFFICES ASSUME Inv, [Next]_vars PROVE Inv'
    OBVIOUS
<1>1. CASE UNCHANGED vars
  <2>1. /\ UNCHANGED <<work, assessment, baselines, assignments, guidanceVars>>
        /\ crashes' = crashes /\ req' = req /\ overlapped' = overlapped
      BY <1>1 DEF vars
  <2>2. StateInv'
      BY <2>1, QuietRows DEF Inv, StateInv, RowsTyped, Serial
  <2>3. RequestInv'
      BY <2>1 DEF Inv, RequestInv, InFlight, Undisturbed, Snapshot, Alone, Serial, work,
         guidanceVars
  <2>4. QED
      BY <2>2, <2>3 DEF Inv
<1>2. ASSUME NEW w \in Workers, Proceed(w) PROVE Inv'
  <2>1. CASE CommitGuidance(w) /\ Apart
      BY <2>1, LoadStep, GuideStep DEF CommitGuidance
  <2>2. CASE \/ CommitAdopt(w) \/ RefuseAdopt(w) \/ CommitEdit(w) \/ CommitMove(w)
             \/ ReadContent(w) \/ EnsureReview(w) \/ CountBaselines(w) \/ CommitBaseline(w)
      BY <2>2, AdoptStep, EndStep, CommitRow, StageSteps, ReviewStep, BaselineStep
  <2>3. QED
      BY <1>2, <2>1, <2>2 DEF Proceed
<1>3. CASE Next
  <2>1. PICK w \in Workers :
            \/ \E r \in Refs :
                   \/ CreateCatalogItem(w, r)
                   \/ \E status \in Statuses \cup {NoRow}, justified \in BOOLEAN \cup {NoRow} :
                          BeginEdit(w, r, status, justified)
            \/ \E s \in Releases : BeginAdopt(w, s)
            \/ SubmitReview(w) \/ BeginApprove(w)
            \/ \E a \in Assignments :
                   \/ CreateAssignment(w, a) \/ BeginSign(w, a)
                   \/ Claim(w, a) \/ Submit(w, a) \/ CancelAssignment(w, a)
            \/ BeginGuidance(w) /\ Apart
            \/ Proceed(w) \/ Crash(w)
      BY <1>3 DEF Next
  <2>2. CASE \E r \in Refs : CreateCatalogItem(w, r)
      BY <2>2, AtOnceSteps
  <2>3. CASE \E r \in Refs, status \in Statuses \cup {NoRow}, justified \in BOOLEAN \cup {NoRow} :
                 BeginEdit(w, r, status, justified)
      BY <2>3, Begins
  <2>4. CASE (\E s \in Releases : BeginAdopt(w, s)) \/ BeginApprove(w)
      BY <2>4, Begins
  <2>5. CASE \E a \in Assignments :
                 BeginSign(w, a) \/ Claim(w, a) \/ Submit(w, a) \/ CancelAssignment(w, a)
      BY <2>5, Begins
  <2>6. CASE SubmitReview(w) \/ \E a \in Assignments : CreateAssignment(w, a)
      BY <2>6, AtOnceSteps
  <2>7. CASE (BeginGuidance(w) /\ Apart) \/ Proceed(w) \/ Crash(w)
      BY <1>2, <2>7, GuidanceBegins, EndStep
  <2>8. QED
      BY <2>1, <2>2, <2>3, <2>4, <2>5, <2>6, <2>7
<1>4. QED
    BY <1>1, <1>3

\* The invariant holds always.
LEMMA Invariance == Spec => []Inv
BY InitInv, NextInv, PTL DEF Spec

\* Whatever overlaps, every signed assignment has left a baseline; serially
\* it has left one, baselines are numbered in order and the last is in force
\* (gap_service.sign_assignment, cds.approve_document).
THEOREM BaselinesTellOneStory == Spec => []BaselinesAreSigned
<1>1. Inv => BaselinesAreSigned
  <2>1. Inv => TypeOK
      BY DEF Inv, StateInv, RowsTyped, BaselinesTyped, RequestInv, AllRequests, TypeOK
  <2>2. QED
      BY <2>1 DEF Inv, StateInv, BaselinesAreSigned
<1>2. QED
    BY <1>1, Invariance, PTL

\* Serially the catalog follows the adopted release through any sequence of
\* adoptions (adopt_seed_version).
THEOREM CatalogAlwaysFollows == Spec => []CatalogFollowsSeed
<1>1. Inv => CatalogFollowsSeed
    BY DEF Inv, StateInv
<1>2. QED
    BY <1>1, Invariance, PTL

\* Serially the trail tells every text of the guidance there was
\* (update_seed_item_guidance, update_legend_entry, seed loading).
THEOREM TrailTellsGuidance == Spec => []GuidanceIsTold
<1>1. Inv => GuidanceIsTold
    BY DEF Inv, StateInv
<1>2. QED
    BY <1>1, Invariance, PTL

\* Only signing and approving leave baselines.
LEMMA OnlyThere ==
    ASSUME Next, baselines' # baselines PROVE \E w \in Workers : CommitBaseline(w)
<1>1. PICK w \in Workers :
          \/ \E r \in Refs :
                 \/ CreateCatalogItem(w, r)
                 \/ \E status \in Statuses \cup {NoRow}, justified \in BOOLEAN \cup {NoRow} :
                        BeginEdit(w, r, status, justified)
          \/ \E s \in Releases : BeginAdopt(w, s)
          \/ SubmitReview(w) \/ BeginApprove(w)
          \/ \E a \in Assignments :
                 \/ CreateAssignment(w, a) \/ BeginSign(w, a)
                 \/ Claim(w, a) \/ Submit(w, a) \/ CancelAssignment(w, a)
          \/ BeginGuidance(w) /\ Apart
          \/ Proceed(w) \/ Crash(w)
    BY DEF Next
<1>2. Proceed(w)
    BY <1>1 DEF CreateCatalogItem, BeginEdit, BeginAdopt, SubmitReview, BeginApprove,
       CreateAssignment, BeginSign, Claim, Submit, CancelAssignment, BeginMove, Begin, Apart,
       Crash, work
<1>3. CommitBaseline(w)
    BY <1>2 DEF Proceed, Apart, CommitAdopt, RefuseAdopt, CommitEdit, CommitMove, ReadContent,
       EnsureReview, CountBaselines, Advance
<1>4. QED
    BY <1>3

\* Serially a baseline tells of the items as they are when it is left, although
\* signing commits in between, except that an approved one leaves their
\* justifications out (sign_assignment, approve_baseline).
THEOREM SealsWhatIsThere == Spec => SealsTheAssessment
<1>1. ASSUME Inv, [Next]_vars, Len(baselines') > Len(baselines), ~overlapped'
      PROVE  Tells(Last(baselines'))
  <2>1. baselines' # baselines
    <3>1. Len(baselines) \in Nat
        BY <1>1 DEF Inv, StateInv, BaselinesTyped
    <3>2. QED
        BY <1>1, <3>1
  <2>2. PICK w \in Workers : CommitBaseline(w)
    <3>1. Next
        BY <1>1, <2>1 DEF vars
    <3>2. QED
        BY <2>1, <3>1, OnlyThere
  <2>3. PICK q : q = req[w]
      OBVIOUS
  <2>4. /\ q # Idle /\ q \in Requests /\ q.op \in {"sign", "approve"} /\ q.todo = <<>>
        /\ InFlight(q) /\ (Serial => Undisturbed(q)) /\ Finish(w)
      BY <1>1, <2>2, <2>3, Served DEF CommitBaseline, Ready, Serving
  <2>5. Serial
      BY <1>1, <2>4 DEF Finish, Overlap, Serial
  <2>6. q.seen = Snapshot(q.op)
      BY <2>4, <2>5 DEF Undisturbed
  <2>7. PICK b : b = [number |-> q.number, content |-> q.seen, by |-> q.assignment]
      OBVIOUS
  <2>8. b \in Baselines /\ b.content = q.seen /\ b.by = q.assignment
      BY <2>4, <2>7 DEF Requests, Baselines
  <2>9. baselines' = Append(baselines, b) /\ baselines \in Seq(Baselines)
      BY <1>1, <2>2, <2>3, <2>7 DEF CommitBaseline, Sealed, Inv, StateInv, BaselinesTyped
  <2>10. Last(baselines') = b
      BY <2>8, <2>9 DEF Last
  <2>11. b.by = NoRow <=> q.op = "approve"
      BY <2>4, <2>8, NoRowAssumption DEF InFlight
  <2>12. Tells(b)
    <3> SUFFICES ASSUME NEW x \in Refs
                 PROVE  IF items[x] = NoRow THEN b.content[x] = NoRow
                        ELSE /\ b.content[x] # NoRow
                             /\ b.content[x].status = items[x].status
                             /\ b.content[x].justified =
                                   IF b.by = NoRow THEN NoRow ELSE items[x].justified
        BY DEF Tells
    <3>1. b.content[x] = IF q.op = "approve" /\ items[x] # NoRow
                         THEN [items[x] EXCEPT !.justified = NoRow] ELSE items[x]
        BY <2>6, <2>8 DEF Snapshot
    <3>2. CASE items[x] = NoRow
        BY <3>1, <3>2
    <3>3. CASE items[x] # NoRow
      <4>1. PICK row \in ItemRows : row = items[x]
          BY <1>1, <3>3 DEF Inv, StateInv, RowsTyped, Assessed
      <4>2. PICK blank : blank = [row EXCEPT !.justified = NoRow]
          OBVIOUS
      <4>3. blank.status = row.status /\ blank.justified = NoRow /\ blank # NoRow
        <5>1. blank.status = row.status /\ blank.justified = NoRow /\ blank \in SealedRows
            BY <4>1, <4>2 DEF ItemRows, SealedRows
        <5>2. QED
            BY <5>1, NoRowAssumption
      <4>4. b.content[x] = IF q.op = "approve" THEN blank ELSE row
          BY <3>1, <3>3, <4>1, <4>2
      <4>5. QED
          BY <2>4, <2>11, <3>3, <4>1, <4>3, <4>4
    <3>4. QED
        BY <3>2, <3>3
  <2>13. QED
      BY <2>8, <2>10, <2>12 DEF Tells
<1>2. Inv /\ [Next]_vars =>
          [Len(baselines') > Len(baselines) /\ ~overlapped' => Tells(Last(baselines'))]_vars
    BY <1>1
<1>3. QED
    BY <1>2, Invariance, PTL DEF Spec, SealsTheAssessment

=============================================================================
