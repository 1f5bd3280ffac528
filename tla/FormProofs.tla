----------------------------- MODULE FormProofs -----------------------------
(***************************************************************************)
(* Proofs about the form workflow, for every set of request threads,       *)
(* assignments, people and fields, and for both signature policies:        *)
(*   - the lifecycle a form promises (FormLifecycle);                      *)
(*   - the types of the program's columns and requests (FormWorkflow);     *)
(*   - what no interleaving of requests can break;                         *)
(*   - what holds when requests do not overlap, which the FormSerial run   *)
(*     checks with one worker: soundness of the forms, and that the        *)
(*     program implements the lifecycle.                                   *)
(***************************************************************************)
EXTENDS FormWorkflow, TLAPS

----------------------------------------------------------------------------
(* The lifecycle alone.                                                    *)

VARIABLES stage, content, seal      \* of the abstract form

Abstract == INSTANCE FormLifecycle

(* The inductive invariant: a form is unsealed until it is signed.         *)
AbstractInv ==
    /\ Abstract!TypeOK
    /\ Abstract!SubmittedIsComplete
    /\ Abstract!SealIsTheContent

\* The invariant holds at first.
LEMMA AbstractInitially == Abstract!Init => AbstractInv
<1> SUFFICES ASSUME Abstract!Init PROVE AbstractInv
  OBVIOUS
<1>1. Abstract!Unanswered \in Abstract!Answers
  <2>1. Abstract!Unanswered \in [{} -> Values \cup {Blank}] /\ {} \in SUBSET Fields
    BY DEF Abstract!Unanswered
  <2> QED
    BY <2>1 DEF Abstract!Answers
<1> QED
  BY <1>1
  DEF Abstract!Init, AbstractInv, Abstract!TypeOK, Abstract!SubmittedIsComplete,
      Abstract!SealIsTheContent, Abstract!Stages, Abstract!NoForm, Abstract!Final, Abstract!Sealed

\* Every step of the lifecycle preserves the invariant.
LEMMA AbstractKept == AbstractInv /\ [Abstract!Next]_(Abstract!lifecycle) => AbstractInv'
<1> SUFFICES ASSUME AbstractInv, [Abstract!Next]_(Abstract!lifecycle) PROVE AbstractInv'
  OBVIOUS
<1> USE DEF AbstractInv, Abstract!TypeOK, Abstract!SubmittedIsComplete,
            Abstract!SealIsTheContent, Abstract!Stages, Abstract!NoForm, Abstract!Final,
            Abstract!Sealed, Abstract!MoveTo
<1>1. ASSUME NEW a \in Assignments,
             \/ Abstract!Assign(a) \/ Abstract!Open(a)
             \/ Abstract!Conclude(a) \/ Abstract!Cancel(a)
      PROVE  AbstractInv'
  BY <1>1
  DEF Abstract!Assign, Abstract!Open, Abstract!Conclude, Abstract!Cancel, Abstract!Complete
<1>2. ASSUME NEW a \in Assignments, Abstract!Fill(a)
      PROVE  AbstractInv'
  BY <1>2 DEF Abstract!Fill, Abstract!Complete
<1>3. ASSUME NEW a \in Assignments, Abstract!Submit(a)
      PROVE  AbstractInv'
  BY <1>3 DEF Abstract!Submit, Abstract!Complete
<1>4. ASSUME NEW a \in Assignments, Abstract!Seal(a)
      PROVE  AbstractInv'
  BY <1>4 DEF Abstract!Seal, Abstract!Complete
<1>5. CASE UNCHANGED Abstract!lifecycle
  BY <1>5 DEF Abstract!lifecycle, Abstract!Complete
<1> QED
  BY <1>1, <1>2, <1>3, <1>4, <1>5 DEF Abstract!Next

(* Only complete forms are submitted or sealed, and a sealed form carries  *)
(* the content that was signed.                                            *)
THEOREM LifecycleInvariant ==
  Abstract!Spec => [](Abstract!SubmittedIsComplete /\ Abstract!SealIsTheContent)
<1>1. AbstractInv => Abstract!SubmittedIsComplete /\ Abstract!SealIsTheContent
  BY DEF AbstractInv
<1> QED
  BY AbstractInitially, AbstractKept, <1>1, PTL DEF Abstract!Spec

(* A completed or cancelled form is never touched again.                   *)
THEOREM FinalForever == Abstract!Spec => Abstract!FinalIsFinal
<1>1. AbstractInv /\ [Abstract!Next]_(Abstract!lifecycle) =>
         [\A a \in Assignments :
             stage[a] \in Abstract!Final =>
                 UNCHANGED <<stage[a], content[a], seal[a]>>]_(Abstract!lifecycle)
  BY DEF AbstractInv, Abstract!TypeOK, Abstract!Next, Abstract!Assign, Abstract!Open,
         Abstract!Fill, Abstract!Submit, Abstract!Seal, Abstract!Conclude, Abstract!Cancel,
         Abstract!MoveTo, Abstract!Stages, Abstract!NoForm, Abstract!Final, Abstract!Sealed,
         Abstract!lifecycle
<1> QED
  BY AbstractInitially, AbstractKept, <1>1, PTL DEF Abstract!Spec, Abstract!FinalIsFinal

----------------------------------------------------------------------------
(* Types.                                                                  *)

\* A form without an answer is one.
LEMMA UnansweredIsAnswers == Unanswered \in Answers
<1>1. Unanswered \in [{} -> Values \cup {Blank}]
  BY DEF Unanswered
<1>2. {} \in SUBSET Fields
  OBVIOUS
<1> QED
  BY <1>1, <1>2 DEF Answers

\* Merging answers gives answers.
LEMMA MergedIsAnswers ==
  ASSUME NEW old \in Answers, NEW patch \in Answers
  PROVE  Merged(old, patch) \in Answers
<1>1. PICK D \in SUBSET Fields : old \in [D -> Values \cup {Blank}]
  BY DEF Answers
<1>2. PICK E \in SUBSET Fields : patch \in [E -> Values \cup {Blank}]
  BY DEF Answers
<1>3. Merged(old, patch) \in [D \cup E -> Values \cup {Blank}]
  BY <1>1, <1>2 DEF Merged
<1> QED
  BY <1>3 DEF Answers

(* A request past CheckOtp has an OTP row in hand.                         *)
OtpInHand ==
    \A w \in Workers :
        req[w] # Idle /\ req[w].step \in {"discard", "miss", "hit"} =>
            req[w].otp # NoOtp

TypeInv == TypeOK /\ OtpInHand

\* A request that begins has its type.
LEMMA BeginTyped ==
  ASSUME TypeInv,
         NEW w \in Workers, NEW op \in Ops, NEW a \in Assignments,
         NEW who \in Respondents, NEW patch \in Answers, NEW typed \in Nat,
         row[a] # NoRow,
         Begin(w, op, a, who, patch, typed)
  PROVE  TypeInv'
<1> DEFINE r == [op |-> op, step |-> "loaded", id |-> a, by |-> who,
                 seen |-> row[a], patch |-> patch, code |-> typed, otp |-> NoOtp]
<1>1. row[a] \in Rows
  BY DEF TypeInv, TypeOK
<1>2. r \in Requests
  BY <1>1 DEF Requests, Steps
<1>3. req' = [req EXCEPT ![w] = r]
  BY DEF Begin
<1>4. TypeOK'
  BY <1>2, <1>3 DEF TypeInv, TypeOK, Begin, table, tries, world
<1>5. OtpInHand'
  BY <1>3 DEF TypeInv, TypeOK, OtpInHand
<1> QED
  BY <1>4, <1>5 DEF TypeInv

\* Answer keeps the types.
LEMMA AnswerTyped ==
  ASSUME TypeInv, NEW w \in Workers, Answer(w)
  PROVE  /\ req' \in [Workers -> Requests \cup {Idle}]
         /\ (otp' \in [Assignments -> Otps \cup {NoOtp}] => OtpInHand')
  BY DEF TypeInv, TypeOK, OtpInHand, Answer

\* Transition keeps the types.
LEMMA TransitionTyped ==
  ASSUME TypeInv, NEW w \in Workers, req[w] # Idle,
         row[req[w].id] # NoRow,
         NEW new \in Statuses, NEW event \in Events,
         Transition(w, new, event)
  PROVE  TypeInv'
<1> DEFINE a == req[w].id
<1>1. req[w] \in Requests /\ a \in Assignments /\ row[a] \in Rows
  BY DEF TypeInv, TypeOK, Requests
<1>2. row' \in [Assignments -> Rows \cup {NoRow}]
  BY <1>1 DEF TypeInv, TypeOK, Transition, Column, Rows
<1>3. trail' \in [Assignments -> Seq(Events)]
  <2>1. trail[a] \o <<event>> \in Seq(Events)
    BY <1>1 DEF TypeInv, TypeOK
  <2> QED
    BY <1>1, <2>1 DEF TypeInv, TypeOK, Transition, Record
<1>4. req' \in [Workers -> Requests \cup {Idle}] /\ OtpInHand'
  BY AnswerTyped DEF Transition, TypeInv, TypeOK, tries
<1> QED
  BY <1>2, <1>3, <1>4 DEF TypeInv, TypeOK, Transition, tries, world

\* Sign keeps the types.
LEMMA SignTyped ==
  ASSUME TypeInv, NEW w \in Workers, req[w] # Idle,
         row[req[w].id] # NoRow,
         NEW role \in {"filler", "assigner"}, NEW used \in Nat,
         Sign(w, role, used)
  PROVE  /\ row' \in [Assignments -> Rows \cup {NoRow}]
         /\ row'[req[w].id] \in Rows
         /\ trail' \in [Assignments -> Seq(Events)]
         /\ signatures' \in [Assignments -> Seq(Signatures)]
         /\ versions' \in [Assignments -> Seq(Answers)]
         /\ req' \in [Workers -> Requests \cup {Idle}]
<1> DEFINE a == req[w].id
           seen == req[w].seen
           new == [role |-> role, by |-> req[w].by,
                   content |-> seen.answers, code |-> used]
           signed == Append(signatures[a], new)
           sealed == IF MakesVersion(role) THEN Append(versions[a], Snapshot(w))
                                           ELSE versions[a]
           events == IF ~Countersign \/ Len(signed) >= 2
                     THEN <<"signed", "completed">> ELSE <<"signed">>
<1>1. /\ req[w] \in Requests /\ a \in Assignments /\ row[a] \in Rows
      /\ seen \in Rows /\ seen.answers \in Answers
  BY DEF TypeInv, TypeOK, Requests, Rows
<1>2. new \in Signatures
  BY <1>1 DEF Requests, Signatures
<1>3. signed \in Seq(Signatures)
  BY <1>1, <1>2 DEF TypeInv, TypeOK
<1>4. sealed \in Seq(Answers)
  BY <1>1 DEF TypeInv, TypeOK, Snapshot
<1>5. events \in Seq(Events)
  <2>1. {"signed", "completed"} \subseteq Events
    BY DEF Events, Moves
  <2>2. <<"signed", "completed">> \in Seq(Events) /\ <<"signed">> \in Seq(Events)
    BY <2>1
  <2>3. events = <<"signed", "completed">> \/ events = <<"signed">>
    OBVIOUS
  <2> QED
    BY <2>2, <2>3
<1>6. signatures' = [signatures EXCEPT ![a] = signed]
  BY DEF Sign
<1>7. versions' = [versions EXCEPT ![a] = sealed]
  BY DEF Sign
<1>8. trail' = [trail EXCEPT ![a] = @ \o events]
  BY DEF Sign, Record
<1>9. row' \in [Assignments -> Rows \cup {NoRow}] /\ row'[a] \in Rows
  <2> DEFINE status == IF ~Countersign \/ Len(signed) >= 2
                       THEN "completed" ELSE "signed"
             hash == Column(row[a].hash, seen.hash, {seen.answers})
             version == IF MakesVersion(role) THEN Len(sealed) ELSE row[a].version
  <2>1. row' = [row EXCEPT ![a].status = status, ![a].hash = hash,
                           ![a].version = version]
    BY DEF Sign
  <2>2. status \in Statuses
    BY DEF Statuses
  <2>3. hash \in SUBSET Answers
    BY <1>1 DEF Column, Rows
  <2>4. version \in Nat
    <3>1. Len(sealed) \in Nat
      BY <1>4
    <3> QED
      BY <1>1, <3>1 DEF Rows
  <2> HIDE DEF status, hash, version
  <2> QED
    BY <1>1, <2>1, <2>2, <2>3, <2>4 DEF TypeInv, TypeOK, Rows
<1>10. trail' \in [Assignments -> Seq(Events)]
  <2>1. trail[a] \o events \in Seq(Events)
    <3> HIDE DEF events
    <3> QED
      BY <1>1, <1>5 DEF TypeInv, TypeOK
  <2> QED
    BY <1>1, <1>8, <2>1 DEF TypeInv, TypeOK
<1> HIDE DEF signed, sealed
<1>11. req' \in [Workers -> Requests \cup {Idle}]
  BY DEF TypeInv, TypeOK, Sign, Answer
<1> QED
  BY <1>1, <1>3, <1>4, <1>6, <1>7, <1>9, <1>10, <1>11 DEF TypeInv, TypeOK

----------------------------------------------------------------------------
(* Type correctness.                                                       *)

(* A form that some request works on exists: rows are never deleted.       *)
RowsStay == \A w \in Workers : req[w] # Idle => row[req[w].id] # NoRow

\* The types, and the rows, at first.
LEMMA InitTyped == Init => TypeInv /\ RowsStay
<1> SUFFICES ASSUME Init PROVE TypeInv /\ RowsStay
  OBVIOUS
<1>1. /\ trail \in [Assignments -> Seq(Events)]
      /\ signatures \in [Assignments -> Seq(Signatures)]
      /\ versions \in [Assignments -> Seq(Answers)]
  <2>1. \A S : <<>> \in Seq(S)
    OBVIOUS
  <2> QED
    BY <2>1 DEF Init
<1>2. TypeOK
  BY <1>1 DEF Init, TypeOK
<1> QED
  BY <1>2 DEF Init, TypeInv, OtpInHand, RowsStay

\* Each step that begins a request keeps the types.
LEMMA StartTyped ==
  ASSUME TypeInv, RowsStay, NEW w \in Workers, NEW a \in Assignments,
         Starts(w, a)
  PROVE  TypeInv' /\ RowsStay'
<1> DEFINE Begun(op, who, patch, typed) ==
              row[a] # NoRow /\ Begin(w, op, a, who, patch, typed)
<1>0. ASSUME NEW op \in Ops, NEW who \in Respondents, NEW patch \in Answers,
             NEW typed \in Nat, Begun(op, who, patch, typed)
      PROVE  TypeInv' /\ RowsStay'
  <2>1. TypeInv'
    BY <1>0, BeginTyped
  <2>2. RowsStay'
    BY <1>0 DEF RowsStay, Begin, TypeInv, TypeOK, table
  <2> QED
    BY <2>1, <2>2
<1>1. ASSUME NEW who \in Managers, NEW respondent \in Respondents,
             CreateAssignment(w, a, who, respondent)
      PROVE  TypeInv' /\ RowsStay'
  <2> DEFINE new == [status |-> "pending", respondent |-> respondent,
                     assignedBy |-> who, answers |-> Unanswered,
                     hash |-> {}, version |-> 0]
  <2>1. new \in Rows
    BY UnansweredIsAnswers, PeopleAssumption DEF Rows, Statuses
  <2>2. row' = [row EXCEPT ![a] = new]
    BY <1>1 DEF CreateAssignment
  <2>3. trail' \in [Assignments -> Seq(Events)]
    <3>1. trail[a] \o <<"assigned">> \in Seq(Events)
      BY DEF TypeInv, TypeOK, Events, Moves
    <3> QED
      BY <1>1, <3>1 DEF CreateAssignment, Record, TypeInv, TypeOK
  <2>4. TypeInv'
    BY <1>1, <2>1, <2>2, <2>3
    DEF CreateAssignment, TypeInv, TypeOK, OtpInHand, tries, world
  <2>5. RowsStay'
    BY <1>1, <2>1, <2>2, NothingAssumption
    DEF CreateAssignment, RowsStay, TypeInv, TypeOK
  <2> QED
    BY <2>4, <2>5
<1>2. ASSUME NEW who \in Respondents,
             \/ BeginClaim(w, a, who) \/ BeginSubmit(w, a, who)
             \/ \E patch \in Answers : BeginSave(w, a, who, patch)
      PROVE  TypeInv' /\ RowsStay'
  <2>1. \E op \in Ops, patch \in Answers : Begun(op, who, patch, 0)
    BY <1>2, UnansweredIsAnswers
    DEF BeginClaim, BeginSubmit, BeginSave, Allows, Ops
  <2> QED
    BY <1>0, <2>1
<1>3. ASSUME NEW who \in Managers,
             BeginReturn(w, a, who) \/ BeginCancel(w, a, who) \/ BeginRemind(w, a, who)
      PROVE  TypeInv' /\ RowsStay'
  <2>1. \E op \in Ops : Begun(op, who, Unanswered, 0)
    BY <1>3 DEF BeginReturn, BeginCancel, BeginRemind, Allows, Ops
  <2> QED
    BY <1>0, <2>1, UnansweredIsAnswers, PeopleAssumption DEF Respondents
<1>4. ASSUME NEW who \in Members, BeginSign(w, a, who)
      PROVE  TypeInv' /\ RowsStay'
  BY <1>0, <1>4, UnansweredIsAnswers DEF BeginSign, Ops, Respondents
<1>5. ASSUME NEW who \in Externals, BeginOtp(w, a, who)
      PROVE  TypeInv' /\ RowsStay'
  BY <1>0, <1>5, UnansweredIsAnswers DEF BeginOtp, Ops, Respondents
<1>6. ASSUME NEW who \in Externals, NEW typed \in {0} \cup inbox[a],
             BeginExternalSign(w, a, who, typed)
      PROVE  TypeInv' /\ RowsStay'
  <2>1. typed \in Nat
    BY DEF TypeInv, TypeOK
  <2> QED
    BY <1>0, <1>6, <2>1, UnansweredIsAnswers
    DEF BeginExternalSign, Ops, Respondents
<1> QED
  BY <1>1, <1>2, <1>3, <1>4, <1>5, <1>6 DEF Starts

(* A request that ends, or goes on with a changed record, keeps the types. *)
LEMMA AnswerKeepsRows ==
  ASSUME TypeInv, RowsStay, NEW w \in Workers, Answer(w),
         \A b \in Assignments : row[b] # NoRow => row'[b] # NoRow
  PROVE  RowsStay'
<1>1. \A v \in Workers : req'[v] # Idle => req'[v] = req[v]
  BY DEF Answer, TypeInv, TypeOK
<1>2. \A v \in Workers : req[v] # Idle => req[v].id \in Assignments
  BY DEF TypeInv, TypeOK, Requests
<1> QED
  BY <1>1, <1>2 DEF RowsStay

\* Going on with a request keeps the types of what is in hand.
LEMMA StepTyped ==
  ASSUME TypeInv, RowsStay, NEW w \in Workers, req[w] # Idle,
         NEW r \in Requests, r.id = req[w].id,
         r.step \in {"discard", "miss", "hit"} => r.otp # NoOtp,
         req' = [req EXCEPT ![w] = r],
         row' = row
  PROVE  req' \in [Workers -> Requests \cup {Idle}] /\ OtpInHand' /\ RowsStay'
<1>1. req' \in [Workers -> Requests \cup {Idle}]
  BY DEF TypeInv, TypeOK
<1>2. \A v \in Workers : req'[v] = IF v = w THEN r ELSE req[v]
  BY DEF TypeInv, TypeOK
<1>3. OtpInHand'
  BY <1>2 DEF TypeInv, OtpInHand
<1>4. RowsStay'
  BY <1>2 DEF RowsStay
<1> QED
  BY <1>1, <1>3, <1>4

\* Each step that goes on with a request keeps the types.
LEMMA ContinueTyped ==
  ASSUME TypeInv, RowsStay, NEW w \in Workers, Continues(w)
  PROVE  TypeInv' /\ RowsStay'
<1> DEFINE a == req[w].id
<1>0. req[w] # Idle /\ req[w] \in Requests /\ a \in Assignments /\ row[a] \in Rows
  <2>1. req[w] # Idle
    BY DEF Continues, At, CommitClaim, CommitSave, CommitSubmit, CommitReturn,
           CommitCancel, CommitRemind, ReadSignatures, CommitSign, ReadOtp,
           WriteOtp, WriteOtpFails, SendOtp, SendOtpFails, CheckOtp,
           CommitDiscard, CommitMiss, CommitExternalSign
  <2> QED
    BY <2>1 DEF TypeInv, TypeOK, RowsStay, Requests
<1>1. CASE CommitClaim(w) \/ CommitSubmit(w) \/ CommitReturn(w) \/ CommitCancel(w)
  <2>1. PICK new \in Statuses, event \in Events : Transition(w, new, event)
    BY <1>1 DEF CommitClaim, CommitSubmit, CommitReturn, CommitCancel,
                Statuses, Events, Moves
  <2>2. TypeInv'
    BY <1>0, <2>1, TransitionTyped DEF RowsStay
  <2>3. RowsStay'
    <3>1. row'[a] # NoRow
      BY <1>0, <2>1, NothingAssumption DEF Transition, TypeInv, TypeOK, Rows, Column
    <3>2. \A b \in Assignments : b # a => row'[b] = row[b]
      BY <1>0, <2>1 DEF Transition, TypeInv, TypeOK
    <3> QED
      BY <2>1, <3>1, <3>2, AnswerKeepsRows DEF Transition
  <2> QED
    BY <2>2, <2>3
<1>2. CASE CommitSave(w)
  <2> DEFINE new == Column(row[a].answers, req[w].seen.answers,
                           Merged(req[w].seen.answers, req[w].patch))
  <2>1. new \in Answers
    BY <1>0, MergedIsAnswers DEF Column, Rows, Requests
  <2>2. row' = [row EXCEPT ![a].answers = new]
    BY <1>2 DEF CommitSave
  <2>3. trail' \in [Assignments -> Seq(Events)]
    <3>1. trail[a] \o <<"saved">> \in Seq(Events)
      BY <1>0 DEF TypeInv, TypeOK, Events
    <3> QED
      BY <1>0, <1>2, <3>1 DEF CommitSave, Record, TypeInv, TypeOK
  <2>4. row' \in [Assignments -> Rows \cup {NoRow}]
    <3> HIDE DEF new
    <3> QED
      BY <1>0, <2>1, <2>2 DEF TypeInv, TypeOK, Rows
  <2>5. req' \in [Workers -> Requests \cup {Idle}] /\ OtpInHand'
    BY <1>2, AnswerTyped DEF CommitSave, TypeInv, TypeOK, tries
  <2>6. TypeInv'
    BY <1>2, <2>3, <2>4, <2>5 DEF CommitSave, TypeInv, TypeOK, tries, world
  <2>7. RowsStay'
    <3> HIDE DEF new
    <3>1. row'[a] # NoRow
      BY <1>0, <2>1, <2>2, NothingAssumption DEF TypeInv, TypeOK, Rows
    <3>2. \A b \in Assignments : b # a => row'[b] = row[b]
      BY <1>0, <2>2 DEF TypeInv, TypeOK
    <3> QED
      BY <1>2, <3>1, <3>2, AnswerKeepsRows DEF CommitSave
  <2> QED
    BY <2>6, <2>7
<1>3. CASE CommitRemind(w)
  <2>1. trail' \in [Assignments -> Seq(Events)]
    <3>1. trail[a] \o <<"reminded">> \in Seq(Events)
      BY <1>0 DEF TypeInv, TypeOK, Events
    <3> QED
      BY <1>0, <1>3, <3>1 DEF CommitRemind, Record, TypeInv, TypeOK
  <2>2. req' \in [Workers -> Requests \cup {Idle}] /\ OtpInHand'
    BY <1>3, AnswerTyped DEF CommitRemind, TypeInv, TypeOK, tries
  <2> QED
    BY <1>3, <2>1, <2>2
    DEF CommitRemind, TypeInv, TypeOK, RowsStay, Answer, tries, world
<1>4. CASE CommitSign(w) \/ CommitExternalSign(w)
  <2>1. PICK role \in {"filler", "assigner"}, used \in Nat : Sign(w, role, used)
    BY <1>0, <1>4 DEF CommitSign, CommitExternalSign, Requests
  <2>2. /\ row' \in [Assignments -> Rows \cup {NoRow}]
        /\ trail' \in [Assignments -> Seq(Events)]
        /\ signatures' \in [Assignments -> Seq(Signatures)]
        /\ versions' \in [Assignments -> Seq(Answers)]
        /\ req' \in [Workers -> Requests \cup {Idle}]
        /\ row'[a] \in Rows
    BY <1>0, <2>1, SignTyped DEF RowsStay
  <2>3. otp' \in [Assignments -> Otps \cup {NoOtp}]
    BY <1>4 DEF CommitSign, CommitExternalSign, DeleteOtp, TypeInv, TypeOK, tries
  <2>4. OtpInHand'
    BY <2>1, <2>3, AnswerTyped DEF Sign
  <2>5. UNCHANGED <<codes, inbox, misses, world>>
    BY <1>4 DEF CommitSign, CommitExternalSign, tries
  <2>6. RowsStay'
    <3>2. \A b \in Assignments : b # a => row'[b] = row[b]
      BY <2>1 DEF Sign, TypeInv, TypeOK
    <3> QED
      BY <2>1, <2>2, <3>2, AnswerKeepsRows, NothingAssumption DEF Sign
  <2>7. /\ codes' \in Nat /\ suspended' \in BOOLEAN
        /\ inbox' \in [Assignments -> SUBSET Nat]
        /\ misses' \in [Assignments -> Nat]
        /\ tokenExpired' \in [Assignments -> BOOLEAN]
    BY <2>5 DEF TypeInv, TypeOK, world
  <2> QED
    BY <2>2, <2>3, <2>4, <2>6, <2>7 DEF TypeInv, TypeOK
<1>5. CASE ReadSignatures(w)
  <2>1. CASE Answer(w)
    BY <1>5, <2>1, AnswerTyped, AnswerKeepsRows
    DEF ReadSignatures, TypeInv, TypeOK, table, tries, world
  <2>2. CASE \E role \in {"filler", "assigner"} : Goto(w, role)
    <3>1. PICK role \in {"filler", "assigner"} : Goto(w, role)
      BY <2>2
    <3> DEFINE r == [req[w] EXCEPT !.step = role]
    <3>2. r \in Requests /\ r.id = a /\ r.step = role
      BY <1>0 DEF Requests, Steps
    <3>3. req' = [req EXCEPT ![w] = r]
      BY <3>1 DEF Goto
    <3> HIDE DEF r
    <3>4. req' \in [Workers -> Requests \cup {Idle}] /\ OtpInHand' /\ RowsStay'
      BY <1>0, <1>5, <3>2, <3>3, StepTyped DEF ReadSignatures, table
    <3> QED
      BY <1>5, <3>4 DEF ReadSignatures, TypeInv, TypeOK, table, tries, world
  <2> QED
    BY <1>5, <2>1, <2>2 DEF ReadSignatures
<1>6. CASE ReadOtp(w)
  <2> DEFINE r == [req[w] EXCEPT !.step = "read", !.otp = otp[a]]
  <2>1. r \in Requests /\ r.id = a /\ r.step = "read"
    BY <1>0 DEF Requests, Steps, TypeInv, TypeOK
  <2>2. req' = [req EXCEPT ![w] = r]
    BY <1>6 DEF ReadOtp
  <2> HIDE DEF r
  <2>3. req' \in [Workers -> Requests \cup {Idle}] /\ OtpInHand' /\ RowsStay'
    BY <1>0, <1>6, <2>1, <2>2, StepTyped DEF ReadOtp, table
  <2> QED
    BY <1>6, <2>3 DEF ReadOtp, TypeInv, TypeOK, table, tries, world
<1>7. CASE WriteOtp(w)
  <2>1. trail' \in [Assignments -> Seq(Events)]
    <3>1. trail[a] \o <<"otp_requested">> \in Seq(Events)
      BY <1>0 DEF TypeInv, TypeOK, Events
    <3> QED
      BY <1>0, <1>7, <3>1 DEF WriteOtp, Record, TypeInv, TypeOK
  <2>2. otp' \in [Assignments -> Otps \cup {NoOtp}]
    <3> DEFINE old == req[w].otp
    <3>1. codes + 1 \in Nat /\ old \in Otps \cup {NoOtp}
      BY <1>0 DEF TypeInv, TypeOK, Requests
    <3> DEFINE id == IF old = NoOtp THEN codes + 1 ELSE old.id
               attempts == IF old = NoOtp THEN 0
                           ELSE Column(otp[a].attempts, old.attempts, 0)
    <3>2. id \in Nat
      BY <3>1 DEF Otps
    <3>3. attempts \in Nat
      <4>1. old # NoOtp => otp[a] \in Otps
        BY <1>0, <1>7 DEF WriteOtp, OtpUnmoved, TypeInv, TypeOK
      <4> QED
        BY <4>1 DEF Column, Otps
    <3>4. otp' = [otp EXCEPT ![a] = [id |-> id, code |-> codes + 1,
                                     attempts |-> attempts, expired |-> FALSE]]
      BY <1>7 DEF WriteOtp
    <3> HIDE DEF id, attempts
    <3> QED
      BY <3>1, <3>2, <3>3, <3>4 DEF TypeInv, TypeOK, Otps
  <2> DEFINE r == [req[w] EXCEPT !.step = "send", !.code = codes + 1]
  <2>0. codes + 1 \in Nat
    BY DEF TypeInv, TypeOK
  <2>3. r \in Requests /\ r.id = a /\ r.step = "send"
    BY <1>0, <2>0 DEF Requests, Steps
  <2>4. req' = [req EXCEPT ![w] = r]
    BY <1>7 DEF WriteOtp
  <2> HIDE DEF r
  <2>5. req' \in [Workers -> Requests \cup {Idle}] /\ OtpInHand' /\ RowsStay'
    BY <1>0, <1>7, <2>3, <2>4, StepTyped DEF WriteOtp
  <2>6. codes' \in Nat /\ misses' \in [Assignments -> Nat]
    BY <1>7, <2>0 DEF WriteOtp, TypeInv, TypeOK
  <2> QED
    BY <1>7, <2>1, <2>2, <2>5, <2>6 DEF WriteOtp, TypeInv, TypeOK, world
<1>8. CASE WriteOtpFails(w)
  BY <1>8, AnswerTyped, AnswerKeepsRows
  DEF WriteOtpFails, TypeInv, TypeOK, table, tries, world
<1>9. CASE SendOtp(w)
  <2>1. inbox' \in [Assignments -> SUBSET Nat]
    BY <1>0, <1>9 DEF SendOtp, TypeInv, TypeOK, Requests
  <2> QED
    BY <1>9, <2>1, AnswerTyped, AnswerKeepsRows
    DEF SendOtp, TypeInv, TypeOK, table, world
<1>10. CASE SendOtpFails(w) \/ CommitDiscard(w)
  <2>1. otp' \in [Assignments -> Otps \cup {NoOtp}]
    BY <1>10 DEF SendOtpFails, CommitDiscard, DeleteOtp, TypeInv, TypeOK
  <2> QED
    BY <1>10, <2>1, AnswerTyped, AnswerKeepsRows
    DEF SendOtpFails, CommitDiscard, TypeInv, TypeOK, table, world
<1>11. CASE CheckOtp(w)
  <2>1. CASE Answer(w)
    BY <1>11, <2>1, AnswerTyped, AnswerKeepsRows
    DEF CheckOtp, TypeInv, TypeOK, table, tries, world
  <2>2. CASE ~Answer(w)
    <3>1. PICK step \in {"discard", "hit", "miss"} :
             /\ otp[a] # NoOtp
             /\ req' = [req EXCEPT ![w].otp = otp[a], ![w].step = step]
      BY <1>11, <2>2 DEF CheckOtp
    <3> DEFINE r == [req[w] EXCEPT !.otp = otp[a], !.step = step]
    <3>2. r \in Requests /\ r.id = a /\ r.otp # NoOtp
      BY <1>0, <3>1 DEF Requests, Steps, TypeInv, TypeOK
    <3>3. req' = [req EXCEPT ![w] = r]
      BY <3>1
    <3> HIDE DEF r
    <3>4. req' \in [Workers -> Requests \cup {Idle}] /\ OtpInHand' /\ RowsStay'
      BY <1>0, <1>11, <3>2, <3>3, StepTyped DEF CheckOtp, table
    <3> QED
      BY <1>11, <3>4 DEF CheckOtp, TypeInv, TypeOK, table, tries, world
  <2> QED
    BY <2>1, <2>2
<1>12. CASE CommitMiss(w)
  <2>1. req[w].otp \in Otps
    BY <1>0, <1>12 DEF CommitMiss, At, TypeInv, OtpInHand, Requests
  <2>2. otp' \in [Assignments -> Otps \cup {NoOtp}]
    <3>1. CASE OtpUnmoved(w)
      <4> DEFINE new == [otp[a] EXCEPT !.attempts = req[w].otp.attempts + 1]
      <4>1. otp[a] \in Otps
        BY <1>0, <2>1, <3>1, NothingAssumption DEF OtpUnmoved, TypeInv, TypeOK
      <4>2. req[w].otp.attempts + 1 \in Nat
        BY <2>1 DEF Otps
      <4>3. new \in Otps
        BY <4>1, <4>2 DEF Otps
      <4>4. otp' = [otp EXCEPT ![a] = new]
        BY <1>12, <3>1 DEF CommitMiss
      <4> HIDE DEF new
      <4> QED
        BY <4>3, <4>4 DEF TypeInv, TypeOK
    <3> QED
      BY <1>12, <3>1 DEF CommitMiss, TypeInv, TypeOK
  <2>3. misses' \in [Assignments -> Nat]
    <3>1. misses[a] + 1 \in Nat
      BY <1>0 DEF TypeInv, TypeOK
    <3> QED
      BY <1>12, <3>1 DEF CommitMiss, TypeInv, TypeOK
  <2> QED
    BY <1>12, <2>2, <2>3, AnswerTyped, AnswerKeepsRows
    DEF CommitMiss, TypeInv, TypeOK, table, world
<1> QED
  BY <1>1, <1>2, <1>3, <1>4, <1>5, <1>6, <1>7, <1>8, <1>9, <1>10, <1>11, <1>12
  DEF Continues

\* The environment's steps keep the types.
LEMMA EnvironmentTyped ==
  ASSUME TypeInv, RowsStay, Environment
  PROVE  TypeInv' /\ RowsStay'
<1>1. CASE \E w \in Workers : Crash(w)
  BY <1>1, AnswerTyped, AnswerKeepsRows
  DEF Crash, TypeInv, TypeOK, table, tries, world
<1>2. ASSUME NEW a \in Assignments, TokenExpires(a)
      PROVE  TypeInv' /\ RowsStay'
  BY <1>2
  DEF TokenExpires, TypeInv, TypeOK, OtpInHand, RowsStay, table, tries
<1>4. ASSUME NEW a \in Assignments, OtpExpires(a)
      PROVE  TypeInv' /\ RowsStay'
  <2>1. [otp[a] EXCEPT !.expired = TRUE] \in Otps
    BY <1>4 DEF OtpExpires, TypeInv, TypeOK, Otps
  <2>2. otp' \in [Assignments -> Otps \cup {NoOtp}]
    BY <1>4, <2>1 DEF OtpExpires, TypeInv, TypeOK
  <2> QED
    BY <1>4, <2>2
    DEF OtpExpires, TypeInv, TypeOK, OtpInHand, RowsStay, table, world
<1>3. CASE SetOrganizationStatus
  BY <1>3
  DEF SetOrganizationStatus, TypeInv, TypeOK, OtpInHand, RowsStay, table, tries
<1> QED
  BY <1>1, <1>2, <1>3, <1>4 DEF Environment

(* Every column, request and history variable keeps its type, in every     *)
(* interleaving.                                                           *)
THEOREM TypeCorrect == Spec => [](TypeInv /\ RowsStay)
<1>1. TypeInv /\ RowsStay /\ [Next]_vars => (TypeInv /\ RowsStay)'
  <2> SUFFICES ASSUME TypeInv, RowsStay, [Next]_vars
               PROVE  TypeInv' /\ RowsStay'
    OBVIOUS
  <2>1. CASE Next
    BY <2>1, StartTyped, ContinueTyped, EnvironmentTyped DEF Next
  <2>2. CASE UNCHANGED vars
    BY <2>2
    DEF vars, table, tries, world, TypeInv, TypeOK, OtpInHand, RowsStay
  <2> QED
    BY <2>1, <2>2
<1> QED
  BY InitTyped, <1>1, PTL DEF Spec

(* The type invariant the runs check.                                      *)
THEOREM WellTyped == Spec => []TypeOK
<1>1. TypeInv => TypeOK
  BY DEF TypeInv
<1> QED
  BY TypeCorrect, <1>1, PTL

----------------------------------------------------------------------------
(* What no interleaving of requests can break.                             *)
(*                                                                         *)
(* None of the safety invariants is inductive alone: a request that is     *)
(* about to commit carries facts it read earlier.  InFlight says which of  *)
(* those facts are still true at the commit, because nothing takes them    *)
(* back: a row stays, its respondent and assigner never change, a          *)
(* signature is never removed.                                             *)

InFlight(w) ==
    LET r == req[w]
    IN  /\ r.seen.respondent = row[r.id].respondent
        /\ r.seen.assignedBy = row[r.id].assignedBy
        /\ r.op \in {"claim", "return"} => r.seen.status # "in_progress"
        /\ r.op = "submit" => r.seen.status # "submitted"
        /\ r.op = "cancel" => r.seen.status # "cancelled"
        /\ r.op = "sign" =>
              /\ r.by \in Members
              /\ r.step = "filler" => r.by = r.seen.respondent
              /\ r.step = "assigner" => r.by = r.seen.assignedBy /\ FillerSigned(r.id)
        /\ r.op = "esign" =>
              /\ r.by = r.seen.respondent
              /\ r.code \in {0} \cup inbox[r.id]
              /\ r.step = "hit" => r.code = r.otp.code
        /\ r.otp # NoOtp => r.otp.code # 0

(* The parts of the invariant that speak of one form.                      *)
SealedForm(a) ==
    /\ \A i \in DOMAIN signatures[a] :
          signatures[a][i].role = "filler" =>
              \E v \in DOMAIN versions[a] : versions[a][v] = signatures[a][i].content
    /\ \A v \in DOMAIN versions[a] :
          \E i \in DOMAIN signatures[a] :
              /\ signatures[a][i].role = "filler"
              /\ signatures[a][i].content = versions[a][v]
    /\ row[a] # NoRow => row[a].version = Len(versions[a])

DesignatedForm(a) ==
    \A i \in DOMAIN signatures[a] :
        LET s == signatures[a][i]
        IN  /\ row[a] # NoRow
            /\ s.role = "filler" => s.by = row[a].respondent
            /\ s.role = "assigner" =>
                  /\ s.by = row[a].assignedBy
                  /\ \E j \in 1..(i - 1) : signatures[a][j].role = "filler"
            /\ s.by \in Externals => s.code \in inbox[a]

LastMove(t, status) ==
    LET moves == {i \in DOMAIN t : t[i] \in Moves}
    IN  \E i \in moves : (\A j \in moves : j <= i) /\ status = StatusAfter(t[i])

ToldForm(a) == row[a] # NoRow => LastMove(trail[a], row[a].status)

ConcludedForm(a) ==
    row[a] # NoRow /\ row[a].status \in {"signed", "completed"} => FillerSigned(a)

BlankForm(a) ==
    row[a] = NoRow => signatures[a] = <<>> /\ versions[a] = <<>>

GoodForm(a) ==
    /\ SealedForm(a) /\ DesignatedForm(a) /\ ToldForm(a)
    /\ ConcludedForm(a) /\ BlankForm(a)
    /\ otp[a] # NoOtp => otp[a].code # 0

SafetyInv ==
    /\ TypeInv
    /\ RowsStay
    /\ \A w \in Workers : req[w] # Idle => InFlight(w)
    /\ \A a \in Assignments : GoodForm(a)

----------------------------------------------------------------------------
(* Sequences that grow.                                                    *)

\* A list of signatures with one appended keeps those it had.
LEMMA AppendedRole ==
  ASSUME NEW s \in Seq(Signatures), NEW new \in Signatures
  PROVE  LET t == Append(s, new)
         IN  /\ DOMAIN t = DOMAIN s \cup {Len(s) + 1}
             /\ Len(s) + 1 \notin DOMAIN s
             /\ \A i \in DOMAIN s : t[i] = s[i]
             /\ t[Len(s) + 1] = new
  OBVIOUS

\* A list of versions with one appended keeps those it had.
LEMMA AppendedVersion ==
  ASSUME NEW s \in Seq(Answers), NEW new \in Answers
  PROVE  LET t == Append(s, new)
         IN  /\ DOMAIN t = DOMAIN s \cup {Len(s) + 1}
             /\ \A i \in DOMAIN s : t[i] = s[i]
             /\ t[Len(s) + 1] = new
             /\ Len(t) = Len(s) + 1
             /\ Len(s) \in Nat
  OBVIOUS

(* A move at the end of the trail decides the status; other events do not. *)
LEMMA MoveRecorded ==
  ASSUME NEW t \in Seq(Events), NEW event \in Moves
  PROVE  LastMove(t \o <<event>>, StatusAfter(event))
<1> DEFINE u == t \o <<event>>
           n == Len(t) + 1
<1>1. event \in Events
  BY DEF Events
<1>2. DOMAIN u = 1..n /\ u[n] = event /\ n \in DOMAIN u /\ \A j \in DOMAIN u : j <= n
  BY <1>1
<1> HIDE DEF u, n
<1>3. LastMove(u, StatusAfter(event))
  BY <1>2 DEF LastMove
<1> QED
  BY <1>3 DEF u

\* After a conclusion the trail's last move is the conclusion.
LEMMA ConclusionRecorded ==
  ASSUME NEW t \in Seq(Events)
  PROVE  LastMove(t \o <<"signed", "completed">>, "completed")
<1> DEFINE u == t \o <<"signed", "completed">>
           n == Len(t) + 2
<1>1. "signed" \in Events /\ "completed" \in Events
  BY DEF Events, Moves
<1>2. u[n] = "completed" /\ n \in DOMAIN u /\ \A j \in DOMAIN u : j <= n
  BY <1>1
<1> HIDE DEF u, n
<1>3. LastMove(u, "completed")
  BY <1>2 DEF LastMove, StatusAfter, Moves
<1> QED
  BY <1>3 DEF u

\* An event that is not a move leaves the trail's last move.
LEMMA OtherRecorded ==
  ASSUME NEW t \in Seq(Events), NEW event \in Events \ Moves, NEW status,
         LastMove(t, status)
  PROVE  LastMove(t \o <<event>>, status)
<1> DEFINE u == t \o <<event>>
           n == Len(t) + 1
<1>1. /\ DOMAIN u = DOMAIN t \cup {n} /\ u[n] = event
      /\ \A j \in DOMAIN t : u[j] = t[j]
  OBVIOUS
<1> HIDE DEF u, n
<1>2. {i \in DOMAIN u : u[i] \in Moves} = {i \in DOMAIN t : t[i] \in Moves}
  BY <1>1
<1>3. LastMove(u, status)
  BY <1>1, <1>2 DEF LastMove
<1> QED
  BY <1>3 DEF u

----------------------------------------------------------------------------
(* What no step takes back.                                                *)

Steady ==
    \A a \in Assignments :
        /\ row[a] # NoRow =>
              /\ row'[a] # NoRow
              /\ row'[a].respondent = row[a].respondent
              /\ row'[a].assignedBy = row[a].assignedBy
        /\ FillerSigned(a) => FillerSigned(a)'
        /\ inbox[a] \subseteq inbox'[a]

\* A step of one thread leaves what the others rely on.
LEMMA OthersInFlight ==
  ASSUME SafetyInv, Steady, NEW v \in Workers, req[v] # Idle, req'[v] = req[v]
  PROVE  InFlight(v)'
<1>1. req[v].id \in Assignments /\ row[req[v].id] # NoRow
  BY DEF SafetyInv, TypeInv, TypeOK, RowsStay, Requests
<1>2. InFlight(v)
  BY DEF SafetyInv
<1> QED
  BY <1>1, <1>2 DEF InFlight, Steady

\* So does an answer.
LEMMA AnswerInFlight ==
  ASSUME SafetyInv, Steady, NEW w \in Workers, Answer(w)
  PROVE  \A v \in Workers : req'[v] # Idle => InFlight(v)'
<1>1. \A v \in Workers : req'[v] # Idle => req'[v] = req[v]
  BY DEF Answer, SafetyInv, TypeInv, TypeOK
<1> QED
  BY <1>1, OthersInFlight

\* So does one that goes on, if it may rely on its own.
LEMMA StepInFlight ==
  ASSUME SafetyInv, Steady, NEW w \in Workers, NEW r,
         req' = [req EXCEPT ![w] = r], InFlight(w)'
  PROVE  \A v \in Workers : req'[v] # Idle => InFlight(v)'
<1>1. \A v \in Workers \ {w} : req'[v] = req[v]
  BY DEF SafetyInv, TypeInv, TypeOK
<1> QED
  BY <1>1, OthersInFlight

(* Steps that leave the four tables alone.                                 *)
LEMMA QuietForms ==
  ASSUME SafetyInv, UNCHANGED table, Steady,
         \A a \in Assignments : otp'[a] # NoOtp => otp'[a].code # 0
  PROVE  \A a \in Assignments : GoodForm(a)'
<1> SUFFICES ASSUME NEW a \in Assignments PROVE GoodForm(a)'
  OBVIOUS
<1>1. GoodForm(a)
  BY DEF SafetyInv
<1>2. SealedForm(a)' /\ ToldForm(a)' /\ BlankForm(a)'
  BY <1>1 DEF GoodForm, SealedForm, ToldForm, LastMove, BlankForm, table
<1>3. ConcludedForm(a)'
  BY <1>1 DEF GoodForm, ConcludedForm, FillerSigned, table
<1>4. DesignatedForm(a)'
  BY <1>1 DEF GoodForm, DesignatedForm, table, Steady
<1> QED
  BY <1>2, <1>3, <1>4 DEF GoodForm

\* A step that leaves the tables and the mail alone takes nothing back.
LEMMA QuietSteady ==
  ASSUME UNCHANGED table, UNCHANGED inbox
  PROVE  Steady
  BY DEF Steady, FillerSigned, table

----------------------------------------------------------------------------
(* Steps that begin a request.                                             *)

\* A request that begins relies on what is so.
LEMMA BegunInFlight ==
  ASSUME SafetyInv, Steady,
         NEW w \in Workers, NEW op \in Ops, NEW a \in Assignments,
         NEW who \in Respondents, NEW patch \in Answers, NEW typed,
         row[a] # NoRow,
         Begin(w, op, a, who, patch, typed),
         op \in {"claim", "return"} => row[a].status # "in_progress",
         op = "submit" => row[a].status # "submitted",
         op = "cancel" => row[a].status # "cancelled",
         op = "sign" => who \in Members,
         op = "esign" => who = row[a].respondent /\ typed \in {0} \cup inbox[a]
  PROVE  /\ \A v \in Workers : req'[v] # Idle => InFlight(v)'
         /\ \A b \in Assignments : GoodForm(b)'
<1> DEFINE r == [op |-> op, step |-> "loaded", id |-> a, by |-> who,
                 seen |-> row[a], patch |-> patch, code |-> typed, otp |-> NoOtp]
<1>1. req' = [req EXCEPT ![w] = r] /\ UNCHANGED <<table, tries, world>>
  BY DEF Begin
<1>2. req'[w] = r
  BY <1>1 DEF SafetyInv, TypeInv, TypeOK
<1>3. InFlight(w)'
  BY <1>1, <1>2 DEF InFlight, table, tries
<1>4. \A b \in Assignments : otp'[b] # NoOtp => otp'[b].code # 0
  BY <1>1 DEF SafetyInv, GoodForm, tries
<1> HIDE DEF r
<1> QED
  BY <1>1, <1>3, <1>4, StepInFlight, QuietForms

\* No transition ends where it begins.
LEMMA NoSelfTransition ==
  ASSUME NEW s \in Statuses
  PROVE  s \notin VALID_TRANSITIONS[s]
  BY DEF VALID_TRANSITIONS, Statuses

\* CreateAssignment preserves the invariant.
LEMMA CreateSafe ==
  ASSUME SafetyInv, NEW w \in Workers, NEW a \in Assignments,
         NEW who \in Managers, NEW respondent \in Respondents,
         CreateAssignment(w, a, who, respondent)
  PROVE  /\ \A v \in Workers : req'[v] # Idle => InFlight(v)'
         /\ \A b \in Assignments : GoodForm(b)'
<1> DEFINE new == [status |-> "pending", respondent |-> respondent,
                   assignedBy |-> who, answers |-> Unanswered,
                   hash |-> {}, version |-> 0]
<1>1. row[a] = NoRow /\ row' = [row EXCEPT ![a] = new]
  BY DEF CreateAssignment
<1>2. Steady
  BY <1>1 DEF Steady, CreateAssignment, FillerSigned, tries, SafetyInv, TypeInv, TypeOK
<1>3. \A v \in Workers : req'[v] # Idle => InFlight(v)'
  BY <1>2, OthersInFlight DEF CreateAssignment
<1>4. ASSUME NEW b \in Assignments \ {a}
      PROVE  GoodForm(b)'
  <2>1. /\ row'[b] = row[b] /\ trail'[b] = trail[b]
        /\ signatures' = signatures /\ versions' = versions
        /\ otp' = otp /\ inbox' = inbox
    BY <1>1 DEF CreateAssignment, Record, tries, SafetyInv, TypeInv, TypeOK
  <2>2. GoodForm(b)
    BY DEF SafetyInv
  <2> QED
    BY <2>1, <2>2
    DEF GoodForm, SealedForm, DesignatedForm, ToldForm, LastMove,
        ConcludedForm, BlankForm, FillerSigned
<1>5. GoodForm(a)'
  <2>1. GoodForm(a) /\ signatures[a] = <<>> /\ versions[a] = <<>>
    BY <1>1 DEF SafetyInv, GoodForm, BlankForm
  <2>2. row'[a] = new /\ trail'[a] = trail[a] \o <<"assigned">>
    BY <1>1 DEF CreateAssignment, Record, SafetyInv, TypeInv, TypeOK
  <2>3. signatures' = signatures /\ versions' = versions /\ otp' = otp
    BY DEF CreateAssignment, tries
  <2>4. LastMove(trail'[a], "pending")
    <3>1. trail[a] \in Seq(Events) /\ "assigned" \in Moves
      BY DEF SafetyInv, TypeInv, TypeOK, Moves
    <3> QED
      BY <2>2, <3>1, MoveRecorded DEF StatusAfter
  <2>5. row'[a] # NoRow
    BY <2>2, NothingAssumption, UnansweredIsAnswers, PeopleAssumption
    DEF Rows, Statuses
  <2>6. SealedForm(a)' /\ DesignatedForm(a)'
    BY <2>1, <2>2, <2>3 DEF SealedForm, DesignatedForm
  <2>7. ToldForm(a)' /\ ConcludedForm(a)' /\ BlankForm(a)'
    BY <2>2, <2>4, <2>5 DEF ToldForm, ConcludedForm, BlankForm, LastMove
  <2> QED
    BY <2>1, <2>3, <2>6, <2>7 DEF GoodForm
<1> QED
  BY <1>3, <1>4, <1>5

\* Each step that begins a request preserves the invariant.
LEMMA StartSafe ==
  ASSUME SafetyInv, NEW w \in Workers, NEW a \in Assignments, Starts(w, a)
  PROVE  /\ \A v \in Workers : req'[v] # Idle => InFlight(v)'
         /\ \A b \in Assignments : GoodForm(b)'
<1> DEFINE Safe == /\ \A v \in Workers : req'[v] # Idle => InFlight(v)'
                   /\ \A b \in Assignments : GoodForm(b)'
<1>0. ASSUME NEW op \in Ops, NEW who \in Respondents, NEW patch \in Answers,
             NEW typed, Begin(w, op, a, who, patch, typed)
      PROVE  Steady
  BY <1>0, QuietSteady DEF Begin, tries
<1>1. ASSUME NEW who \in Managers, NEW respondent \in Respondents,
             CreateAssignment(w, a, who, respondent)
      PROVE  Safe
  BY <1>1, CreateSafe
<1> DEFINE status == row[a].status
<1>2. row[a] # NoRow => status \in Statuses /\ status \notin VALID_TRANSITIONS[status]
  BY NoSelfTransition DEF SafetyInv, TypeInv, TypeOK, Rows
<1>3. ASSUME NEW who \in Respondents, BeginClaim(w, a, who)
      PROVE  Safe
  BY <1>0, <1>2, <1>3, BegunInFlight, UnansweredIsAnswers DEF BeginClaim, Allows, Ops
<1>4. ASSUME NEW who \in Respondents, NEW patch \in Answers, BeginSave(w, a, who, patch)
      PROVE  Safe
  BY <1>0, <1>4, BegunInFlight DEF BeginSave, Ops
<1>5. ASSUME NEW who \in Respondents, BeginSubmit(w, a, who)
      PROVE  Safe
  BY <1>0, <1>2, <1>5, BegunInFlight, UnansweredIsAnswers DEF BeginSubmit, Allows, Ops
<1>6. ASSUME NEW who \in Managers, BeginReturn(w, a, who)
      PROVE  Safe
  BY <1>0, <1>2, <1>6, BegunInFlight, UnansweredIsAnswers, PeopleAssumption
  DEF BeginReturn, Allows, Ops, Respondents
<1>7. ASSUME NEW who \in Managers, BeginCancel(w, a, who)
      PROVE  Safe
  BY <1>0, <1>2, <1>7, BegunInFlight, UnansweredIsAnswers, PeopleAssumption
  DEF BeginCancel, Allows, Ops, Respondents
<1>8. ASSUME NEW who \in Managers, BeginRemind(w, a, who)
      PROVE  Safe
  BY <1>0, <1>8, BegunInFlight, UnansweredIsAnswers, PeopleAssumption
  DEF BeginRemind, Ops, Respondents
<1>9. ASSUME NEW who \in Members, BeginSign(w, a, who)
      PROVE  Safe
  BY <1>0, <1>9, BegunInFlight, UnansweredIsAnswers DEF BeginSign, Ops, Respondents
<1>10. ASSUME NEW who \in Externals, BeginOtp(w, a, who)
       PROVE  Safe
  BY <1>0, <1>10, BegunInFlight, UnansweredIsAnswers DEF BeginOtp, Ops, Respondents
<1>11. ASSUME NEW who \in Externals, NEW typed \in {0} \cup inbox[a],
              BeginExternalSign(w, a, who, typed)
       PROVE  Safe
  <2>1. who = row[a].respondent
    BY <1>11 DEF BeginExternalSign, Begin, Reaches
  <2> QED
    BY <1>0, <1>11, <2>1, BegunInFlight, UnansweredIsAnswers
    DEF BeginExternalSign, Ops, Respondents
<1> HIDE DEF Safe
<1>12. Safe
  BY <1>1, <1>3, <1>4, <1>5, <1>6, <1>7, <1>8, <1>9, <1>10, <1>11 DEF Starts
<1> QED
  BY <1>12 DEF Safe

----------------------------------------------------------------------------
(* Steps that go on with a request.                                        *)

\* A form whose rows stay, its mail growing, stays good.
LEMMA OtherForm ==
  ASSUME SafetyInv, NEW b \in Assignments,
         row'[b] = row[b], trail'[b] = trail[b],
         signatures'[b] = signatures[b], versions'[b] = versions[b],
         inbox[b] \subseteq inbox'[b],
         otp'[b] # NoOtp => otp'[b].code # 0
  PROVE  GoodForm(b)'
<1>1. GoodForm(b)
  BY DEF SafetyInv
<1> QED
  BY <1>1 DEF GoodForm, SealedForm, DesignatedForm, ToldForm, LastMove,
              ConcludedForm, BlankForm, FillerSigned

\* Transition preserves the invariant.
LEMMA TransitionSafe ==
  ASSUME SafetyInv, NEW w \in Workers, req[w] # Idle,
         NEW a \in Assignments, a = req[w].id,
         NEW event \in Moves \ {"signed", "completed"},
         Transition(w, StatusAfter(event), event),
         req[w].seen.status # StatusAfter(event)
  PROVE  /\ \A v \in Workers : req'[v] # Idle => InFlight(v)'
         /\ \A b \in Assignments : GoodForm(b)'
<1> DEFINE new == StatusAfter(event)
<1>1. row[a] \in Rows /\ row[a] # NoRow
  BY DEF SafetyInv, TypeInv, TypeOK, RowsStay, Requests
<1>2. row' = [row EXCEPT ![a].status = new]
  BY DEF Transition, Column
<1>3. /\ trail' = [trail EXCEPT ![a] = @ \o <<event>>]
      /\ signatures' = signatures /\ versions' = versions
      /\ otp' = otp /\ inbox' = inbox
  BY DEF Transition, Record, tries
<1>4. new \notin {"signed", "completed"}
  BY DEF StatusAfter, Moves
<1>5. /\ row'[a] # NoRow /\ row'[a].status = new
      /\ row'[a].respondent = row[a].respondent
      /\ row'[a].assignedBy = row[a].assignedBy
      /\ row'[a].version = row[a].version
  <2>1. row'[a] = [row[a] EXCEPT !.status = new]
    BY <1>1, <1>2 DEF SafetyInv, TypeInv, TypeOK
  <2>2. new \in Statuses
    BY DEF StatusAfter, Moves, Statuses
  <2>3. row'[a] \in Rows
    BY <1>1, <2>1, <2>2 DEF Rows
  <2> QED
    BY <1>1, <2>1, <2>3, NothingAssumption DEF Rows
<1>6. \A b \in Assignments \ {a} : row'[b] = row[b] /\ trail'[b] = trail[b]
  BY <1>2, <1>3 DEF SafetyInv, TypeInv, TypeOK
<1>7. Steady
  BY <1>3, <1>5, <1>6 DEF Steady, FillerSigned
<1>8. \A v \in Workers : req'[v] # Idle => InFlight(v)'
  BY <1>7, AnswerInFlight DEF Transition
<1>9. \A b \in Assignments \ {a} : GoodForm(b)'
  BY <1>3, <1>6, OtherForm DEF SafetyInv, GoodForm
<1>10. GoodForm(a)'
  <2>1. GoodForm(a)
    BY <1>1 DEF SafetyInv
  <2>2. LastMove(trail'[a], new)
    <3>1. trail'[a] = trail[a] \o <<event>> /\ trail[a] \in Seq(Events)
      BY <1>1, <1>3 DEF SafetyInv, TypeInv, TypeOK
    <3> QED
      BY <3>1, MoveRecorded
  <2>3. SealedForm(a)'
    <3>1. SealedForm(a)
      BY <2>1 DEF GoodForm
    <3> QED
      BY <3>1, <1>1, <1>3, <1>5 DEF SealedForm
  <2>4. DesignatedForm(a)'
    <3>1. DesignatedForm(a)
      BY <2>1 DEF GoodForm
    <3> QED
      BY <3>1, <1>1, <1>3, <1>5 DEF DesignatedForm
  <2>5. ToldForm(a)' /\ ConcludedForm(a)' /\ BlankForm(a)'
    BY <1>4, <1>5, <2>2 DEF ToldForm, LastMove, ConcludedForm, BlankForm
  <2> QED
    BY <1>3, <2>1, <2>3, <2>4, <2>5 DEF GoodForm
<1> QED
  BY <1>8, <1>9, <1>10

(* A step that records an event which does not move the form.              *)
LEMMA RecordSafe ==
  ASSUME SafetyInv, NEW a \in Assignments, row[a] # NoRow,
         NEW event \in Events \ Moves, Record(a, <<event>>),
         \A b \in Assignments :
            /\ b # a => row'[b] = row[b]
            /\ otp'[b] # NoOtp => otp'[b].code # 0,
         row'[a] # NoRow,
         \A column \in {"status", "respondent", "assignedBy", "version"} :
            row'[a][column] = row[a][column],
         UNCHANGED <<signatures, versions, inbox>>
  PROVE  Steady /\ \A b \in Assignments : GoodForm(b)'
<1>0. /\ row'[a].status = row[a].status
      /\ row'[a].respondent = row[a].respondent
      /\ row'[a].assignedBy = row[a].assignedBy
      /\ row'[a].version = row[a].version
  OBVIOUS
<1>1. Steady
  BY <1>0 DEF Steady, FillerSigned
<1>2. \A b \in Assignments \ {a} : trail'[b] = trail[b]
  BY DEF Record, SafetyInv, TypeInv, TypeOK
<1>3. \A b \in Assignments \ {a} : GoodForm(b)'
  BY <1>2, OtherForm
<1>4. GoodForm(a)'
  <2>1. GoodForm(a)
    BY DEF SafetyInv
  <2>2. LastMove(trail'[a], row'[a].status)
    <3>1. trail'[a] = trail[a] \o <<event>> /\ trail[a] \in Seq(Events)
      BY DEF Record, SafetyInv, TypeInv, TypeOK
    <3>2. LastMove(trail[a], row[a].status)
      BY <2>1 DEF GoodForm, ToldForm
    <3> QED
      BY <1>0, <3>1, <3>2, OtherRecorded
  <2>3. SealedForm(a)' /\ DesignatedForm(a)'
    BY <1>0, <2>1 DEF GoodForm, SealedForm, DesignatedForm
  <2>4. ToldForm(a)' /\ BlankForm(a)'
    BY <2>2 DEF ToldForm, LastMove, BlankForm
  <2>5. ConcludedForm(a)'
    BY <1>0, <2>1 DEF GoodForm, ConcludedForm, FillerSigned
  <2> QED
    BY <2>3, <2>4, <2>5 DEF GoodForm
<1> QED
  BY <1>1, <1>3, <1>4

\* Sign preserves the invariant.
LEMMA SignSafe ==
  ASSUME SafetyInv, NEW w \in Workers, req[w] # Idle,
         NEW a \in Assignments, a = req[w].id,
         NEW role \in {"filler", "assigner"}, NEW used \in Nat,
         Sign(w, role, used),
         role = "filler" => req[w].by = req[w].seen.respondent,
         role = "assigner" => /\ req[w].by = req[w].seen.assignedBy
                              /\ FillerSigned(a),
         req[w].by \in Externals => used \in inbox[a],
         inbox' = inbox,
         \A b \in Assignments : otp'[b] # NoOtp => otp'[b].code # 0
  PROVE  /\ \A v \in Workers : req'[v] # Idle => InFlight(v)'
         /\ \A b \in Assignments : GoodForm(b)'
<1> DEFINE seen == req[w].seen
           new == [role |-> role, by |-> req[w].by,
                   content |-> seen.answers, code |-> used]
           signed == Append(signatures[a], new)
           sealed == IF MakesVersion(role) THEN Append(versions[a], Snapshot(w))
                                           ELSE versions[a]
           conclude == ~Countersign \/ Len(signed) >= 2
           status == IF conclude THEN "completed" ELSE "signed"
           events == IF conclude THEN <<"signed", "completed">> ELSE <<"signed">>
           version == IF MakesVersion(role) THEN Len(sealed) ELSE row[a].version
<1>1. /\ req[w] \in Requests
      /\ row[a] \in Rows /\ row[a] # NoRow /\ seen.answers \in Answers
  BY DEF SafetyInv, TypeInv, TypeOK, RowsStay, Requests, Rows
<1>2. /\ signatures' = [signatures EXCEPT ![a] = signed]
      /\ versions' = [versions EXCEPT ![a] = sealed]
      /\ trail' = [trail EXCEPT ![a] = @ \o events]
  BY DEF Sign, Record
<1>3. /\ row' = [row EXCEPT ![a].status = status,
                            ![a].hash = Column(@, seen.hash, {seen.answers}),
                            ![a].version = version]
  BY DEF Sign
<1>4. row'[a] \in Rows
  BY <1>1, SignTyped DEF SafetyInv
<1>5. /\ row'[a] # NoRow
      /\ row'[a].status = status
      /\ row'[a].respondent = row[a].respondent
      /\ row'[a].assignedBy = row[a].assignedBy
      /\ row'[a].version = version
  <2> HIDE DEF status, version
  <2> QED
    BY <1>1, <1>3, <1>4, NothingAssumption DEF SafetyInv, TypeInv, TypeOK, Rows
<1>6. /\ signatures'[a] = signed /\ versions'[a] = sealed
      /\ trail'[a] = trail[a] \o events
      /\ \A b \in Assignments \ {a} :
            /\ row'[b] = row[b] /\ trail'[b] = trail[b]
            /\ signatures'[b] = signatures[b] /\ versions'[b] = versions[b]
  <2> HIDE DEF signed, sealed, events, status, version
  <2> QED
    BY <1>1, <1>2, <1>3 DEF SafetyInv, TypeInv, TypeOK
<1>7. /\ signatures[a] \in Seq(Signatures) /\ new \in Signatures
      /\ versions[a] \in Seq(Answers) /\ trail[a] \in Seq(Events)
  BY <1>1 DEF SafetyInv, TypeInv, TypeOK, Requests, Signatures
<1> DEFINE n == Len(signatures[a]) + 1
<1>8. /\ DOMAIN signed = DOMAIN signatures[a] \cup {n}
      /\ n \notin DOMAIN signatures[a]
      /\ \A i \in DOMAIN signatures[a] : signed[i] = signatures[a][i]
      /\ signed[n] = new
  BY <1>7, AppendedRole
<1>9. GoodForm(a) /\ InFlight(w)
  BY <1>1 DEF SafetyInv
<1>10. new.role = role /\ new.by = req[w].by /\ new.content = seen.answers /\ new.code = used
  OBVIOUS
<1> HIDE DEF new, signed
<1>11. \E i \in DOMAIN signed : signed[i].role = "filler"
  <2>1. CASE role = "filler"
    BY <1>8, <1>10, <2>1
  <2>2. CASE role = "assigner"
    BY <1>8, <2>2 DEF FillerSigned
  <2> QED
    BY <2>1, <2>2
<1>12. Steady
  <2>1. FillerSigned(a)'
    BY <1>6, <1>11 DEF FillerSigned
  <2>2. \A b \in Assignments \ {a} : FillerSigned(b) => FillerSigned(b)'
    BY <1>6 DEF FillerSigned
  <2> QED
    BY <1>5, <1>6, <2>1, <2>2 DEF Steady
<1>13. \A v \in Workers : req'[v] # Idle => InFlight(v)'
  BY <1>12, AnswerInFlight DEF Sign
<1>14. \A b \in Assignments \ {a} : GoodForm(b)'
  BY <1>6, OtherForm
<1>15. SealedForm(a)'
  <2>1. CASE role = "filler"
    <3>1. sealed = Append(versions[a], seen.answers) /\ version = Len(sealed)
      BY <2>1 DEF MakesVersion, Snapshot
    <3> DEFINE k == Len(versions[a]) + 1
    <3>2. /\ DOMAIN sealed = DOMAIN versions[a] \cup {k}
          /\ \A v \in DOMAIN versions[a] : sealed[v] = versions[a][v]
          /\ sealed[k] = seen.answers
      BY <1>1, <1>7, <3>1, AppendedVersion
    <3> HIDE DEF sealed, version, k
    <3>3. \A i \in DOMAIN signed : signed[i].role = "filler" =>
             \E v \in DOMAIN sealed : sealed[v] = signed[i].content
      BY <1>8, <1>9, <1>10, <3>2 DEF GoodForm, SealedForm
    <3>4. \A v \in DOMAIN sealed : \E i \in DOMAIN signed :
             signed[i].role = "filler" /\ signed[i].content = sealed[v]
      BY <1>8, <1>9, <1>10, <2>1, <3>2 DEF GoodForm, SealedForm
    <3>5. signatures'[a] = signed /\ versions'[a] = sealed
          /\ row'[a].version = Len(sealed)
      BY <1>5, <1>6, <3>1
    <3> HIDE DEF signed
    <3> QED
      BY <3>3, <3>4, <3>5 DEF SealedForm
  <2>2. CASE role = "assigner"
    <3>1. sealed = versions[a] /\ version = row[a].version
      BY <2>2 DEF MakesVersion
    <3> HIDE DEF sealed, version
    <3>2. \A i \in DOMAIN signed : signed[i].role = "filler" =>
             \E v \in DOMAIN sealed : sealed[v] = signed[i].content
      BY <1>8, <1>9, <1>10, <2>2, <3>1 DEF GoodForm, SealedForm
    <3>3. \A v \in DOMAIN sealed : \E i \in DOMAIN signed :
             signed[i].role = "filler" /\ signed[i].content = sealed[v]
      BY <1>8, <1>9, <3>1 DEF GoodForm, SealedForm
    <3>4. /\ signatures'[a] = signed /\ versions'[a] = sealed
          /\ row'[a].version = row[a].version
      BY <1>5, <1>6, <3>1
    <3>5. row[a].version = Len(versions[a])
      BY <1>1, <1>9 DEF GoodForm, SealedForm
    <3> HIDE DEF signed
    <3> QED
      BY <3>1, <3>2, <3>3, <3>4, <3>5 DEF SealedForm
  <2> QED
    BY <2>1, <2>2
<1>16. DesignatedForm(a)'
  <2>1. /\ seen.respondent = row[a].respondent
        /\ seen.assignedBy = row[a].assignedBy
    BY <1>9 DEF InFlight
  <2>2. ASSUME NEW i \in DOMAIN signatures[a]
        PROVE  /\ signed[i].role = "filler" => signed[i].by = row[a].respondent
               /\ signed[i].role = "assigner" =>
                     /\ signed[i].by = row[a].assignedBy
                     /\ \E j \in 1..(i - 1) : signed[j].role = "filler"
               /\ signed[i].by \in Externals => signed[i].code \in inbox[a]
    <3>1. \A j \in 1..(i - 1) : j \in DOMAIN signatures[a]
      BY <1>7
    <3> QED
      BY <1>8, <1>9, <3>1 DEF GoodForm, DesignatedForm
  <2>3. /\ signed[n].role = "filler" => signed[n].by = row[a].respondent
        /\ signed[n].role = "assigner" =>
              /\ signed[n].by = row[a].assignedBy
              /\ \E j \in 1..(n - 1) : signed[j].role = "filler"
        /\ signed[n].by \in Externals => signed[n].code \in inbox[a]
    <3>1. role = "assigner" => \E j \in 1..(n - 1) : signed[j].role = "filler"
      <4>1. DOMAIN signatures[a] = 1..(n - 1)
        BY <1>7
      <4> HIDE DEF n
      <4> QED
        BY <1>8, <4>1 DEF FillerSigned
    <3> HIDE DEF n
    <3> QED
      BY <1>8, <1>10, <2>1, <3>1
  <2>4. /\ signatures'[a] = signed /\ inbox' = inbox
        /\ DOMAIN signed = DOMAIN signatures[a] \cup {n}
        /\ row'[a] # NoRow
        /\ row'[a].respondent = row[a].respondent
        /\ row'[a].assignedBy = row[a].assignedBy
    BY <1>5, <1>6, <1>8
  <2> HIDE DEF n, signed
  <2> QED
    BY <2>2, <2>3, <2>4 DEF DesignatedForm
<1>17. ToldForm(a)'
  <2>1. CASE conclude
    <3>1. LastMove(trail'[a], "completed")
      BY <1>6, <1>7, <2>1, ConclusionRecorded
    <3>2. row'[a].status = "completed"
      BY <1>5, <2>1
    <3> QED
      BY <3>1, <3>2 DEF ToldForm, LastMove
  <2>2. CASE ~conclude
    <3>1. LastMove(trail[a] \o <<"signed">>, "signed")
      <4>1. "signed" \in Moves /\ StatusAfter("signed") = "signed"
        BY DEF Moves, StatusAfter
      <4> QED
        BY <1>7, <4>1, MoveRecorded
    <3> QED
      BY <1>5, <1>6, <2>2, <3>1 DEF ToldForm, LastMove
  <2> QED
    BY <2>1, <2>2
<1>18. ConcludedForm(a)' /\ BlankForm(a)'
  BY <1>5, <1>6, <1>11 DEF ConcludedForm, BlankForm, FillerSigned
<1> QED
  BY <1>1, <1>13, <1>14, <1>15, <1>16, <1>17, <1>18 DEF GoodForm

\* Save preserves the invariant.
LEMMA SaveSafe ==
  ASSUME SafetyInv, NEW w \in Workers, CommitSave(w)
  PROVE  /\ \A v \in Workers : req'[v] # Idle => InFlight(v)'
         /\ \A b \in Assignments : GoodForm(b)'
<1>1. req[w] # Idle /\ req[w] \in Requests
  BY DEF CommitSave, At, SafetyInv, TypeInv, TypeOK
<1>2. PICK a \in Assignments : a = req[w].id
  BY <1>1 DEF Requests
<1> DEFINE old == req[w].seen.answers
           new == Column(row[a].answers, old, Merged(old, req[w].patch))
<1>3. row[a] \in Rows /\ row[a] # NoRow
  BY <1>1, <1>2 DEF SafetyInv, TypeInv, TypeOK, RowsStay
<1>4. /\ row' = [row EXCEPT ![a].answers = new]
      /\ Record(a, <<"saved">>) /\ Answer(w)
      /\ UNCHANGED <<signatures, versions, tries>>
  BY <1>2 DEF CommitSave
<1>5. new \in Answers
  <2>1. old \in Answers /\ req[w].patch \in Answers /\ row[a].answers \in Answers
    BY <1>1, <1>3 DEF Requests, Rows
  <2> QED
    BY <2>1, MergedIsAnswers DEF Column
<1> HIDE DEF new
<1>6. /\ row'[a] = [row[a] EXCEPT !.answers = new]
      /\ \A b \in Assignments \ {a} : row'[b] = row[b]
  BY <1>4 DEF SafetyInv, TypeInv, TypeOK
<1>7. row'[a] # NoRow /\ "saved" \in Events \ Moves
  <2>1. [row[a] EXCEPT !.answers = new] \in Rows
    BY <1>3, <1>5 DEF Rows
  <2> QED
    BY <1>6, <2>1, NothingAssumption DEF Events, Moves
<1>8. \A column \in {"status", "respondent", "assignedBy", "version"} :
         row'[a][column] = row[a][column]
  BY <1>3, <1>6 DEF Rows
<1>9. \A b \in Assignments : otp'[b] # NoOtp => otp'[b].code # 0
  BY <1>4 DEF SafetyInv, GoodForm, tries
<1>10. Steady /\ \A b \in Assignments : GoodForm(b)'
  BY <1>3, <1>4, <1>6, <1>7, <1>8, <1>9, RecordSafe DEF tries
<1> QED
  BY <1>4, <1>10, AnswerInFlight

\* WriteOtp preserves the invariant.
LEMMA WriteOtpSafe ==
  ASSUME SafetyInv, NEW w \in Workers, WriteOtp(w)
  PROVE  /\ \A v \in Workers : req'[v] # Idle => InFlight(v)'
         /\ \A b \in Assignments : GoodForm(b)'
<1>1. /\ req[w] # Idle /\ req[w] \in Requests /\ InFlight(w)
      /\ req[w].op = "otp" /\ codes \in Nat
  BY DEF WriteOtp, At, SafetyInv, TypeInv, TypeOK
<1>2. PICK a \in Assignments : a = req[w].id
  BY <1>1 DEF Requests
<1>3. row[a] \in Rows /\ row[a] # NoRow
  BY <1>1, <1>2 DEF SafetyInv, TypeInv, TypeOK, RowsStay
<1> DEFINE r == [req[w] EXCEPT !.step = "send", !.code = codes + 1]
<1>4. /\ Record(a, <<"otp_requested">>)
      /\ UNCHANGED <<row, signatures, versions, inbox>>
  BY <1>2 DEF WriteOtp
<1>5. req' = [req EXCEPT ![w] = r]
  BY DEF WriteOtp
<1>6. \A b \in Assignments : otp'[b] # NoOtp => otp'[b].code # 0
  <2>1. \A b \in Assignments \ {a} : otp'[b] = otp[b]
    BY <1>2 DEF WriteOtp, SafetyInv, TypeInv, TypeOK
  <2>2. otp'[a].code = codes + 1
    BY <1>2 DEF WriteOtp, SafetyInv, TypeInv, TypeOK
  <2>3. codes + 1 # 0
    BY <1>1
  <2> QED
    BY <2>1, <2>2, <2>3 DEF SafetyInv, GoodForm
<1>7. "otp_requested" \in Events \ Moves
  BY DEF Events, Moves
<1>8. Steady /\ \A b \in Assignments : GoodForm(b)'
  BY <1>3, <1>4, <1>6, <1>7, RecordSafe
<1>9. InFlight(w)'
  <2>1. req'[w] = r
    BY <1>5 DEF SafetyInv, TypeInv, TypeOK
  <2> QED
    BY <1>1, <1>4, <2>1 DEF InFlight, Requests
<1> HIDE DEF r
<1> QED
  BY <1>5, <1>8, <1>9, StepInFlight

(* Signing: the request has found out who must sign, or has checked the    *)
(* code against the one that was mailed.                                   *)
LEMMA CommitSignSafe ==
  ASSUME SafetyInv, NEW w \in Workers, CommitSign(w) \/ CommitExternalSign(w)
  PROVE  /\ \A v \in Workers : req'[v] # Idle => InFlight(v)'
         /\ \A b \in Assignments : GoodForm(b)'
<1>1. req[w] # Idle /\ req[w] \in Requests /\ InFlight(w)
  BY DEF CommitSign, CommitExternalSign, At, SafetyInv, TypeInv, TypeOK
<1>2. PICK a \in Assignments : a = req[w].id
  BY <1>1 DEF Requests
<1>3. CASE CommitSign(w)
  <2>1. PICK role \in {"filler", "assigner"} : At(w, "sign", role) /\ Sign(w, role, 0)
    BY <1>3 DEF CommitSign
  <2>2. req[w].by \notin Externals
    BY <1>1, <2>1, PeopleAssumption DEF InFlight, At
  <2>3. /\ role = "filler" => req[w].by = req[w].seen.respondent
        /\ role = "assigner" => /\ req[w].by = req[w].seen.assignedBy
                                /\ FillerSigned(a)
    BY <1>1, <1>2, <2>1 DEF InFlight, At
  <2>4. inbox' = inbox /\ \A b \in Assignments : otp'[b] # NoOtp => otp'[b].code # 0
    BY <1>3 DEF CommitSign, tries, SafetyInv, GoodForm
  <2>5. 0 \in Nat
    OBVIOUS
  <2> QED
    BY <1>1, <1>2, <2>1, <2>2, <2>3, <2>4, <2>5, SignSafe
<1>4. CASE CommitExternalSign(w)
  <2>1. At(w, "esign", "hit") /\ Sign(w, "filler", req[w].code)
    BY <1>4 DEF CommitExternalSign
  <2>2. req[w].otp # NoOtp
    BY <2>1 DEF At, SafetyInv, TypeInv, OtpInHand
  <2>3. req[w].by = req[w].seen.respondent /\ req[w].code \in inbox[a]
    BY <1>1, <1>2, <2>1, <2>2 DEF At, InFlight
  <2>4. req[w].code \in Nat
    BY <1>1 DEF Requests
  <2>5. inbox' = inbox
    BY <1>4 DEF CommitExternalSign
  <2>6. \A b \in Assignments : otp'[b] # NoOtp => otp'[b].code # 0
    BY <1>4 DEF CommitExternalSign, DeleteOtp, SafetyInv, TypeInv, TypeOK, GoodForm
  <2> QED
    BY <1>1, <1>2, <2>1, <2>3, <2>4, <2>5, <2>6, SignSafe
<1> QED
  BY <1>3, <1>4

\* Each step that goes on with a request preserves the invariant.
LEMMA ContinueSafe ==
  ASSUME SafetyInv, NEW w \in Workers, Continues(w)
  PROVE  /\ \A v \in Workers : req'[v] # Idle => InFlight(v)'
         /\ \A b \in Assignments : GoodForm(b)'
<1> DEFINE Safe == /\ \A v \in Workers : req'[v] # Idle => InFlight(v)'
                   /\ \A b \in Assignments : GoodForm(b)'
<1>0. /\ req[w] # Idle /\ req[w] \in Requests /\ InFlight(w)
      /\ req[w].id \in Assignments
  <2>1. req[w] # Idle
    BY DEF Continues, At, CommitClaim, CommitSave, CommitSubmit, CommitReturn,
           CommitCancel, CommitRemind, ReadSignatures, CommitSign, ReadOtp,
           WriteOtp, WriteOtpFails, SendOtp, SendOtpFails, CheckOtp,
           CommitDiscard, CommitMiss, CommitExternalSign
  <2> QED
    BY <2>1 DEF SafetyInv, TypeInv, TypeOK, Requests
<1> DEFINE a == req[w].id
<1>1. ASSUME NEW event \in Moves \ {"signed", "completed"},
             Transition(w, StatusAfter(event), event),
             req[w].seen.status # StatusAfter(event)
      PROVE  Safe
  BY <1>0, <1>1, TransitionSafe
<1>2. CASE CommitClaim(w) \/ CommitReturn(w)
  BY <1>0, <1>1, <1>2 DEF CommitClaim, CommitReturn, At, InFlight, Moves, StatusAfter
<1>3. CASE CommitSubmit(w)
  BY <1>0, <1>1, <1>3 DEF CommitSubmit, At, InFlight, Moves, StatusAfter
<1>4. CASE CommitCancel(w)
  BY <1>0, <1>1, <1>4 DEF CommitCancel, At, InFlight, Moves, StatusAfter
<1>5. CASE CommitRemind(w)
  <2>1. PICK b \in Assignments : b = a
    BY <1>0
  <2>2. row[b] \in Rows /\ row[b] # NoRow /\ "reminded" \in Events \ Moves
    BY <1>0, <2>1 DEF SafetyInv, TypeInv, TypeOK, RowsStay, Events, Moves
  <2>3. /\ Record(b, <<"reminded">>) /\ Answer(w)
        /\ UNCHANGED <<row, signatures, versions, inbox, otp>>
    BY <1>5, <2>1 DEF CommitRemind, tries
  <2>4. \A c \in Assignments : otp'[c] # NoOtp => otp'[c].code # 0
    BY <2>3 DEF SafetyInv, GoodForm
  <2>5. Steady /\ \A c \in Assignments : GoodForm(c)'
    BY <2>2, <2>3, <2>4, RecordSafe
  <2> QED
    BY <2>3, <2>5, AnswerInFlight
<1>6. \A b \in Assignments : otp[b] # NoOtp => otp[b].code # 0
  BY DEF SafetyInv, GoodForm
<1>7. ASSUME UNCHANGED table, UNCHANGED inbox, Answer(w),
             \A b \in Assignments : otp'[b] # NoOtp => otp'[b].code # 0
      PROVE  Safe
  BY <1>7, QuietSteady, QuietForms, AnswerInFlight
<1>8. ASSUME NEW r, UNCHANGED <<table, tries>>, req' = [req EXCEPT ![w] = r],
             InFlight(w)'
      PROVE  Safe
  BY <1>6, <1>8, QuietSteady, QuietForms, StepInFlight DEF tries
<1>9. CASE ReadSignatures(w)
  <2>1. UNCHANGED <<table, tries>> /\ At(w, "sign", "loaded")
    BY <1>9 DEF ReadSignatures
  <2>2. CASE Answer(w)
    BY <1>6, <1>7, <2>1, <2>2 DEF tries
  <2>3. CASE ~Answer(w)
    <3> DEFINE signed == FillerSigned(a)
               r == [req[w] EXCEPT !.step = IF signed THEN "assigner" ELSE "filler"]
    <3>1. /\ req[w].by = Signer(req[w].seen, signed)
          /\ req' = [req EXCEPT ![w] = r]
      BY <1>9, <2>3 DEF ReadSignatures, Goto
    <3>2. req'[w] = r
      BY <3>1 DEF SafetyInv, TypeInv, TypeOK
    <3>3. InFlight(w)'
      <4>1. PICK b \in Assignments : b = a
        BY <1>0
      <4>2. (FillerSigned(b)' <=> FillerSigned(b)) /\ row' = row
        BY <2>1 DEF table, FillerSigned
      <4>3. /\ req[w].op = "sign" /\ req[w].by \in Members
            /\ req[w].seen.respondent = row[b].respondent
            /\ req[w].seen.assignedBy = row[b].assignedBy
            /\ req[w].otp # NoOtp => req[w].otp.code # 0
        BY <1>0, <2>1, <4>1 DEF At, InFlight
      <4>4. /\ r.op = "sign" /\ r.seen = req[w].seen /\ r.by = req[w].by
            /\ r.id = b /\ r.otp = req[w].otp
            /\ r.step = "assigner" => FillerSigned(b) /\ r.by = r.seen.assignedBy
            /\ r.step = "filler" => r.by = r.seen.respondent
        BY <1>0, <3>1, <4>1, <4>3 DEF Requests, Signer
      <4> HIDE DEF r, signed
      <4> QED
        BY <3>2, <4>2, <4>3, <4>4 DEF InFlight
    <3>4. UNCHANGED <<table, tries>> /\ req' = [req EXCEPT ![w] = r]
      BY <2>1, <3>1
    <3> HIDE DEF r
    <3> QED
      BY <1>8, <3>3, <3>4
  <2> QED
    BY <2>2, <2>3
<1>10. CASE ReadOtp(w)
  <2> DEFINE r == [req[w] EXCEPT !.step = "read", !.otp = otp[a]]
  <2>1. /\ UNCHANGED <<table, tries>> /\ At(w, "otp", "loaded")
        /\ req' = [req EXCEPT ![w] = r]
    BY <1>10 DEF ReadOtp
  <2>2. req'[w] = r
    BY <2>1 DEF SafetyInv, TypeInv, TypeOK
  <2>3. InFlight(w)'
    BY <1>0, <1>6, <2>1, <2>2 DEF InFlight, Requests, At, table, tries, FillerSigned
  <2> QED
    BY <1>8, <2>1, <2>3
<1>11. CASE CheckOtp(w)
  <2> DEFINE now == otp[a]
             step == IF Exhausted(now) THEN "discard"
                     ELSE IF Matches(req[w].code, now) THEN "hit" ELSE "miss"
             r == [req[w] EXCEPT !.otp = now, !.step = step]
  <2>1. UNCHANGED <<table, tries>> /\ At(w, "esign", "loaded")
    BY <1>11 DEF CheckOtp
  <2>2. CASE Answer(w)
    BY <1>6, <1>7, <2>1, <2>2 DEF tries
  <2>3. CASE ~Answer(w)
    <3>1. now # NoOtp /\ req' = [req EXCEPT ![w] = r]
      BY <1>11, <2>3 DEF CheckOtp
    <3>2. req'[w] = r
      BY <3>1 DEF SafetyInv, TypeInv, TypeOK
    <3>3. step = "hit" => req[w].code = now.code
      BY DEF Matches
    <3> HIDE DEF step
    <3>4. InFlight(w)'
      BY <1>0, <1>6, <2>1, <3>1, <3>2, <3>3 DEF InFlight, Requests, At, table, tries
    <3> QED
      BY <1>8, <2>1, <3>1, <3>4
  <2> QED
    BY <2>2, <2>3
<1>12. CASE WriteOtpFails(w)
  BY <1>6, <1>7, <1>12 DEF WriteOtpFails, tries
<1>13. CASE SendOtp(w)
  <2>1. Steady
    BY <1>13 DEF SendOtp, Steady, FillerSigned, table, SafetyInv, TypeInv, TypeOK
  <2>2. UNCHANGED <<table, otp>> /\ Answer(w)
    BY <1>13 DEF SendOtp
  <2> QED
    BY <1>6, <2>1, <2>2, QuietForms, AnswerInFlight
<1>14. CASE SendOtpFails(w)
  BY <1>6, <1>7, <1>14 DEF SendOtpFails, SafetyInv, TypeInv, TypeOK
<1>15. CASE CommitDiscard(w)
  BY <1>6, <1>7, <1>15 DEF CommitDiscard, DeleteOtp, SafetyInv, TypeInv, TypeOK
<1>16. CASE CommitMiss(w)
  <2>1. \A b \in Assignments : otp'[b] # NoOtp => otp'[b].code # 0
    <3>1. CASE ~OtpUnmoved(w)
      BY <1>6, <1>16, <3>1 DEF CommitMiss
    <3>2. CASE OtpUnmoved(w)
      <4>1. req[w].otp # NoOtp
        BY <1>16 DEF CommitMiss, At, SafetyInv, TypeInv, OtpInHand
      <4>2. otp[a] # NoOtp
        BY <3>2, <4>1 DEF OtpUnmoved
      <4>3. otp[a] \in Otps
        BY <1>0, <4>2 DEF SafetyInv, TypeInv, TypeOK
      <4>4. otp' = [otp EXCEPT ![a].attempts = req[w].otp.attempts + 1]
        BY <1>16, <3>2 DEF CommitMiss
      <4> DEFINE tried == req[w].otp.attempts + 1
      <4>5. otp'[a] = [otp[a] EXCEPT !.attempts = tried]
        BY <1>0, <4>4 DEF SafetyInv, TypeInv, TypeOK
      <4>6. \A b \in Assignments \ {a} : otp'[b] = otp[b]
        BY <4>4 DEF SafetyInv, TypeInv, TypeOK
      <4> HIDE DEF tried
      <4>7. otp'[a].code = otp[a].code
        BY <4>3, <4>5 DEF Otps
      <4> QED
        BY <1>0, <1>6, <4>2, <4>6, <4>7
    <3> QED
      BY <3>1, <3>2
  <2> QED
    BY <1>7, <1>16, <2>1 DEF CommitMiss
<1>17. CASE CommitSave(w) \/ WriteOtp(w) \/ CommitSign(w) \/ CommitExternalSign(w)
  BY <1>17, SaveSafe, WriteOtpSafe, CommitSignSafe
<1> QED
  BY <1>2, <1>3, <1>4, <1>5, <1>9, <1>10, <1>11, <1>12, <1>13, <1>14, <1>15,
     <1>16, <1>17 DEF Continues

\* The environment's steps preserve the invariant.
LEMMA EnvironmentSafe ==
  ASSUME SafetyInv, Environment
  PROVE  /\ \A v \in Workers : req'[v] # Idle => InFlight(v)'
         /\ \A b \in Assignments : GoodForm(b)'
<1>1. \A b \in Assignments : otp[b] # NoOtp => otp[b].code # 0
  BY DEF SafetyInv, GoodForm
<1>2. CASE \E w \in Workers : Crash(w)
  <2>1. PICK w \in Workers : Answer(w) /\ UNCHANGED <<table, tries>>
    BY <1>2 DEF Crash
  <2> QED
    BY <1>1, <2>1, QuietSteady, QuietForms, AnswerInFlight DEF tries
<1>3. CASE ~\E w \in Workers : Crash(w)
  <2>1. UNCHANGED <<table, inbox, req>>
    BY <1>3 DEF Environment, TokenExpires, OtpExpires, SetOrganizationStatus, tries
  <2>2. \A b \in Assignments : otp'[b] # NoOtp => otp'[b].code # 0
    <3>1. CASE otp' = otp
      BY <1>1, <3>1
    <3>2. ASSUME NEW a \in Assignments, OtpExpires(a)
          PROVE  \A b \in Assignments : otp'[b] # NoOtp => otp'[b].code # 0
      <4>1. otp[a] \in Otps
        BY <3>2 DEF OtpExpires, SafetyInv, TypeInv, TypeOK
      <4>2. /\ otp'[a] = [otp[a] EXCEPT !.expired = TRUE]
            /\ \A b \in Assignments \ {a} : otp'[b] = otp[b]
        BY <3>2 DEF OtpExpires, SafetyInv, TypeInv, TypeOK
      <4>3. otp'[a].code = otp[a].code /\ otp[a] # NoOtp
        BY <3>2, <4>1, <4>2 DEF Otps, OtpExpires
      <4> QED
        BY <1>1, <4>2, <4>3
    <3> QED
      BY <1>3, <3>1, <3>2 DEF Environment, TokenExpires, SetOrganizationStatus, tries
  <2> QED
    BY <2>1, <2>2, QuietSteady, QuietForms, OthersInFlight
<1> QED
  BY <1>2, <1>3

\* The invariant holds at first.
LEMMA InitSafe == Init => SafetyInv
<1> SUFFICES ASSUME Init PROVE SafetyInv
  OBVIOUS
<1>1. ASSUME NEW a \in Assignments
      PROVE  GoodForm(a)
  BY DEF Init, GoodForm, SealedForm, DesignatedForm, ToldForm, ConcludedForm, BlankForm
<1> QED
  BY <1>1, InitTyped DEF Init, SafetyInv

\* Every step preserves it.
LEMMA SafetyKept == SafetyInv /\ [Next]_vars => SafetyInv'
<1> SUFFICES ASSUME SafetyInv, [Next]_vars
             PROVE  SafetyInv'
  OBVIOUS
<1>1. TypeInv' /\ RowsStay'
  <2>1. CASE Next
    BY <2>1, StartTyped, ContinueTyped, EnvironmentTyped DEF Next, SafetyInv
  <2>2. CASE UNCHANGED vars
    BY <2>2
    DEF vars, table, tries, world, SafetyInv, TypeInv, TypeOK, OtpInHand, RowsStay
  <2> QED
    BY <2>1, <2>2
<1>2. /\ \A v \in Workers : req'[v] # Idle => InFlight(v)'
      /\ \A b \in Assignments : GoodForm(b)'
  <2>1. CASE Next
    BY <2>1, StartSafe, ContinueSafe, EnvironmentSafe DEF Next
  <2>2. CASE UNCHANGED vars
    <3>1. UNCHANGED <<table, inbox, otp, req>>
      BY <2>2 DEF vars, tries
    <3>2. \A b \in Assignments : otp'[b] # NoOtp => otp'[b].code # 0
      BY <3>1 DEF SafetyInv, GoodForm
    <3> QED
      BY <3>1, <3>2, QuietSteady, QuietForms, OthersInFlight
  <2> QED
    BY <2>1, <2>2
<1> QED
  BY <1>1, <1>2 DEF SafetyInv

(* The inductive invariant.                                                *)
THEOREM SafetyInvariant == Spec => []SafetyInv
  BY InitSafe, SafetyKept, PTL DEF Spec

(* A form is signed or completed only over a filler's signature and a      *)
(* sealed version, whatever requests overlapped.                           *)
THEOREM ConcludedFormsAreSealed == Spec => []SealedBeforeConcluded
<1>1. SafetyInv => SealedBeforeConcluded
  <2> SUFFICES ASSUME SafetyInv, NEW a \in Assignments, row[a] # NoRow,
                      row[a].status \in {"signed", "completed"}
               PROVE  FillerSigned(a) /\ row[a].version # 0
    BY DEF SealedBeforeConcluded
  <2>1. GoodForm(a) /\ versions[a] \in Seq(Answers)
    BY DEF SafetyInv, TypeInv, TypeOK
  <2>2. PICK i \in DOMAIN signatures[a] : signatures[a][i].role = "filler"
    BY <2>1 DEF GoodForm, ConcludedForm, FillerSigned
  <2>3. PICK v \in DOMAIN versions[a] : versions[a][v] = signatures[a][i].content
    BY <2>1, <2>2 DEF GoodForm, SealedForm
  <2>4. row[a].version = Len(versions[a]) /\ Len(versions[a]) # 0
    BY <2>1, <2>3 DEF GoodForm, SealedForm
  <2> QED
    BY <2>2, <2>4 DEF FillerSigned
<1> QED
  BY SafetyInvariant, <1>1, PTL

(* Filler signatures and sealed versions correspond, and the row points at *)
(* the last version.                                                       *)
THEOREM SignaturesMatchVersions == Spec => []SignaturesAreSealed
<1>1. SafetyInv => SignaturesAreSealed
  BY DEF SafetyInv, GoodForm, SealedForm, SignaturesAreSealed
<1> QED
  BY SafetyInvariant, <1>1, PTL

(* Nobody but the designated filler and the assigner ever signs, and an    *)
(* external filler only with a code that was mailed.                       *)
THEOREM OnlyTheDesignatedSign == Spec => []SignedByTheDesignated
<1>1. SafetyInv => SignedByTheDesignated
  BY DEF SafetyInv, GoodForm, DesignatedForm, SignedByTheDesignated
<1> QED
  BY SafetyInvariant, <1>1, PTL

(* The last event of the trail that moves a form names its status.         *)
THEOREM TrailIsTrue == Spec => []TrailTellsStatus
<1>1. SafetyInv => TrailTellsStatus
  BY DEF SafetyInv, GoodForm, ToldForm, LastMove, TrailTellsStatus
<1> QED
  BY SafetyInvariant, <1>1, PTL

----------------------------------------------------------------------------
(* One thread: what holds when requests do not overlap.                    *)

OneThread == \A v, w \in Workers : v = w

\* What a form is when no request is under way, and while one is.
SerialForm(a) ==
    /\ row[a] # NoRow =>
          /\ row[a].status \in {"submitted", "signed", "completed"} => Complete(row[a].answers)
          /\ row[a].status \in {"signed", "completed"} =>
                /\ row[a].answers = versions[a][row[a].version]
                /\ row[a].hash = {row[a].answers}
          /\ row[a].status \notin {"signed", "completed", "cancelled"} => signatures[a] = <<>>
    /\ misses[a] <= MaxAttempts
    /\ otp[a] # NoOtp => misses[a] = otp[a].attempts

\* What the one request in flight has loaded is still there.
SerialRequest(r) ==
    /\ r.seen = row[r.id]
    /\ r.op \in {"claim", "return"} => r.seen.status \in {"pending", "submitted"}
    /\ r.op \in {"save", "submit"} => r.seen.status = "in_progress"
    /\ r.op = "submit" => Complete(r.seen.answers)
    /\ r.op = "cancel" => r.seen.status \notin FinalStatuses
    /\ r.op \in {"sign", "esign"} => r.seen.status = "submitted"
    /\ r.otp # NoOtp /\ r.step # "send" =>
          /\ otp[r.id] # NoOtp
          /\ otp[r.id].attempts = r.otp.attempts
          /\ otp[r.id].code = r.otp.code
    /\ r.step = "miss" => r.otp.attempts < MaxAttempts

SerialInv ==
    /\ SafetyInv
    /\ \A a \in Assignments : SerialForm(a)
    /\ \A w \in Workers : req[w] # Idle => SerialRequest(req[w])

\* What an answered request leaves is that no request is under way.
LEMMA AnsweredAlone ==
  ASSUME OneThread, SafetyInv, NEW w \in Workers, Answer(w)
  PROVE  \A v \in Workers : req'[v] = Idle
  BY DEF OneThread, SafetyInv, TypeInv, TypeOK, Answer

\* The request a thread serves, and the form it is about.
LEMMA SerialServed ==
  ASSUME SerialInv, NEW w \in Workers, NEW r, r = req[w], r # Idle
  PROVE  /\ r \in Requests /\ r.id \in Assignments
         /\ row[r.id] \in Rows /\ row[r.id] # NoRow /\ r.seen = row[r.id]
         /\ SerialRequest(r) /\ SerialForm(r.id) /\ GoodForm(r.id)
<1>1. r \in Requests
  BY DEF SerialInv, SafetyInv, TypeInv, TypeOK
<1>2. r.id \in Assignments
  BY <1>1 DEF Requests
<1>3. row[r.id] # NoRow /\ row[r.id] \in Rows
  BY <1>2 DEF SerialInv, SafetyInv, TypeInv, TypeOK, RowsStay
<1> QED
  BY <1>1, <1>2, <1>3 DEF SerialInv, SerialRequest, SafetyInv

\* The stages a form can be in.
LEMMA StatusIsAMove ==
  ASSUME SafetyInv, NEW a \in Assignments, row[a] # NoRow
  PROVE  row[a].status \in {"pending", "in_progress", "submitted",
                            "signed", "completed", "cancelled"}
<1>1. PICK i \in DOMAIN trail[a] : trail[a][i] \in Moves /\ row[a].status = StatusAfter(trail[a][i])
  BY DEF SafetyInv, GoodForm, ToldForm, LastMove
<1> QED
  BY <1>1 DEF Moves, StatusAfter

\* A form whose columns, signatures and tries stay as they are.
LEMMA SameForm ==
  ASSUME SerialInv, NEW a \in Assignments,
         row'[a] = row[a], signatures'[a] = signatures[a], versions'[a] = versions[a],
         misses'[a] = misses[a],
         otp'[a] # NoOtp => otp[a] # NoOtp /\ otp'[a].attempts = otp[a].attempts
  PROVE  SerialForm(a)'
<1>1. SerialForm(a)
  BY DEF SerialInv
<1> QED
  BY <1>1 DEF SerialForm, Complete

----------------------------------------------------------------------------
(* What the steps do that write the tables.                                *)

\* A transition moves one form to the status asked for.
LEMMA TransitionIs ==
  ASSUME SerialInv, NEW w \in Workers, NEW r, r = req[w], r # Idle,
         NEW new \in Statuses, NEW event, Transition(w, new, event)
  PROVE  /\ row'[r.id] # NoRow /\ row'[r.id].status = new
         /\ row'[r.id].answers = row[r.id].answers /\ row'[r.id].hash = row[r.id].hash
         /\ row'[r.id].version = row[r.id].version
         /\ \A b \in Assignments \ {r.id} : row'[b] = row[b]
         /\ UNCHANGED <<signatures, versions, otp, misses>> /\ Answer(w)
<1>1. PICK a \in Assignments : a = r.id /\ row[a] \in Rows /\ r.seen = row[a]
  BY SerialServed
<1>2. row' = [row EXCEPT ![a].status = Column(@, row[a].status, new)]
  BY <1>1 DEF Transition
<1>3. row' = [row EXCEPT ![a].status = new]
  BY <1>1, <1>2 DEF Column, SerialInv, SafetyInv, TypeInv, TypeOK
<1>4. /\ row'[a] = [row[a] EXCEPT !.status = new]
      /\ \A b \in Assignments \ {a} : row'[b] = row[b]
  BY <1>1, <1>3 DEF SerialInv, SafetyInv, TypeInv, TypeOK
<1>5. row'[a] \in Rows
  BY <1>1, <1>4 DEF Rows
<1>6. /\ row'[a] # NoRow /\ row'[a].status = new
      /\ row'[a].answers = row[a].answers /\ row'[a].hash = row[a].hash
      /\ row'[a].version = row[a].version
  BY <1>1, <1>4, <1>5, NothingAssumption DEF Rows
<1> QED
  BY <1>1, <1>4, <1>6 DEF Transition, tries

\* A save leaves the answers merged with what the row has.
LEMMA SaveIs ==
  ASSUME SerialInv, NEW w \in Workers, NEW r, r = req[w], CommitSave(w)
  PROVE  /\ r # Idle /\ row[r.id].status = "in_progress"
         /\ row'[r.id] # NoRow /\ row'[r.id].status = row[r.id].status
         /\ row'[r.id].answers = Merged(row[r.id].answers, r.patch)
         /\ row'[r.id].answers \in Answers
         /\ \A b \in Assignments \ {r.id} : row'[b] = row[b]
         /\ UNCHANGED <<signatures, versions, otp, misses>> /\ Answer(w)
<1>1. r # Idle /\ r.op = "save"
  BY DEF CommitSave, At
<1>2. PICK a \in Assignments : a = r.id /\ row[a] \in Rows /\ r.seen = row[a] /\ r \in Requests
                               /\ SerialRequest(r)
  BY <1>1, SerialServed
<1>3. row[a].status = "in_progress" /\ row[a].answers \in Answers /\ r.patch \in Answers
  BY <1>1, <1>2 DEF SerialRequest, Rows, Requests
<1>4. PICK merged : merged = Merged(row[a].answers, r.patch)
  OBVIOUS
<1>5. merged \in Answers
  BY <1>3, <1>4, MergedIsAnswers
<1>6. row' = [row EXCEPT ![a].answers = Column(@, row[a].answers, merged)]
  BY <1>2, <1>4 DEF CommitSave
<1>7. row' = [row EXCEPT ![a].answers = merged]
  BY <1>2, <1>6 DEF Column, SerialInv, SafetyInv, TypeInv, TypeOK
<1>8. /\ row'[a] = [row[a] EXCEPT !.answers = merged]
      /\ \A b \in Assignments \ {a} : row'[b] = row[b]
  BY <1>2, <1>7 DEF SerialInv, SafetyInv, TypeInv, TypeOK
<1>9. row'[a] \in Rows
  BY <1>2, <1>5, <1>8 DEF Rows
<1>10. row'[a] # NoRow /\ row'[a].status = row[a].status /\ row'[a].answers = merged
  BY <1>2, <1>8, <1>9, NothingAssumption DEF Rows
<1> QED
  BY <1>1, <1>2, <1>3, <1>4, <1>5, <1>8, <1>10 DEF CommitSave, tries

\* The one signature of a form, its filler's, seals the answers the row has.
LEMMA SignIs ==
  ASSUME SerialInv, NEW w \in Workers, NEW r, r = req[w],
         CommitSign(w) \/ CommitExternalSign(w)
  PROVE  /\ r # Idle /\ row[r.id].status = "submitted" /\ versions[r.id] = <<>>
         /\ row'[r.id] # NoRow /\ row'[r.id].status \in {"signed", "completed"}
         /\ row'[r.id].answers = row[r.id].answers
         /\ row'[r.id].hash = {row[r.id].answers} /\ row'[r.id].version = 1
         /\ versions'[r.id] = <<row[r.id].answers>>
         /\ \A b \in Assignments \ {r.id} :
               row'[b] = row[b] /\ signatures'[b] = signatures[b] /\ versions'[b] = versions[b]
         /\ misses' = misses /\ Answer(w)
         /\ \A b \in Assignments : otp'[b] \in {otp[b], NoOtp}
<1>0. PICK role \in {"filler", "assigner"} : \E used :
         /\ Sign(w, role, used) /\ r # Idle /\ r.op \in {"sign", "esign"}
         /\ role = "assigner" => r.op = "sign" /\ r.step = "assigner"
  BY DEF CommitSign, CommitExternalSign, At
<1>1. PICK used :
         /\ Sign(w, role, used) /\ r # Idle /\ r.op \in {"sign", "esign"}
         /\ role = "assigner" => r.op = "sign" /\ r.step = "assigner"
  BY <1>0
<1>2. PICK a \in Assignments :
         /\ a = r.id /\ row[a] \in Rows /\ row[a] # NoRow /\ r.seen = row[a] /\ r \in Requests
         /\ SerialRequest(r) /\ SerialForm(a) /\ GoodForm(a)
  BY <1>1, SerialServed
<1>3. row[a].status = "submitted" /\ row[a].answers \in Answers
  BY <1>1, <1>2 DEF SerialRequest, Rows
<1>4. signatures[a] = <<>>
  BY <1>2, <1>3 DEF SerialForm
<1>5. versions[a] = <<>>
  <2>1. \A v \in DOMAIN versions[a] : \E i \in DOMAIN signatures[a] : TRUE
    BY <1>2 DEF GoodForm, SealedForm
  <2>2. DOMAIN signatures[a] = {}
    BY <1>4
  <2>3. PICK s \in Seq(Answers) : s = versions[a]
    BY DEF SerialInv, SafetyInv, TypeInv, TypeOK
  <2>4. DOMAIN s = {}
    BY <2>1, <2>2, <2>3
  <2>5. s = <<>>
    BY <2>4
  <2> QED
    BY <2>3, <2>5
<1>6. role = "filler"
  <2>1. role = "assigner" => FillerSigned(a)
    BY <1>1, <1>2 DEF SerialInv, SafetyInv, InFlight
  <2> QED
    BY <1>4, <2>1 DEF FillerSigned
<1>7. PICK status \in {"signed", "completed"} :
         row' = [row EXCEPT ![a].status = status,
                            ![a].hash = {row[a].answers},
                            ![a].version = 1]
  <2>1. Append(versions[a], row[a].answers) = <<row[a].answers>> /\ Len(<<row[a].answers>>) = 1
    BY <1>5
  <2>2. PICK status : status = IF ~Countersign \/ Len(Append(signatures[a],
            [role |-> role, by |-> r.by, content |-> row[a].answers, code |-> used])) >= 2
                               THEN "completed" ELSE "signed"
    OBVIOUS
  <2>3. row' = [row EXCEPT ![a].status = status,
                           ![a].hash = Column(@, row[a].hash, {row[a].answers}),
                           ![a].version = Len(Append(versions[a], row[a].answers))]
    BY <1>1, <1>2, <1>6, <2>2 DEF Sign, MakesVersion, Snapshot
  <2>4. Column(row[a].hash, row[a].hash, {row[a].answers}) = {row[a].answers}
    BY DEF Column
  <2>5. row' = [row EXCEPT ![a].status = status, ![a].hash = {row[a].answers}, ![a].version = 1]
    BY <1>2, <2>1, <2>3, <2>4 DEF SerialInv, SafetyInv, TypeInv, TypeOK
  <2>6. status \in {"signed", "completed"}
    BY <2>2
  <2> QED
    BY <2>5, <2>6
<1>9. row'[a] = [row[a] EXCEPT !.status = status, !.hash = {row[a].answers}, !.version = 1]
  BY <1>2, <1>7 DEF SerialInv, SafetyInv, TypeInv, TypeOK
<1>10. row'[a] \in Rows
  <2>1. status \in Statuses /\ {row[a].answers} \in SUBSET Answers /\ 1 \in Nat
    BY <1>3, <1>7 DEF Statuses
  <2> QED
    BY <1>2, <1>9, <2>1 DEF Rows
<1>11. /\ row'[a] # NoRow /\ row'[a].status = status /\ row'[a].answers = row[a].answers
       /\ row'[a].hash = {row[a].answers} /\ row'[a].version = 1
  BY <1>2, <1>9, <1>10, NothingAssumption DEF Rows
<1>12. \A b \in Assignments \ {a} : row'[b] = row[b]
  BY <1>7 DEF SerialInv, SafetyInv, TypeInv, TypeOK
<1>13. /\ versions'[a] = <<row[a].answers>>
       /\ \A b \in Assignments \ {a} : versions'[b] = versions[b]
  <2>1. versions' = [versions EXCEPT ![a] = <<row[a].answers>>]
    BY <1>1, <1>2, <1>5, <1>6 DEF Sign, MakesVersion, Snapshot
  <2> QED
    BY <1>2, <2>1 DEF SerialInv, SafetyInv, TypeInv, TypeOK
<1>14. \A b \in Assignments \ {a} : signatures'[b] = signatures[b]
  BY <1>1, <1>2 DEF Sign, SerialInv, SafetyInv, TypeInv, TypeOK
<1>15. /\ misses' = misses /\ Answer(w)
       /\ \A b \in Assignments : otp'[b] \in {otp[b], NoOtp}
  BY <1>1 DEF CommitSign, CommitExternalSign, Sign, DeleteOtp, tries, SerialInv, SafetyInv,
              TypeInv, TypeOK
<1> QED
  BY <1>1, <1>2, <1>3, <1>5, <1>7, <1>11, <1>12, <1>13, <1>14, <1>15

----------------------------------------------------------------------------
(* Every step of one thread.                                               *)

\* A step that answers a request, or serves one without a request.
LEMMA SerialAnswered ==
  ASSUME OneThread, SerialInv, SafetyInv', NEW w \in Workers, Answer(w),
         \A a \in Assignments : SerialForm(a)'
  PROVE  SerialInv'
<1>1. \A v \in Workers : req'[v] = Idle
  BY AnsweredAlone DEF SerialInv
<1> QED
  BY <1>1 DEF SerialInv

\* A step that goes on with the one request in flight.
LEMMA SerialContinued ==
  ASSUME OneThread, SerialInv, SafetyInv', NEW w \in Workers, NEW r,
         req' = [req EXCEPT ![w] = r], SerialRequest(r)',
         \A a \in Assignments : SerialForm(a)'
  PROVE  SerialInv'
<1>1. \A v \in Workers : req'[v] = r
  BY DEF OneThread, SerialInv, SafetyInv, TypeInv, TypeOK
<1> QED
  BY <1>1 DEF SerialInv

\* Transitions preserve the invariant.
LEMMA SerialTransitions ==
  ASSUME OneThread, SerialInv, SafetyInv', NEW w \in Workers,
         CommitClaim(w) \/ CommitReturn(w) \/ CommitSubmit(w) \/ CommitCancel(w)
  PROVE  SerialInv'
<1>1. PICK r : r = req[w] /\ r # Idle
  BY DEF CommitClaim, CommitReturn, CommitSubmit, CommitCancel, At
<1>2. PICK a \in Assignments :
         /\ a = r.id /\ row[a] \in Rows /\ row[a] # NoRow /\ r.seen = row[a]
         /\ SerialRequest(r) /\ SerialForm(a)
  BY <1>1, SerialServed
<1>3. PICK new \in {"in_progress", "submitted", "cancelled"},
           event \in {"claimed", "submitted", "returned", "cancelled"} :
         /\ Transition(w, new, event)
         /\ new = "in_progress" => row[a].status \in {"pending", "submitted"}
         /\ new = "submitted" => row[a].status = "in_progress" /\ Complete(row[a].answers)
  BY <1>1, <1>2 DEF CommitClaim, CommitReturn, CommitSubmit, CommitCancel, At, SerialRequest
<1>4. new \in Statuses
  BY DEF Statuses
<1>5. /\ row'[a] # NoRow /\ row'[a].status = new /\ row'[a].answers = row[a].answers
      /\ \A b \in Assignments \ {a} : row'[b] = row[b]
      /\ UNCHANGED <<signatures, versions, otp, misses>> /\ Answer(w)
  <2>1. r # Idle /\ Transition(w, new, event) /\ new \in Statuses
    BY <1>1, <1>3, <1>4
  <2>2. /\ row'[r.id] # NoRow /\ row'[r.id].status = new /\ row'[r.id].answers = row[r.id].answers
        /\ \A b \in Assignments \ {r.id} : row'[b] = row[b]
        /\ UNCHANGED <<signatures, versions, otp, misses>> /\ Answer(w)
    BY <1>1, <2>1, TransitionIs
  <2> QED
    BY <1>2, <2>2
<1>6. SerialForm(a)'
  BY <1>2, <1>3, <1>5 DEF SerialForm, Complete
<1>7. \A b \in Assignments \ {a} : SerialForm(b)'
  BY <1>5, SameForm
<1> QED
  BY <1>5, <1>6, <1>7, SerialAnswered

\* Saves and signatures preserve the invariant.
LEMMA SerialWrites ==
  ASSUME OneThread, SerialInv, SafetyInv', NEW w \in Workers,
         CommitSave(w) \/ CommitSign(w) \/ CommitExternalSign(w)
  PROVE  SerialInv'
<1>1. PICK r : r = req[w]
  OBVIOUS
<1>2. r # Idle
  BY <1>1, SaveIs, SignIs
<1>3. PICK a \in Assignments :
         /\ a = r.id /\ row[a] \in Rows /\ row[a] # NoRow /\ SerialForm(a)
  BY <1>1, <1>2, SerialServed
<1>4. CASE CommitSave(w)
  <2>1. /\ row'[a] # NoRow /\ row'[a].status = "in_progress"
        /\ row[a].status = "in_progress"
        /\ \A b \in Assignments \ {a} : row'[b] = row[b]
        /\ UNCHANGED <<signatures, versions, otp, misses>> /\ Answer(w)
    BY <1>1, <1>3, <1>4, SaveIs
  <2>2. SerialForm(a)'
    BY <1>3, <2>1 DEF SerialForm
  <2>3. \A b \in Assignments \ {a} : SerialForm(b)'
    BY <2>1, SameForm
  <2> QED
    BY <2>1, <2>2, <2>3, SerialAnswered
<1>5. CASE CommitSign(w) \/ CommitExternalSign(w)
  <2>1. /\ row[a].status = "submitted"
        /\ row'[a] # NoRow /\ row'[a].status \in {"signed", "completed"}
        /\ row'[a].answers = row[a].answers
        /\ row'[a].hash = {row[a].answers} /\ row'[a].version = 1
        /\ versions'[a] = <<row[a].answers>>
        /\ \A b \in Assignments \ {a} :
              row'[b] = row[b] /\ signatures'[b] = signatures[b] /\ versions'[b] = versions[b]
        /\ misses' = misses /\ Answer(w)
        /\ \A b \in Assignments : otp'[b] \in {otp[b], NoOtp}
    BY <1>1, <1>3, <1>5, SignIs
  <2>2. versions'[a][row'[a].version] = row'[a].answers
    BY <2>1
  <2>3. SerialForm(a)'
    BY <1>3, <2>1, <2>2 DEF SerialForm, Complete
  <2>4. \A b \in Assignments \ {a} : SerialForm(b)'
    BY <2>1, SameForm
  <2> QED
    BY <2>1, <2>3, <2>4, SerialAnswered
<1> QED
  BY <1>4, <1>5

\* Steps that answer a request and leave the forms as they are.
LEMMA SerialQuiet ==
  ASSUME OneThread, SerialInv, SafetyInv', NEW w \in Workers,
         \/ CommitRemind(w) \/ WriteOtpFails(w) \/ SendOtp(w) \/ SendOtpFails(w)
         \/ CommitDiscard(w) \/ Crash(w)
  PROVE  SerialInv'
<1>1. /\ UNCHANGED <<row, signatures, versions, misses>> /\ Answer(w)
      /\ \A b \in Assignments : otp'[b] \in {otp[b], NoOtp}
  BY DEF CommitRemind, WriteOtpFails, SendOtp, SendOtpFails, CommitDiscard, Crash, DeleteOtp,
         table, tries, SerialInv, SafetyInv, TypeInv, TypeOK
<1>2. \A b \in Assignments : SerialForm(b)'
  BY <1>1, SameForm
<1> QED
  BY <1>1, <1>2, SerialAnswered

\* A wrong guess is counted where it was read.
LEMMA SerialMiss ==
  ASSUME OneThread, SerialInv, SafetyInv', NEW w \in Workers, CommitMiss(w)
  PROVE  SerialInv'
<1>1. PICK r : r = req[w] /\ r # Idle /\ r.step = "miss"
  BY DEF CommitMiss, At
<1>2. PICK a \in Assignments :
         a = r.id /\ row[a] # NoRow /\ SerialRequest(r) /\ SerialForm(a) /\ r \in Requests
  BY <1>1, SerialServed
<1>3. r.otp # NoOtp /\ r.otp \in Otps
  BY <1>1, <1>2 DEF SerialInv, SafetyInv, TypeInv, OtpInHand, Requests
<1>4. PICK n \in Nat : n = r.otp.attempts
  BY <1>3 DEF Otps
<1>5. /\ otp[a] # NoOtp /\ otp[a].attempts = n /\ otp[a].code = r.otp.code
      /\ n < MaxAttempts /\ misses[a] = n
  BY <1>1, <1>2, <1>3, <1>4 DEF SerialRequest, SerialForm
<1>6. otp[a] \in Otps /\ misses \in [Assignments -> Nat]
  BY <1>5 DEF SerialInv, SafetyInv, TypeInv, TypeOK
<1>7. UNCHANGED <<row, signatures, versions>> /\ Answer(w)
  BY DEF CommitMiss, table
<1>8. CASE OtpUnmoved(w)
  <2>1. /\ otp' = [otp EXCEPT ![a].attempts = n + 1]
        /\ misses' = [misses EXCEPT ![a] = n + 1]
    BY <1>1, <1>2, <1>4, <1>5, <1>6, <1>8 DEF CommitMiss
  <2>2. /\ otp'[a] = [otp[a] EXCEPT !.attempts = n + 1] /\ misses'[a] = n + 1
        /\ \A b \in Assignments \ {a} : otp'[b] = otp[b] /\ misses'[b] = misses[b]
    BY <1>6, <2>1 DEF SerialInv, SafetyInv, TypeInv, TypeOK
  <2>3. otp'[a].attempts = n + 1
    BY <1>6, <2>2 DEF Otps
  <2>4. n + 1 <= MaxAttempts
    BY <1>5, LimitAssumption
  <2>5. SerialForm(a)'
    BY <1>2, <1>7, <2>2, <2>3, <2>4 DEF SerialForm, Complete
  <2>6. \A b \in Assignments \ {a} : SerialForm(b)'
    BY <1>7, <2>2, SameForm
  <2> QED
    BY <1>7, <2>5, <2>6, SerialAnswered
<1>9. CASE ~OtpUnmoved(w)
  <2>1. UNCHANGED <<otp, misses>>
    BY <1>9 DEF CommitMiss
  <2>2. \A b \in Assignments : SerialForm(b)'
    BY <1>7, <2>1, SameForm
  <2> QED
    BY <1>7, <2>2, SerialAnswered
<1> QED
  BY <1>8, <1>9

\* A request that only looks keeps what it has loaded.
LEMMA SerialLooks ==
  ASSUME OneThread, SerialInv, SafetyInv', NEW w \in Workers,
         ReadSignatures(w) \/ ReadOtp(w) \/ CheckOtp(w)
  PROVE  SerialInv'
<1>1. PICK r : r = req[w] /\ r # Idle
  BY DEF ReadSignatures, ReadOtp, CheckOtp, At
<1>2. PICK a \in Assignments :
         a = r.id /\ row[a] # NoRow /\ SerialRequest(r) /\ SerialForm(a) /\ r \in Requests
  BY <1>1, SerialServed
<1>3. UNCHANGED <<row, signatures, versions, otp, misses>>
  BY DEF ReadSignatures, ReadOtp, CheckOtp, table, tries
<1>4. \A b \in Assignments : SerialForm(b)'
  BY <1>3, SameForm
<1>5. CASE Answer(w)
  BY <1>4, <1>5, SerialAnswered
<1>6. CASE ReadSignatures(w) /\ ~Answer(w)
  <2>1. PICK step \in {"filler", "assigner"} : Goto(w, step)
    BY <1>6 DEF ReadSignatures
  <2>2. PICK q : q = [r EXCEPT !.step = step]
    OBVIOUS
  <2>3. req' = [req EXCEPT ![w] = q]
    BY <1>1, <2>1, <2>2 DEF Goto
  <2>4. q.step = step /\ q.seen = r.seen /\ q.id = r.id /\ q.op = r.op /\ q.otp = r.otp
    BY <1>2, <2>2 DEF Requests
  <2>5. r.step # "send"
    BY <1>1, <1>6 DEF ReadSignatures, At
  <2>6. SerialRequest(q)'
    BY <1>2, <1>3, <2>4, <2>5 DEF SerialRequest, Complete
  <2> QED
    BY <1>4, <2>3, <2>6, SerialContinued
<1>7. CASE ReadOtp(w)
  <2>1. PICK q : q = [r EXCEPT !.step = "read", !.otp = otp[a]]
    OBVIOUS
  <2>2. req' = [req EXCEPT ![w] = q]
    BY <1>1, <1>2, <1>7, <2>1 DEF ReadOtp
  <2>3. q.step = "read" /\ q.seen = r.seen /\ q.id = r.id /\ q.op = r.op /\ q.otp = otp[a]
    BY <1>2, <2>1 DEF Requests
  <2>4. SerialRequest(q)'
    BY <1>2, <1>3, <2>3 DEF SerialRequest, Complete
  <2> QED
    BY <1>4, <2>2, <2>4, SerialContinued
<1>8. CASE CheckOtp(w) /\ ~Answer(w)
  <2>1. PICK now, step :
           /\ now = otp[a] /\ step \in {"discard", "hit", "miss"}
           /\ req' = [req EXCEPT ![w].otp = now, ![w].step = step]
           /\ step = "miss" => ~Exhausted(now) /\ now # NoOtp
    BY <1>1, <1>2, <1>8 DEF CheckOtp
  <2>2. PICK q : q = [r EXCEPT !.otp = now, !.step = step]
    OBVIOUS
  <2>3. req' = [req EXCEPT ![w] = q]
    BY <1>1, <2>1, <2>2
  <2>4. q.step = step /\ q.seen = r.seen /\ q.id = r.id /\ q.op = r.op /\ q.otp = now
    BY <1>2, <2>2 DEF Requests
  <2>5. step = "miss" => now.attempts < MaxAttempts
    <3>1. CASE now = NoOtp
      BY <2>1, <3>1
    <3>2. CASE now # NoOtp
      <4>1. now \in Otps
        BY <2>1, <3>2 DEF SerialInv, SafetyInv, TypeInv, TypeOK
      <4>2. now.attempts \in Nat
        BY <4>1 DEF Otps
      <4>3. step = "miss" => ~(now.attempts >= MaxAttempts)
        BY <2>1 DEF Exhausted
      <4> QED
        BY <4>2, <4>3, LimitAssumption
    <3> QED
      BY <3>1, <3>2
  <2>6. SerialRequest(q)'
    BY <1>2, <1>3, <2>1, <2>4, <2>5 DEF SerialRequest, Complete
  <2> QED
    BY <1>4, <2>3, <2>6, SerialContinued
<1> QED
  BY <1>5, <1>6, <1>7, <1>8

\* A fresh code starts the count of wrong guesses again.
LEMMA SerialWriteOtp ==
  ASSUME OneThread, SerialInv, SafetyInv', NEW w \in Workers, WriteOtp(w)
  PROVE  SerialInv'
<1>1. PICK r : r = req[w] /\ r # Idle /\ r.op = "otp" /\ r.step = "read"
  BY DEF WriteOtp, At
<1>2. PICK a \in Assignments :
         a = r.id /\ row[a] # NoRow /\ SerialRequest(r) /\ SerialForm(a) /\ r \in Requests
  BY <1>1, SerialServed
<1>3. UNCHANGED <<row, signatures, versions>>
  BY DEF WriteOtp
<1>4. PICK fresh, n :
         /\ n = IF r.otp = NoOtp THEN 0 ELSE Column(otp[a].attempts, r.otp.attempts, 0)
         /\ otp' = [otp EXCEPT ![a] =
                [id |-> IF r.otp = NoOtp THEN fresh ELSE r.otp.id, code |-> fresh,
                 attempts |-> n, expired |-> FALSE]]
         /\ req' = [req EXCEPT ![w].step = "send", ![w].code = fresh]
         /\ misses' = [misses EXCEPT ![a] = 0]
  BY <1>1, <1>2 DEF WriteOtp
<1>5. n = 0
  BY <1>1, <1>2, <1>4 DEF SerialRequest, Column
<1>6. /\ otp'[a].attempts = 0 /\ misses'[a] = 0
      /\ \A b \in Assignments \ {a} : otp'[b] = otp[b] /\ misses'[b] = misses[b]
  BY <1>2, <1>4, <1>5 DEF SerialInv, SafetyInv, TypeInv, TypeOK
<1>7. SerialForm(a)'
  <2>1. 0 <= MaxAttempts
    BY LimitAssumption
  <2> QED
    BY <1>2, <1>3, <1>6, <2>1 DEF SerialForm, Complete
<1>8. \A b \in Assignments \ {a} : SerialForm(b)'
  BY <1>3, <1>6, SameForm
<1>9. PICK q : q = [r EXCEPT !.step = "send", !.code = fresh]
  OBVIOUS
<1>10. req' = [req EXCEPT ![w] = q]
  BY <1>1, <1>4, <1>9
<1>11. q.step = "send" /\ q.seen = r.seen /\ q.id = r.id /\ q.op = "otp"
  BY <1>1, <1>2, <1>9 DEF Requests
<1>12. SerialRequest(q)'
  BY <1>2, <1>3, <1>11 DEF SerialRequest
<1> QED
  BY <1>7, <1>8, <1>10, <1>12, SerialContinued

\* A request that begins has loaded the row as it is.
LEMMA SerialBegin ==
  ASSUME OneThread, SerialInv, SafetyInv', NEW w \in Workers, NEW op \in Ops,
         NEW a \in Assignments, NEW who, NEW patch, NEW typed, row[a] # NoRow,
         Begin(w, op, a, who, patch, typed),
         op \in {"claim", "return"} => row[a].status \in {"pending", "submitted"},
         op \in {"save", "submit"} => row[a].status = "in_progress",
         op = "submit" => Complete(row[a].answers),
         op = "cancel" => row[a].status \notin FinalStatuses,
         op \in {"sign", "esign"} => row[a].status = "submitted"
  PROVE  SerialInv'
<1>1. UNCHANGED <<row, signatures, versions, otp, misses>>
  BY DEF Begin, table, tries
<1>2. \A b \in Assignments : SerialForm(b)'
  BY <1>1, SameForm
<1>3. PICK q : q = [op |-> op, step |-> "loaded", id |-> a, by |-> who, seen |-> row[a],
                    patch |-> patch, code |-> typed, otp |-> NoOtp]
  OBVIOUS
<1>4. req' = [req EXCEPT ![w] = q]
  BY <1>3 DEF Begin
<1>5. q.op = op /\ q.step = "loaded" /\ q.id = a /\ q.seen = row[a] /\ q.otp = NoOtp
  BY <1>3
<1>6. SerialRequest(q)'
  BY <1>1, <1>5 DEF SerialRequest, Complete
<1> QED
  BY <1>2, <1>4, <1>6, SerialContinued

\* The statuses a move may leave.
LEMMA MovesFrom ==
  ASSUME NEW s \in Statuses
  PROVE  /\ "in_progress" \in VALID_TRANSITIONS[s] => s \in {"pending", "submitted"}
         /\ "submitted" \in VALID_TRANSITIONS[s] => s = "in_progress"
         /\ "cancelled" \in VALID_TRANSITIONS[s] => s \notin FinalStatuses
  BY DEF VALID_TRANSITIONS, Statuses, FinalStatuses

\* The first steps of requests preserve the invariant.
LEMMA SerialStarts ==
  ASSUME OneThread, SerialInv, SafetyInv', NEW w \in Workers, NEW a \in Assignments,
         Starts(w, a)
  PROVE  SerialInv'
<1>1. CASE \E who \in Managers, respondent \in Respondents :
               CreateAssignment(w, a, who, respondent)
  <2>1. PICK new : /\ row' = [row EXCEPT ![a] = new]
                   /\ new.status = "pending"
                   /\ row[a] = NoRow /\ req[w] = Idle
                   /\ UNCHANGED <<signatures, versions, otp, misses, req>>
    BY <1>1 DEF CreateAssignment, tries
  <2>2. row'[a] = new /\ \A b \in Assignments \ {a} : row'[b] = row[b]
    BY <2>1 DEF SerialInv, SafetyInv, TypeInv, TypeOK
  <2>3. SerialForm(a) /\ signatures[a] = <<>>
    BY <2>1 DEF SerialInv, SafetyInv, GoodForm, BlankForm
  <2>4. SerialForm(a)'
    BY <2>1, <2>2, <2>3 DEF SerialForm
  <2>5. \A b \in Assignments \ {a} : SerialForm(b)'
    BY <2>1, <2>2, SameForm
  <2>6. \A v \in Workers : req'[v] = Idle
    BY <2>1 DEF OneThread
  <2> QED
    BY <2>4, <2>5, <2>6 DEF SerialInv
<1>2. CASE ~\E who \in Managers, respondent \in Respondents :
               CreateAssignment(w, a, who, respondent)
  <2>1. row[a] # NoRow
    BY <1>2 DEF Starts, BeginClaim, BeginSave, BeginSubmit, BeginReturn, BeginCancel,
                BeginRemind, BeginSign, BeginOtp, BeginExternalSign, Allows
  <2>2. row[a] \in Rows /\ row[a].status \in Statuses
    BY <2>1 DEF SerialInv, SafetyInv, TypeInv, TypeOK, Rows
  <2>3. CASE \E who \in Respondents :
               \/ BeginClaim(w, a, who)
               \/ \E patch \in Answers : BeginSave(w, a, who, patch)
               \/ BeginSubmit(w, a, who)
    BY <2>1, <2>2, <2>3, MovesFrom, SerialBegin
    DEF BeginClaim, BeginSave, BeginSubmit, Allows, Editable, Ops
  <2>4. CASE \E who \in Managers :
               BeginReturn(w, a, who) \/ BeginCancel(w, a, who) \/ BeginRemind(w, a, who)
    BY <2>1, <2>2, <2>4, MovesFrom, SerialBegin
    DEF BeginReturn, BeginCancel, BeginRemind, Allows, Ops
  <2>5. CASE \E who \in Members : BeginSign(w, a, who)
    BY <2>1, <2>5, SerialBegin DEF BeginSign, Ops
  <2>6. CASE \E who \in Externals :
               \/ BeginOtp(w, a, who)
               \/ \E typed \in {0} \cup inbox[a] : BeginExternalSign(w, a, who, typed)
    BY <2>1, <2>6, SerialBegin DEF BeginOtp, BeginExternalSign, Ops
  <2> QED
    BY <1>2, <2>3, <2>4, <2>5, <2>6 DEF Starts
<1> QED
  BY <1>1, <1>2

\* The world around the requests preserves the invariant.
LEMMA SerialEnvironment ==
  ASSUME OneThread, SerialInv, SafetyInv', Environment
  PROVE  SerialInv'
<1>1. CASE \E w \in Workers : Crash(w)
  BY <1>1, SerialQuiet
<1>2. CASE ~\E w \in Workers : Crash(w)
  <2>1. UNCHANGED <<row, signatures, versions, misses, req>>
    BY <1>2 DEF Environment, TokenExpires, OtpExpires, SetOrganizationStatus, table, tries
  <2>2. \A b \in Assignments :
          /\ otp'[b] # NoOtp <=> otp[b] # NoOtp
          /\ otp[b] # NoOtp => otp'[b].attempts = otp[b].attempts /\ otp'[b].code = otp[b].code
    <3>1. CASE otp' = otp
      BY <3>1
    <3>2. ASSUME NEW a \in Assignments, OtpExpires(a)
          PROVE  \A b \in Assignments :
                    /\ otp'[b] # NoOtp <=> otp[b] # NoOtp
                    /\ otp[b] # NoOtp => /\ otp'[b].attempts = otp[b].attempts
                                        /\ otp'[b].code = otp[b].code
      <4>1. otp[a] \in Otps /\ otp[a] # NoOtp
        BY <3>2 DEF OtpExpires, SerialInv, SafetyInv, TypeInv, TypeOK
      <4>2. /\ otp'[a] = [otp[a] EXCEPT !.expired = TRUE]
            /\ \A b \in Assignments \ {a} : otp'[b] = otp[b]
        BY <3>2 DEF OtpExpires, SerialInv, SafetyInv, TypeInv, TypeOK
      <4>3. otp'[a] \in Otps
        BY <4>1, <4>2 DEF Otps
      <4>4. otp'[a] # NoOtp /\ otp'[a].attempts = otp[a].attempts /\ otp'[a].code = otp[a].code
        BY <4>1, <4>2, <4>3, NothingAssumption DEF Otps
      <4> QED
        BY <4>1, <4>2, <4>4
    <3> QED
      BY <1>2, <3>1, <3>2 DEF Environment, TokenExpires, SetOrganizationStatus, tries
  <2>3. \A b \in Assignments : SerialForm(b)'
    BY <2>1, <2>2, SameForm
  <2>4. ASSUME NEW w \in Workers, req[w] # Idle
        PROVE  SerialRequest(req[w])'
    <3>1. PICK r : r = req[w]
      OBVIOUS
    <3>2. SerialRequest(r) /\ r.id \in Assignments
      BY <2>4, <3>1, SerialServed
    <3>3. SerialRequest(r)'
      BY <2>1, <2>2, <3>2 DEF SerialRequest, Complete
    <3>4. req'[w] = r
      BY <2>1, <3>1
    <3> QED
      BY <3>3, <3>4 DEF SerialRequest
  <2> QED
    BY <2>1, <2>3, <2>4 DEF SerialInv
<1> QED
  BY <1>1, <1>2

\* The invariant holds at first.
LEMMA SerialInit == Init => SerialInv
  BY InitSafe, LimitAssumption DEF Init, SerialInv, SerialForm

\* Every step of one thread preserves it.
LEMMA SerialKept == OneThread /\ SerialInv /\ [Next]_vars => SerialInv'
<1> SUFFICES ASSUME OneThread, SerialInv, [Next]_vars PROVE SerialInv'
  OBVIOUS
<1>1. SafetyInv'
  BY SafetyKept DEF SerialInv
<1>2. CASE UNCHANGED vars
  <2>1. UNCHANGED <<row, signatures, versions, misses, otp, req>>
    BY <1>2 DEF vars, table, tries
  <2> QED
    BY <1>1, <2>1, SameForm DEF SerialInv, SerialRequest, Complete
<1>3. ASSUME NEW w \in Workers, Continues(w)
      PROVE  SerialInv'
  BY <1>1, <1>3, SerialTransitions, SerialWrites, SerialQuiet, SerialMiss, SerialLooks,
     SerialWriteOtp DEF Continues
<1> QED
  BY <1>1, <1>2, <1>3, SerialStarts, SerialEnvironment DEF Next

\* The inductive invariant of one thread.
THEOREM OneThreadInvariant == ASSUME OneThread PROVE Spec => []SerialInv
  BY SerialInit, SerialKept, PTL DEF Spec

(* Served one request at a time, a form passes its mandatory fields before *)
(* it is submitted, is frozen by the signature, and a code answers no more *)
(* wrong guesses than the limit.                                           *)
THEOREM SerialFormsAreSound == ASSUME OneThread PROVE Spec => []FormsAreSound
<1>1. SerialInv => FormsAreSound
  BY DEF SerialInv, SerialForm, SafetyInv, TypeInv, FormsAreSound, SubmittedIsComplete,
         SealedIsFrozen, OtpGuessesBounded, Complete, Lifecycle!Complete
<1> QED
  BY OneThreadInvariant, <1>1, PTL

(* Served one request at a time, a save undoes no field it does not name.  *)
THEOREM SerialSavesMerge == ASSUME OneThread PROVE Spec => SavesKeepOtherFields
<1> DEFINE Kept(w) ==
        CommitSave(w) =>
            LET a == req[w].id
            IN  \A f \in DOMAIN row[a].answers \ DOMAIN req[w].patch :
                   /\ f \in DOMAIN row'[a].answers
                   /\ row'[a].answers[f] = row[a].answers[f]
<1>1. SerialInv => \A w \in Workers : Kept(w)
  <2> SUFFICES ASSUME SerialInv, NEW w \in Workers, CommitSave(w)
               PROVE  LET a == req[w].id
                      IN  \A f \in DOMAIN row[a].answers \ DOMAIN req[w].patch :
                             /\ f \in DOMAIN row'[a].answers
                             /\ row'[a].answers[f] = row[a].answers[f]
    OBVIOUS
  <2>1. PICK r : r = req[w]
    OBVIOUS
  <2>2. row'[r.id].answers = Merged(row[r.id].answers, r.patch)
    BY <2>1, SaveIs
  <2> QED
    BY <2>1, <2>2 DEF Merged
<1>2. SerialInv => [\A w \in Workers : Kept(w)]_vars
  BY <1>1
<1> QED
  BY OneThreadInvariant, <1>2, PTL DEF SavesKeepOtherFields

----------------------------------------------------------------------------
(* The refinement: each step of one thread is a step of FormLifecycle, or  *)
(* changes nothing it sees.                                                *)

Stage   == [a \in Assignments |-> IF row[a] = NoRow THEN "none" ELSE row[a].status]
Content == [a \in Assignments |-> IF row[a] = NoRow THEN Unanswered ELSE row[a].answers]
Seals   == [a \in Assignments |-> {versions[a][v] : v \in DOMAIN versions[a]}]

LifecycleStep == Lifecycle!Next \/ UNCHANGED Lifecycle!lifecycle

\* A step that leaves rows and versions is a stutter.
LEMMA Stutters ==
  ASSUME UNCHANGED <<row, versions>>
  PROVE  LifecycleStep
  BY DEF LifecycleStep, Lifecycle!lifecycle

\* The abstract columns follow the one row that changed.
LEMMA MovedForm ==
  ASSUME NEW a \in Assignments, row'[a] # NoRow,
         \A b \in Assignments \ {a} : row'[b] = row[b]
  PROVE  /\ Stage' = [Stage EXCEPT ![a] = row'[a].status]
         /\ Content' = [Content EXCEPT ![a] = row'[a].answers]
  BY DEF Stage, Content

\* A change of status alone is a move of the lifecycle.
LEMMA MapsMove ==
  ASSUME NEW a \in Assignments, row[a] # NoRow, row'[a] # NoRow,
         \A b \in Assignments \ {a} : row'[b] = row[b],
         row'[a].answers = row[a].answers, versions' = versions,
         NEW from, row[a].status \in from
  PROVE  /\ Lifecycle!MoveTo(a, from, row'[a].status)
         /\ Content' = Content /\ Seals' = Seals
<1>1. Content' = [Content EXCEPT ![a] = Content[a]]
  BY MovedForm DEF Content
<1>2. Content' = Content
  BY <1>1 DEF Content
<1>3. Stage[a] \in from /\ Stage' = [Stage EXCEPT ![a] = row'[a].status]
  BY MovedForm DEF Stage
<1>4. Lifecycle!MoveTo(a, from, row'[a].status)
  BY <1>3 DEF Stage, Lifecycle!MoveTo
<1>5. Seals' = Seals
  BY DEF Seals
<1> QED
  BY <1>2, <1>4, <1>5

\* Each transition is a move of the lifecycle.
LEMMA TransitionMaps ==
  ASSUME SerialInv, NEW w \in Workers,
         CommitClaim(w) \/ CommitReturn(w) \/ CommitSubmit(w) \/ CommitCancel(w)
  PROVE  LifecycleStep
<1>1. PICK r : r = req[w] /\ r # Idle
  BY DEF CommitClaim, CommitReturn, CommitSubmit, CommitCancel, At
<1>2. PICK a \in Assignments : a = r.id /\ row[a] # NoRow /\ r.seen = row[a] /\ SerialRequest(r)
  BY <1>1, SerialServed
<1>3. PICK new \in {"in_progress", "submitted", "cancelled"},
           event \in {"claimed", "submitted", "returned", "cancelled"} :
         /\ Transition(w, new, event)
         /\ new = "in_progress" => row[a].status \in {"pending", "submitted"}
         /\ new = "submitted" => row[a].status = "in_progress" /\ Complete(row[a].answers)
         /\ new = "cancelled" => row[a].status \notin FinalStatuses
  BY <1>1, <1>2 DEF CommitClaim, CommitReturn, CommitSubmit, CommitCancel, At, SerialRequest
<1>4. /\ row'[r.id] # NoRow /\ row'[r.id].status = new /\ row'[r.id].answers = row[r.id].answers
      /\ \A b \in Assignments \ {r.id} : row'[b] = row[b]
      /\ UNCHANGED versions
  <2>1. new \in Statuses
    BY DEF Statuses
  <2> QED
    BY <1>1, <1>3, <2>1, TransitionIs
<1>5. ASSUME NEW from, row[a].status \in from
      PROVE  Lifecycle!MoveTo(a, from, new) /\ Content' = Content /\ Seals' = Seals
  <2>1. row'[a] # NoRow /\ row'[a].answers = row[a].answers /\ row'[a].status = new
    BY <1>2, <1>4
  <2>2. \A b \in Assignments \ {a} : row'[b] = row[b]
    BY <1>2, <1>4
  <2>3. row[a] # NoRow /\ versions' = versions
    BY <1>2, <1>4
  <2>4. Lifecycle!MoveTo(a, from, row'[a].status) /\ Content' = Content /\ Seals' = Seals
    BY <1>5, <2>1, <2>2, <2>3, MapsMove
  <2> QED
    BY <2>1, <2>4 DEF Lifecycle!MoveTo
<1>6. CASE new = "in_progress"
  <2>1. Lifecycle!Open(a)
    BY <1>3, <1>5, <1>6 DEF Lifecycle!Open, Content, Seals
  <2> QED
    BY <2>1 DEF LifecycleStep, Lifecycle!Next
<1>7. CASE new = "submitted"
  <2>1. Complete(Content[a])
    BY <1>2, <1>3, <1>7 DEF Content
  <2>2. Lifecycle!Submit(a)
    BY <1>3, <1>5, <1>7, <2>1 DEF Lifecycle!Submit, Lifecycle!Complete, Complete, Content, Seals
  <2> QED
    BY <2>2 DEF LifecycleStep, Lifecycle!Next
<1>8. CASE new = "cancelled"
  <2>1. row[a].status \in {"pending", "in_progress", "submitted", "signed"}
    BY <1>2, <1>3, <1>8, StatusIsAMove DEF FinalStatuses, SerialInv
  <2>2. row[a].status \in Lifecycle!Stages \ (Lifecycle!Final \cup {Lifecycle!NoForm})
    BY <2>1 DEF Lifecycle!Stages, Lifecycle!Final, Lifecycle!NoForm
  <2>3. Lifecycle!Cancel(a)
    BY <1>5, <1>8, <2>2 DEF Lifecycle!Cancel, Content, Seals
  <2> QED
    BY <2>3 DEF LifecycleStep, Lifecycle!Next
<1> QED
  BY <1>6, <1>7, <1>8

\* A save fills the form.
LEMMA SaveMaps ==
  ASSUME SerialInv, NEW w \in Workers, CommitSave(w)
  PROVE  LifecycleStep
<1>1. PICK r : r = req[w]
  OBVIOUS
<1>2. PICK a \in Assignments : a = r.id /\ row[a] # NoRow
  BY <1>1, SaveIs, SerialServed
<1>3. /\ row[a].status = "in_progress" /\ row'[a] # NoRow /\ row'[a].status = row[a].status
      /\ row'[a].answers \in Answers
      /\ \A b \in Assignments \ {a} : row'[b] = row[b]
      /\ versions' = versions
  BY <1>1, <1>2, SaveIs
<1>4. /\ Stage[a] = "in_progress"
      /\ Content' = [Content EXCEPT ![a] = row'[a].answers]
      /\ Stage' = [Stage EXCEPT ![a] = Stage[a]]
  BY <1>2, <1>3, MovedForm DEF Stage
<1>5. Stage' = Stage /\ Seals' = Seals
  BY <1>3, <1>4 DEF Stage, Seals
<1>6. row'[a].answers \in Lifecycle!Answers
  BY <1>3 DEF Answers, Lifecycle!Answers
<1>7. Lifecycle!Fill(a)
  BY <1>4, <1>5, <1>6 DEF Lifecycle!Fill, Stage, Content, Seals
<1> QED
  BY <1>7 DEF LifecycleStep, Lifecycle!Next

\* The filler's signature seals the form.
LEMMA SignMaps ==
  ASSUME SerialInv, NEW w \in Workers, CommitSign(w) \/ CommitExternalSign(w)
  PROVE  LifecycleStep
<1>1. PICK r : r = req[w]
  OBVIOUS
<1>2. PICK a \in Assignments : a = r.id /\ row[a] # NoRow
  BY <1>1, SignIs, SerialServed
<1>3. /\ row[a].status = "submitted" /\ row'[a] # NoRow
      /\ row'[a].status \in {"signed", "completed"} /\ row'[a].answers = row[a].answers
      /\ versions'[a] = <<row[a].answers>>
      /\ \A b \in Assignments \ {a} : row'[b] = row[b] /\ versions'[b] = versions[b]
  BY <1>1, <1>2, SignIs
<1>4. /\ Stage[a] = "submitted" /\ Content[a] = row[a].answers
      /\ Stage' = [Stage EXCEPT ![a] = row'[a].status]
      /\ Content' = [Content EXCEPT ![a] = Content[a]]
  BY <1>2, <1>3, MovedForm DEF Stage, Content
<1>5. Content' = Content
  BY <1>4 DEF Content
<1>6. Seals' = [Seals EXCEPT ![a] = {Content[a]}]
  <2>1. {versions'[a][v] : v \in DOMAIN versions'[a]} = {row[a].answers}
    BY <1>3
  <2> QED
    BY <1>3, <1>4, <2>1 DEF Seals
<1>7. Lifecycle!Seal(a)
  BY <1>3, <1>4, <1>5, <1>6
  DEF Lifecycle!Seal, Lifecycle!MoveTo, Lifecycle!Sealed, Stage, Content, Seals
<1> QED
  BY <1>7 DEF LifecycleStep, Lifecycle!Next

\* A new assignment is a new form.
LEMMA CreateMaps ==
  ASSUME SerialInv, NEW w \in Workers, NEW a \in Assignments,
         NEW who \in Managers, NEW respondent \in Respondents,
         CreateAssignment(w, a, who, respondent)
  PROVE  LifecycleStep
<1>1. PICK new : /\ row' = [row EXCEPT ![a] = new]
                 /\ new = [status |-> "pending", respondent |-> respondent, assignedBy |-> who,
                           answers |-> Unanswered, hash |-> {}, version |-> 0]
                 /\ row[a] = NoRow /\ versions' = versions
  BY DEF CreateAssignment
<1>2. row'[a] = new /\ \A b \in Assignments \ {a} : row'[b] = row[b]
  BY <1>1 DEF SerialInv, SafetyInv, TypeInv, TypeOK
<1>3. new # NoRow /\ new.status = "pending" /\ new.answers = Unanswered
  <2>1. new \in Rows
    BY <1>1, UnansweredIsAnswers, PeopleAssumption DEF Rows, Statuses
  <2> QED
    BY <1>1, <2>1, NothingAssumption
<1>4. /\ Stage[a] = "none" /\ Content[a] = Unanswered
      /\ Stage' = [Stage EXCEPT ![a] = "pending"]
      /\ Content' = [Content EXCEPT ![a] = Content[a]]
  <2>1. row'[a] # NoRow /\ row'[a].status = "pending" /\ row'[a].answers = Unanswered
    BY <1>2, <1>3
  <2> QED
    BY <1>1, <1>2, <2>1, MovedForm DEF Stage, Content
<1>5. Content' = Content /\ Seals' = Seals
  BY <1>1, <1>4 DEF Content, Seals
<1>6. Lifecycle!Assign(a)
  BY <1>4, <1>5 DEF Lifecycle!Assign, Lifecycle!MoveTo, Lifecycle!NoForm, Stage, Content, Seals
<1> QED
  BY <1>6 DEF LifecycleStep, Lifecycle!Next

\* Every step of one thread is a step of the lifecycle or a stutter.
LEMMA StepMaps == SerialInv /\ [Next]_vars => LifecycleStep
<1> SUFFICES ASSUME SerialInv, [Next]_vars PROVE LifecycleStep
  OBVIOUS
<1>1. CASE UNCHANGED <<row, versions>>
  BY <1>1, Stutters
<1>2. CASE ~UNCHANGED <<row, versions>>
  <2>1. ~UNCHANGED vars
    BY <1>2 DEF vars, table
  <2>2. CASE \E w \in Workers, a \in Assignments : Starts(w, a)
    <3>1. PICK w \in Workers, a \in Assignments : Starts(w, a)
      BY <2>2
    <3>2. PICK who \in Managers, respondent \in Respondents :
             CreateAssignment(w, a, who, respondent)
      BY <1>2, <3>1
      DEF Starts, BeginClaim, BeginSave, BeginSubmit, BeginReturn, BeginCancel, BeginRemind,
          BeginSign, BeginOtp, BeginExternalSign, Begin, table
    <3> QED
      BY <3>2, CreateMaps
  <2>3. CASE \E w \in Workers : Continues(w)
    <3>1. PICK w \in Workers : Continues(w)
      BY <2>3
    <3>2. \/ CommitClaim(w) \/ CommitReturn(w) \/ CommitSubmit(w) \/ CommitCancel(w)
          \/ CommitSave(w) \/ CommitSign(w) \/ CommitExternalSign(w)
      BY <1>2, <3>1
      DEF Continues, CommitRemind, ReadSignatures, ReadOtp, WriteOtp, WriteOtpFails, SendOtp,
          SendOtpFails, CheckOtp, CommitDiscard, CommitMiss, table
    <3> QED
      BY <3>2, TransitionMaps, SaveMaps, SignMaps
  <2>4. ~Environment
    BY <1>2 DEF Environment, Crash, TokenExpires, OtpExpires, SetOrganizationStatus, table
  <2> QED
    BY <2>1, <2>2, <2>3, <2>4 DEF Next
<1> QED
  BY <1>1, <1>2

\* A program with no form is a lifecycle with none.
LEMMA InitMaps == Init => Lifecycle!Init
  BY DEF Init, Lifecycle!Init, Lifecycle!NoForm, Lifecycle!Unanswered, Unanswered

(* Served one request at a time, the program implements the lifecycle.     *)
THEOREM SerialFollowsLifecycle == ASSUME OneThread PROVE Spec => FollowsLifecycle
<1>1. SerialInv /\ [Next]_vars => [Lifecycle!Next]_(Lifecycle!lifecycle)
  BY StepMaps DEF LifecycleStep
<1> QED
  BY InitMaps, OneThreadInvariant, <1>1, PTL DEF Spec, FollowsLifecycle, Lifecycle!Spec
=============================================================================
