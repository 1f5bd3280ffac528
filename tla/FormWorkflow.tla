---------------------------- MODULE FormWorkflow ----------------------------
(***************************************************************************)
(* The form workflow of one organization as the server runs it: handlers   *)
(* in a thread pool, each with its own database session.                   *)
(*                                                                         *)
(* A handler SELECTs the assignment row (its Begin step), tests that copy  *)
(* and, with no lock or version column between the two, UPDATEs the        *)
(* columns it changed (its Commit step) in one READ COMMITTED transaction. *)
(* The ORM writes only the columns whose new value differs from the value  *)
(* it loaded, so Column() below decides what reaches the row.  The steps   *)
(* of different requests interleave freely; a crash loses a request that   *)
(* has not committed.                                                      *)
(***************************************************************************)
EXTENDS Integers, Sequences, FiniteSets

CONSTANTS
    Workers,        \* request threads
    Assignments,    \* assignment ids
    Members,        \* users with an active membership that fills and signs
    Managers,       \* those who also assign, return, cancel and remind
    SuperAdmins,    \* users whom a suspended organization does not stop
    Externals,      \* holders of an emailed link; not members
    Fields, Mandatory, Values, Blank,   \* as in FormLifecycle
    MaxAttempts,    \* OTP_MAX_ATTEMPTS
    Countersign,    \* the organization's require_assigner_countersignature
    MaxSaves,       \* bound of the model: saves of one form
    MaxTrail,       \* bound of the model: other events after which no
                    \* reminder, OTP request or reopening starts
    NoRow, NoOtp, Idle      \* no assignment, no OTP row, no request

ASSUME FormAssumption == Mandatory \subseteq Fields /\ Blank \notin Values

ASSUME PeopleAssumption ==
    /\ Managers \subseteq Members
    /\ SuperAdmins \subseteq Members
    /\ Externals \cap Members = {}

ASSUME LimitAssumption ==
    MaxAttempts \in Nat \ {0} /\ Countersign \in BOOLEAN /\ MaxSaves \in Nat /\ MaxTrail \in Nat

VARIABLES
    row,            \* form_assignments
    trail,          \* form_assignment_events, oldest first (append-only)
    signatures,     \* form_signatures, oldest first (append-only)
    versions,       \* the form's document_versions by number (append-only)
    otp,            \* form_signature_otps, at most one per assignment
    tokenExpired,   \* the emailed link is past token_expires_at
    suspended,      \* organizations.status
    req,            \* the request each thread is serving
    codes,          \* OTP codes drawn so far; a code is its draw number
    inbox,          \* codes that reached the respondent's mailbox
    misses          \* history: wrong guesses answered against the live code

table == <<row, trail, signatures, versions>>
tries == <<otp, codes, inbox, misses>>
world == <<tokenExpired, suspended>>
vars  == <<table, tries, world, req>>

----------------------------------------------------------------------------
(* Data.                                                                   *)

Answers    == UNION {[D -> Values \cup {Blank}] : D \in SUBSET Fields}
Unanswered == [f \in {} |-> Blank]

Statuses == {"draft", "pending", "in_progress", "submitted", "returned",
             "signed", "completed", "cancelled"}

FinalStatuses == {"completed", "cancelled"}

\* Fault: a table in which a final status can still go back.
ReopeningTransitions == [s \in Statuses |->
    CASE s \in {"pending", "completed"} -> {"in_progress", "cancelled"}
      [] s = "in_progress" -> {"submitted", "cancelled"}
      [] s = "submitted"   -> {"in_progress", "signed", "cancelled"}
      [] OTHER             -> {}]

VALID_TRANSITIONS == [s \in Statuses |->
    CASE s = "draft"       -> {"pending", "cancelled"}
      [] s = "pending"     -> {"in_progress", "cancelled"}
      [] s = "in_progress" -> {"submitted", "cancelled"}
      [] s = "submitted"   -> {"in_progress", "signed", "cancelled"}
      [] s = "signed"      -> {"completed", "cancelled"}
      [] OTHER             -> {}]

\* The events that move a form; saved, reminded and otp_requested do not.
Moves == {"assigned", "claimed", "submitted", "returned", "signed",
          "completed", "cancelled"}

\* The status each of them leaves the form in.
StatusAfter(event) ==
    CASE event = "assigned"                -> "pending"
      [] event \in {"claimed", "returned"} -> "in_progress"
      [] OTHER                             -> event

Events == Moves \cup {"saved", "reminded", "otp_requested"}

Respondents == Members \cup Externals

Rows == [status     : Statuses,
         respondent : Respondents,  \* respondent_user_id, or the link's holder
         assignedBy : Members,
         answers    : Answers,
         hash       : SUBSET Answers,   \* content_hash: {} or {what it hashes}
         version    : Nat]              \* current_version_id, 0 if none

Signatures == [role : {"filler", "assigner"}, by : Respondents,
               content : Answers, code : Nat]

Otps  == [id : Nat, code : Nat, attempts : Nat, expired : BOOLEAN]

Ops == {"claim", "save", "submit", "return", "cancel", "remind",
        "sign", "otp", "esign"}

Steps == {"loaded", "filler", "assigner",       \* sign
          "read", "send",                       \* otp
          "discard", "miss", "hit"}             \* esign

Requests == [op : Ops, step : Steps, id : Assignments, by : Respondents,
             seen : Rows, patch : Answers, code : Nat,
             otp : Otps \cup {NoOtp}]

ASSUME NothingAssumption ==
    NoRow \notin Rows /\ NoOtp \notin Otps /\ Idle \notin Requests

\* Fault: a key that is present but blank counts as filled.
PresentIsComplete(answers) == Mandatory \subseteq DOMAIN answers

\* validate_mandatory_fields finds nothing missing.
Complete(answers) ==
    \A f \in Mandatory : f \in DOMAIN answers /\ answers[f] # Blank

\* Fault: the UPDATE silently skips a row that has moved on.
ColumnIfUnmoved(current, loaded, new) == IF current = loaded THEN new ELSE current

\* What an UPDATE leaves in a column: unchanged unless the handler gave it a
\* value other than the one it had loaded.
Column(current, loaded, new) == IF new = loaded THEN current ELSE new

Saves(a) == Cardinality({i \in DOMAIN trail[a] : trail[a][i] = "saved"})

Room(a) == Len(trail[a]) - Saves(a) < MaxTrail

\* The type invariant: every column keeps the type its table declares, and a
\* request in flight holds a row of the same shape.
TypeOK ==
    /\ row \in [Assignments -> Rows \cup {NoRow}]
    /\ trail \in [Assignments -> Seq(Events)]
    /\ signatures \in [Assignments -> Seq(Signatures)]
    /\ versions \in [Assignments -> Seq(Answers)]
    /\ otp \in [Assignments -> Otps \cup {NoOtp}]
    /\ tokenExpired \in [Assignments -> BOOLEAN]
    /\ suspended \in BOOLEAN
    /\ req \in [Workers -> Requests \cup {Idle}]
    /\ codes \in Nat
    /\ inbox \in [Assignments -> SUBSET Nat]
    /\ misses \in [Assignments -> Nat]

Init ==
    /\ row = [a \in Assignments |-> NoRow]
    /\ trail = [a \in Assignments |-> <<>>]
    /\ signatures = [a \in Assignments |-> <<>>]
    /\ versions = [a \in Assignments |-> <<>>]
    /\ otp = [a \in Assignments |-> NoOtp]
    /\ tokenExpired = [a \in Assignments |-> FALSE]
    /\ suspended = FALSE
    /\ req = [w \in Workers |-> Idle]
    /\ codes = 0
    /\ inbox = [a \in Assignments |-> {}]
    /\ misses = [a \in Assignments |-> 0]

----------------------------------------------------------------------------
(* Requests.                                                               *)

\* Members come through get_org_context, which a suspended organization
\* refuses to all but super admins; the link is resolved by its token alone.
Reaches(who, a) ==
    IF who \in Externals
    THEN row[a].respondent = who /\ ~tokenExpired[a]
    ELSE who \in SuperAdmins \/ ~suspended

\* A handler loads its assignment.  A request the loaded row refuses (4xx)
\* changes nothing and is not begun.
Begin(w, op, a, who, patch, typed) ==
    /\ req[w] = Idle
    /\ Reaches(who, a)
    /\ req' = [req EXCEPT ![w] =
                  [op |-> op, step |-> "loaded", id |-> a, by |-> who,
                   seen |-> row[a], patch |-> patch, code |-> typed,
                   otp |-> NoOtp]]
    /\ UNCHANGED <<table, tries, world>>

At(w, op, step) == req[w] # Idle /\ req[w].op = op /\ req[w].step = step

Goto(w, step) == req' = [req EXCEPT ![w].step = step]
Answer(w)     == req' = [req EXCEPT ![w] = Idle]

Record(a, events) == trail' = [trail EXCEPT ![a] = @ \o events]

\* VALID_TRANSITIONS admits the move from the row's status.
Allows(a, new) == row[a] # NoRow /\ new \in VALID_TRANSITIONS[row[a].status]

\* Fault: the trail gets the status instead of the event.
TransitionNamesStatus(w, new, event) ==
    LET a == req[w].id
    IN  /\ row' = [row EXCEPT ![a].status = Column(@, req[w].seen.status, new)]
        /\ Record(a, <<new>>)
        /\ Answer(w)
        /\ UNCHANGED <<signatures, versions, tries, world>>

\* _transition: the new status and its event in one transaction.
Transition(w, new, event) ==
    LET a == req[w].id
    IN  /\ row' = [row EXCEPT ![a].status = Column(@, req[w].seen.status, new)]
        /\ Record(a, <<event>>)
        /\ Answer(w)
        /\ UNCHANGED <<signatures, versions, tries, world>>

\* create_assignment: one INSERT, with its first event.
CreateAssignment(w, a, who, respondent) ==
    /\ req[w] = Idle
    /\ row[a] = NoRow
    /\ who \in SuperAdmins \/ ~suspended
    /\ row' = [row EXCEPT ![a] =
                  [status |-> "pending", respondent |-> respondent,
                   assignedBy |-> who, answers |-> Unanswered,
                   hash |-> {}, version |-> 0]]
    /\ Record(a, <<"assigned">>)
    /\ UNCHANGED <<signatures, versions, tries, world, req>>

\* claim also takes a submitted form back to in_progress when a member calls
\* it; claim_form, behind the link, only takes a pending one.
BeginClaim(w, a, who) ==
    /\ Allows(a, "in_progress")
    /\ row[a].respondent = who
    /\ row[a].status = "submitted" => (who \in Members /\ Room(a))
    /\ Begin(w, "claim", a, who, Unanswered, 0)

CommitClaim(w) ==
    At(w, "claim", "loaded") /\ Transition(w, "in_progress", "claimed")

\* Fault: a save is refused only when the form was cancelled.
EditableUnlessCancelled == Statuses \ {"cancelled"}

Editable == {"in_progress"}

\* Fault: a partial save replaces the dictionary.
Replaced(old, patch) == patch

Merged(old, patch) ==
    [f \in DOMAIN old \cup DOMAIN patch |->
        IF f \in DOMAIN patch THEN patch[f] ELSE old[f]]

BeginSave(w, a, who, patch) ==
    /\ row[a] # NoRow
    /\ row[a].status \in Editable
    /\ row[a].respondent = who
    /\ Saves(a) < MaxSaves
    /\ Begin(w, "save", a, who, patch, 0)

\* The saved dictionary is built from the answers the request had loaded.
CommitSave(w) ==
    /\ At(w, "save", "loaded")
    /\ LET a   == req[w].id
           old == req[w].seen.answers
       IN  /\ row' = [row EXCEPT ![a].answers =
                         Column(@, old, Merged(old, req[w].patch))]
           /\ Record(a, <<"saved">>)
    /\ Answer(w)
    /\ UNCHANGED <<signatures, versions, tries, world>>

BeginSubmit(w, a, who) ==
    /\ Allows(a, "submitted")
    /\ row[a].respondent = who
    /\ Complete(row[a].answers)
    /\ Begin(w, "submit", a, who, Unanswered, 0)

CommitSubmit(w) ==
    At(w, "submit", "loaded") /\ Transition(w, "submitted", "submitted")

\* return_assignment asks only that in_progress be reachable, so it also
\* opens a pending form.
BeginReturn(w, a, who) ==
    /\ Allows(a, "in_progress")
    /\ who \in Managers
    /\ Room(a)
    /\ Begin(w, "return", a, who, Unanswered, 0)

CommitReturn(w) ==
    At(w, "return", "loaded") /\ Transition(w, "in_progress", "returned")

BeginCancel(w, a, who) ==
    /\ Allows(a, "cancelled")
    /\ who \in Managers
    /\ Begin(w, "cancel", a, who, Unanswered, 0)

CommitCancel(w) ==
    At(w, "cancel", "loaded") /\ Transition(w, "cancelled", "cancelled")

\* remind tests nothing: a completed or cancelled form is reminded too.
BeginRemind(w, a, who) ==
    /\ row[a] # NoRow
    /\ who \in Managers
    /\ Room(a)
    /\ Begin(w, "remind", a, who, Unanswered, 0)

CommitRemind(w) ==
    /\ At(w, "remind", "loaded")
    /\ Record(req[w].id, <<"reminded">>)
    /\ Answer(w)
    /\ UNCHANGED <<row, signatures, versions, tries, world>>

----------------------------------------------------------------------------
(* Signatures.                                                             *)

BeginSign(w, a, who) ==
    /\ row[a] # NoRow
    /\ row[a].status = "submitted"
    /\ Begin(w, "sign", a, who, Unanswered, 0)

FillerSigned(a) ==
    \E i \in DOMAIN signatures[a] : signatures[a][i].role = "filler"

\* Fault: the roles are tested the wrong way round.
SignerSwapped(seen, signed) == IF signed THEN seen.respondent ELSE seen.assignedBy

\* The first signature is the filler's, the next the assigner's.
Signer(seen, signed) == IF signed THEN seen.assignedBy ELSE seen.respondent

\* The designated signer goes on; anyone else gets a 403.
ReadSignatures(w) ==
    /\ At(w, "sign", "loaded")
    /\ LET signed == FillerSigned(req[w].id)
       IN  IF req[w].by = Signer(req[w].seen, signed)
           THEN Goto(w, IF signed THEN "assigner" ELSE "filler")
           ELSE Answer(w)
    /\ UNCHANGED <<table, tries, world>>

\* Fault: the version is taken from the row as it is at the commit.
SnapshotOfRow(w) == row[req[w].id].answers

\* What is sealed: the answers the request had loaded, hashed and signed.
Snapshot(w) == req[w].seen.answers

\* Fault: only the countersignature makes a version.
MakesVersionLate(role) == role = "assigner"

MakesVersion(role) == role = "filler"

\* The signing transaction.  Its first flush always writes signed_at, so it
\* holds the assignment row while it counts versions and signatures: the rest
\* is atomic.  Only a filler's signature makes a version; the policy decides
\* whether the form is concluded.
Sign(w, role, used) ==
    LET a        == req[w].id
        signed   == Append(signatures[a], [role |-> role, by |-> req[w].by,
                               content |-> req[w].seen.answers, code |-> used])
        sealed   == IF MakesVersion(role) THEN Append(versions[a], Snapshot(w))
                                          ELSE versions[a]
        conclude == ~Countersign \/ Len(signed) >= 2
    IN  /\ signatures' = [signatures EXCEPT ![a] = signed]
        /\ versions' = [versions EXCEPT ![a] = sealed]
        /\ row' = [row EXCEPT
              ![a].status  = IF conclude THEN "completed" ELSE "signed",
              ![a].hash    = Column(@, req[w].seen.hash, {req[w].seen.answers}),
              ![a].version = IF MakesVersion(role) THEN Len(sealed) ELSE @]
        /\ Record(a, IF conclude THEN <<"signed", "completed">> ELSE <<"signed">>)
        /\ Answer(w)

CommitSign(w) ==
    /\ \E role \in {"filler", "assigner"} : At(w, "sign", role) /\ Sign(w, role, 0)
    /\ UNCHANGED <<tries, world>>

\* request_otp tests neither status nor earlier requests.
BeginOtp(w, a, who) ==
    /\ row[a] # NoRow
    /\ Room(a)
    /\ Begin(w, "otp", a, who, Unanswered, 0)

ReadOtp(w) ==
    /\ At(w, "otp", "loaded")
    /\ req' = [req EXCEPT ![w].step = "read", ![w].otp = otp[req[w].id]]
    /\ UNCHANGED <<table, tries, world>>

\* The OTP row the request had read is still there (or there is still none).
OtpUnmoved(w) ==
    LET old == req[w].otp
        now == otp[req[w].id]
    IN  IF old = NoOtp THEN now = NoOtp ELSE now # NoOtp /\ now.id = old.id

\* Replaces the row it read in place, or inserts the first one.
WriteOtp(w) ==
    /\ At(w, "otp", "read")
    /\ OtpUnmoved(w)
    /\ LET a     == req[w].id
           old   == req[w].otp
           fresh == codes + 1
       IN  /\ codes' = fresh
           /\ otp' = [otp EXCEPT ![a] =
                 [id       |-> IF old = NoOtp THEN fresh ELSE old.id,
                  code     |-> fresh,
                  attempts |-> IF old = NoOtp THEN 0
                               ELSE Column(otp[a].attempts, old.attempts, 0),
                  expired  |-> FALSE]]
           /\ misses' = [misses EXCEPT ![a] = 0]
           /\ Record(a, <<"otp_requested">>)
           /\ req' = [req EXCEPT ![w].step = "send", ![w].code = fresh]
    /\ UNCHANGED <<row, signatures, versions, inbox, world>>

\* Another request inserted or deleted the row meanwhile: unique violation
\* (409) or an UPDATE of no row (500); both roll back.
WriteOtpFails(w) ==
    /\ At(w, "otp", "read")
    /\ ~OtpUnmoved(w)
    /\ Answer(w)
    /\ UNCHANGED <<table, tries, world>>

SendOtp(w) ==
    /\ At(w, "otp", "send")
    /\ inbox' = [inbox EXCEPT ![req[w].id] = @ \cup {req[w].code}]
    /\ Answer(w)
    /\ UNCHANGED <<table, otp, codes, misses, world>>

\* The mail service refuses: whatever OTP the assignment has now is deleted.
SendOtpFails(w) ==
    /\ At(w, "otp", "send")
    /\ otp' = [otp EXCEPT ![req[w].id] = NoOtp]
    /\ Answer(w)
    /\ UNCHANGED <<table, codes, inbox, misses, world>>

\* The respondent types a code received by mail, or 0, any other.
BeginExternalSign(w, a, who, typed) ==
    /\ row[a] # NoRow
    /\ row[a].status = "submitted"
    /\ typed \in {0} \cup inbox[a]
    /\ Begin(w, "esign", a, who, Unanswered, typed)

\* Fault: one guess too many.
ExhaustedLate(now) == now.expired \/ now.attempts > MaxAttempts

Exhausted(now) == now.expired \/ now.attempts >= MaxAttempts

\* Fault: any code is taken for the one sent.
MatchesAny(typed, now) == TRUE

Matches(typed, now) == typed = now.code

CheckOtp(w) ==
    /\ At(w, "esign", "loaded")
    /\ LET now == otp[req[w].id]
       IN  \/ now = NoOtp /\ Answer(w)
           \/ /\ now # NoOtp
              /\ req' = [req EXCEPT
                    ![w].otp  = now,
                    ![w].step = IF Exhausted(now) THEN "discard"
                                ELSE IF Matches(req[w].code, now) THEN "hit"
                                                                  ELSE "miss"]
    /\ UNCHANGED <<table, tries, world>>

\* DELETE by primary key; deleting no row is only a warning.
DeleteOtp(w) ==
    otp' = [otp EXCEPT ![req[w].id] = IF OtpUnmoved(w) THEN NoOtp ELSE @]

CommitDiscard(w) ==
    /\ At(w, "esign", "discard")
    /\ DeleteOtp(w)
    /\ Answer(w)
    /\ UNCHANGED <<table, codes, inbox, misses, world>>

\* attempts is one more than the request had read; without the row, a 500.
CommitMiss(w) ==
    /\ At(w, "esign", "miss")
    /\ LET a   == req[w].id
           old == req[w].otp
       IN  \/ /\ OtpUnmoved(w)
              /\ otp' = [otp EXCEPT ![a].attempts = old.attempts + 1]
              /\ misses' = [misses EXCEPT ![a] =
                               IF otp[a].code = old.code THEN @ + 1 ELSE @]
           \/ ~OtpUnmoved(w) /\ UNCHANGED <<otp, misses>>
    /\ Answer(w)
    /\ UNCHANGED <<table, codes, inbox, world>>

CommitExternalSign(w) ==
    /\ At(w, "esign", "hit")
    /\ DeleteOtp(w)
    /\ Sign(w, "filler", req[w].code)
    /\ UNCHANGED <<codes, inbox, misses, world>>

----------------------------------------------------------------------------
(* The world around the requests.                                          *)

\* The process dies, or the database refuses the transaction.
Crash(w) ==
    /\ req[w] # Idle
    /\ Answer(w)
    /\ UNCHANGED <<table, tries, world>>

TokenExpires(a) ==
    /\ row[a] # NoRow
    /\ row[a].respondent \in Externals
    /\ ~tokenExpired[a]
    /\ tokenExpired' = [tokenExpired EXCEPT ![a] = TRUE]
    /\ UNCHANGED <<table, tries, suspended, req>>

OtpExpires(a) ==
    /\ otp[a] # NoOtp
    /\ ~otp[a].expired
    /\ otp' = [otp EXCEPT ![a].expired = TRUE]
    /\ UNCHANGED <<table, codes, inbox, misses, world, req>>

SetOrganizationStatus ==
    /\ suspended' = ~suspended
    /\ UNCHANGED <<table, tries, tokenExpired, req>>

Starts(w, a) ==
    \/ \E who \in Managers, respondent \in Respondents :
          CreateAssignment(w, a, who, respondent)
    \/ \E who \in Respondents :
          \/ BeginClaim(w, a, who)
          \/ \E patch \in Answers : BeginSave(w, a, who, patch)
          \/ BeginSubmit(w, a, who)
    \/ \E who \in Managers :
          BeginReturn(w, a, who) \/ BeginCancel(w, a, who) \/ BeginRemind(w, a, who)
    \/ \E who \in Members : BeginSign(w, a, who)
    \/ \E who \in Externals :
          \/ BeginOtp(w, a, who)
          \/ \E typed \in {0} \cup inbox[a] : BeginExternalSign(w, a, who, typed)

Continues(w) ==
    \/ CommitClaim(w) \/ CommitSave(w) \/ CommitSubmit(w)
    \/ CommitReturn(w) \/ CommitCancel(w) \/ CommitRemind(w)
    \/ ReadSignatures(w) \/ CommitSign(w)
    \/ ReadOtp(w) \/ WriteOtp(w) \/ WriteOtpFails(w)
    \/ SendOtp(w) \/ SendOtpFails(w)
    \/ CheckOtp(w) \/ CommitDiscard(w) \/ CommitMiss(w) \/ CommitExternalSign(w)

Environment ==
    \/ \E w \in Workers : Crash(w)
    \/ \E a \in Assignments : TokenExpires(a) \/ OtpExpires(a)
    \/ SetOrganizationStatus

Next ==
    \/ \E w \in Workers, a \in Assignments : Starts(w, a)
    \/ \E w \in Workers : Continues(w)
    \/ Environment

Spec == Init /\ [][Next]_vars

----------------------------------------------------------------------------
(* What holds whatever the interleaving.                                   *)

\* Nothing is signed or completed without a filler's signature and a sealed
\* version the row points at, however stale the request that moved it.
SealedBeforeConcluded ==
    \A a \in Assignments :
        row[a] # NoRow /\ row[a].status \in {"signed", "completed"} =>
            FillerSigned(a) /\ row[a].version # 0

\* Every filler's signature has an immutable version of exactly what was
\* signed, every version has its signature, and the row points at the last.
SignaturesAreSealed ==
    \A a \in Assignments :
        /\ \A i \in DOMAIN signatures[a] :
              signatures[a][i].role = "filler" =>
                  \E v \in DOMAIN versions[a] : versions[a][v] = signatures[a][i].content
        /\ \A v \in DOMAIN versions[a] :
              \E i \in DOMAIN signatures[a] :
                  /\ signatures[a][i].role = "filler"
                  /\ signatures[a][i].content = versions[a][v]
        /\ row[a] # NoRow => row[a].version = Len(versions[a])

\* Only the designated filler signs as filler, an external one only with a
\* code that was mailed to them; only the assigner countersigns, and only
\* what a filler has already signed.
SignedByTheDesignated ==
    \A a \in Assignments : \A i \in DOMAIN signatures[a] :
        LET s == signatures[a][i]
        IN  /\ row[a] # NoRow
            /\ s.role = "filler" => s.by = row[a].respondent
            /\ s.role = "assigner" =>
                  /\ s.by = row[a].assignedBy
                  /\ \E j \in 1..(i - 1) : signatures[a][j].role = "filler"
            /\ s.by \in Externals => s.code \in inbox[a]

\* The event trail accounts for the status: the last event that moves a form
\* names the status its row has, in every interleaving.
TrailTellsStatus ==
    \A a \in Assignments :
        LET moves == {i \in DOMAIN trail[a] : trail[a][i] \in Moves}
        IN  row[a] # NoRow =>
                \E i \in moves : /\ \A j \in moves : j <= i
                                 /\ row[a].status = StatusAfter(trail[a][i])

----------------------------------------------------------------------------
(* What holds when requests do not overlap (one worker), and what           *)
(* overlapping requests break.                                             *)

Lifecycle == INSTANCE FormLifecycle WITH
    stage   <- [a \in Assignments |->
                   IF row[a] = NoRow THEN "none" ELSE row[a].status],
    content <- [a \in Assignments |->
                   IF row[a] = NoRow THEN Unanswered ELSE row[a].answers],
    seal    <- [a \in Assignments |-> {versions[a][v] : v \in DOMAIN versions[a]}]

\* One form at a time moves along the lifecycle.
FollowsLifecycle == Lifecycle!Spec

\* A committed save adds its patch to what the row holds: nobody's saved
\* field is undone by a save that did not mention it (FR-008: partial saves
\* are resumable "sem perda de dados").
SavesKeepOtherFields ==
    [][\A w \in Workers :
          CommitSave(w) =>
              LET a == req[w].id
              IN  \A f \in DOMAIN row[a].answers \ DOMAIN req[w].patch :
                     /\ f \in DOMAIN row'[a].answers
                     /\ row'[a].answers[f] = row[a].answers[f]]_vars

\* A form that was submitted, signed or completed has every mandatory field.
SubmittedIsComplete ==
    \A a \in Assignments :
        row[a] # NoRow /\ row[a].status \in {"submitted", "signed", "completed"} =>
            Lifecycle!Complete(row[a].answers)

\* After the signature the answers in the row are the answers sealed, and so
\* is the hash the row keeps.
SealedIsFrozen ==
    \A a \in Assignments :
        row[a] # NoRow /\ row[a].status \in {"signed", "completed"} =>
            /\ row[a].answers = versions[a][row[a].version]
            /\ row[a].hash = {row[a].answers}

\* A code answers no more than OTP_MAX_ATTEMPTS wrong guesses.
OtpGuessesBounded == \A a \in Assignments : misses[a] <= MaxAttempts

\* What holds in every state as long as one request is served at a time:
\* nobody gets a form past its mandatory fields, what is sealed back into
\* editing, or more guesses than the limit by any order of legal calls.
FormsAreSound ==
    /\ TypeOK
    /\ SubmittedIsComplete
    /\ SealedIsFrozen
    /\ OtpGuessesBounded

----------------------------------------------------------------------------
(* Promised by the documents and not kept: a cancel between load and commit *)
(* of a claim, the filler's signature delivered twice, a link that never    *)
(* looks at the organization (README, section 5).                          *)

\* The status only moves along VALID_TRANSITIONS, in any interleaving (FR-006:
\* "permitindo apenas as transicoes validas"); signing may take signed and completed at once.
OnlyValidTransitions ==
    [][\A a \in Assignments :
          (row[a] # NoRow /\ row'[a].status # row[a].status) =>
              \/ row'[a].status \in VALID_TRANSITIONS[row[a].status]
              \/ \E s \in VALID_TRANSITIONS[row[a].status] :
                    s = "signed" /\ row'[a].status \in VALID_TRANSITIONS[s]]_vars

\* Where the organization requires the countersignature, a form is completed
\* only with the assigner's signature beside the filler's.
CompletedIsCountersigned ==
    \A a \in Assignments :
        Countersign /\ row[a] # NoRow /\ row[a].status = "completed" =>
            \E i \in DOMAIN signatures[a] : signatures[a][i].role = "assigner"

\* While the organization is suspended the emailed link serves nobody
\* ("fail-closed, inclusive o link externo").
SuspensionStopsTheLink ==
    [][suspended =>
          \A w \in Workers :
              req[w] = Idle /\ req'[w] # Idle => req'[w].by \notin Externals]_vars

----------------------------------------------------------------------------
(* The countersignature.                                                   *)

\* The server finishes what it starts, and the assigner keeps trying to
\* countersign.
FairSpec ==
    /\ Spec
    /\ \A w \in Workers : WF_vars(Continues(w))
    /\ \A w \in Workers, a \in Assignments, who \in Members :
          SF_vars(row[a] # NoRow /\ row[a].assignedBy = who /\ BeginSign(w, a, who))

\* A form waiting for the countersignature is completed when the assigner
\* signs, or is cancelled.
SignedIsConcluded ==
    \A a \in Assignments :
        (row[a] # NoRow /\ row[a].status = "signed")
            ~> (row[a] # NoRow /\ row[a].status \in FinalStatuses)
=============================================================================
