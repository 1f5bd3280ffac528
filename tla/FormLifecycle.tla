--------------------------- MODULE FormLifecycle ---------------------------
(***************************************************************************)
(* What the form workflow promises, without requests, tokens or database   *)
(* rows: an assigned form is opened, filled, submitted complete, sealed by *)
(* the filler's signature and concluded, or cancelled on the way.  Once    *)
(* sealed its content never changes, and a concluded or cancelled form     *)
(* never moves again.                                                      *)
(*                                                                         *)
(* FormWorkflow is the program; run by one request thread at a time it     *)
(* implements this specification (FormWorkflow!FollowsLifecycle).          *)
(***************************************************************************)
CONSTANTS
    Assignments,    \* the forms an organization hands out
    Fields,         \* the field keys of a form
    Mandatory,      \* those that must be filled before it is submitted
    Values,         \* what a field may hold when it is filled
    Blank           \* null, the empty string or False: present but not filled

\* The answers column is a dictionary: some fields, each filled or blank.
Answers == UNION {[D -> Values \cup {Blank}] : D \in SUBSET Fields}

Unanswered == [f \in {} |-> Blank]

Complete(answers) ==
    \A f \in Mandatory : f \in DOMAIN answers /\ answers[f] # Blank

NoForm == "none"
Final  == {"completed", "cancelled"}
Sealed == {"signed", "completed"}
Stages == {NoForm, "pending", "in_progress", "submitted", "signed"} \cup Final

VARIABLES
    stage,          \* where each form stands
    content,        \* its answers
    seal            \* {} until the filler signs, then the one content signed

lifecycle == <<stage, content, seal>>

\* The type invariant of the abstract form.
TypeOK ==
    /\ stage \in [Assignments -> Stages]
    /\ content \in [Assignments -> Answers]
    /\ seal \in [Assignments -> SUBSET Answers]

Init ==
    /\ stage = [a \in Assignments |-> NoForm]
    /\ content = [a \in Assignments |-> Unanswered]
    /\ seal = [a \in Assignments |-> {}]

MoveTo(a, from, to) ==
    /\ stage[a] \in from
    /\ stage' = [stage EXCEPT ![a] = to]

Assign(a) == MoveTo(a, {NoForm}, "pending") /\ UNCHANGED <<content, seal>>

\* Opened for filling: claimed by the filler, or handed back by the assigner.
Open(a) ==
    MoveTo(a, {"pending", "submitted"}, "in_progress") /\ UNCHANGED <<content, seal>>

Fill(a) ==
    /\ stage[a] = "in_progress"
    /\ \E c \in Answers : content' = [content EXCEPT ![a] = c]
    /\ UNCHANGED <<stage, seal>>

Submit(a) ==
    /\ Complete(content[a])
    /\ MoveTo(a, {"in_progress"}, "submitted")
    /\ UNCHANGED <<content, seal>>

\* The filler's signature freezes the content; it concludes the form at once
\* or leaves it waiting for the countersignature.
Seal(a) ==
    /\ \E to \in Sealed : MoveTo(a, {"submitted"}, to)
    /\ seal' = [seal EXCEPT ![a] = {content[a]}]
    /\ UNCHANGED content

Conclude(a) == MoveTo(a, {"signed"}, "completed") /\ UNCHANGED <<content, seal>>

Cancel(a) ==
    /\ MoveTo(a, Stages \ (Final \cup {NoForm}), "cancelled")
    /\ UNCHANGED <<content, seal>>

Next ==
    \E a \in Assignments :
        \/ Assign(a) \/ Open(a) \/ Fill(a) \/ Submit(a)
        \/ Seal(a) \/ Conclude(a) \/ Cancel(a)

Spec == Init /\ [][Next]_lifecycle

----------------------------------------------------------------------------

\* A submitted form has every mandatory field filled, and so has everything
\* that was signed on the strength of it.
SubmittedIsComplete ==
    \A a \in Assignments :
        /\ stage[a] \in {"submitted"} \cup Sealed => Complete(content[a])
        /\ \A c \in seal[a] : Complete(c)

\* A form that is signed or completed carries exactly the content signed.
SealIsTheContent ==
    \A a \in Assignments : stage[a] \in Sealed => seal[a] = {content[a]}

\* A completed or cancelled form is never reopened, edited or sealed again.
FinalIsFinal ==
    [][\A a \in Assignments :
          stage[a] \in Final =>
              UNCHANGED <<stage[a], content[a], seal[a]>>]_lifecycle
=============================================================================
