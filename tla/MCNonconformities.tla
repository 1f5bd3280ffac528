-------------------------- MODULE MCNonconformities --------------------------
EXTENDS Nonconformities, TLC

CONSTANTS w1, w2, f1, a1

\* Tables are numbered without regard to each other: one is followed at a
\* time.  Nothing that is stated of overlapping requests reads the corrective
\* actions, or the last of several verifications, or relates the statuses of
\* two NCs: once requests have overlapped these are followed no further.
Explored ==
    /\ ncs = <<>> \/ \A t \in OtherTables : others[t] = <<>>
    /\ overlapped =>
        /\ \A a \in Actions : actions[a] = NoRow
        /\ \A n \in DOMAIN ncs : Len(verifications[n]) < 2
        /\ Len(ncs) > 1 => \A n \in DOMAIN ncs : ncs[n].status = "open"

Threads == Permutations({w1, w2})
=============================================================================
