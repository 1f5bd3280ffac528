---------------------------- MODULE CodeRegister ----------------------------
(***************************************************************************)
(* What the codes of an organization promise (NC-0001, IMP-0001, AUD-0001, *)
(* ...): in each table they are handed out one by one, in order, without   *)
(* a gap and without a repetition, and a code once given stays.            *)
(***************************************************************************)
EXTENDS Naturals, Sequences

CONSTANT Tables     \* the tables that number their records

VARIABLE codes      \* the codes given in each table, in commit order

Init == codes = [t \in Tables |-> <<>>]

Give(t) == codes' = [codes EXCEPT ![t] = Append(@, Len(@) + 1)]

Next == \E t \in Tables : Give(t)

Spec == Init /\ [][Next]_codes
=============================================================================
