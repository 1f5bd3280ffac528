------------------------ MODULE MCControlledDocuments ------------------------
EXTENDS ControlledDocuments, TLC

CONSTANTS w1, w2, r1, t1, t2

\* Where rows can be patched in many ways requests are followed until they
\* first overlap: what is stated of these two kinds is stated serially.
Explored == kind \in {"context_analysis", "stakeholder_map"} => Serial

Symmetry == Permutations({w1, w2}) \cup Permutations({t1, t2})
=============================================================================
