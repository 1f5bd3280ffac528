----------------------------- MODULE MCEvidence -----------------------------
EXTENDS Evidence, TLC

CONSTANTS w1, w2, viewer, manager, t1

Symmetry == Permutations({w1, w2})
=============================================================================
