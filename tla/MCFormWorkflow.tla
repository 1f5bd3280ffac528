--------------------------- MODULE MCFormWorkflow ---------------------------
EXTENDS FormWorkflow, TLC

CONSTANTS w1, w2, a1, a2, m1, m2, ext, f1, f2, yes, no

Threads == Permutations({w1, w2})
=============================================================================
