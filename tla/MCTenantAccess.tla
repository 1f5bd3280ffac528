--------------------------- MODULE MCTenantAccess ---------------------------
EXTENDS TenantAccess, TLC

CONSTANTS w1, w2, r1, r2, o1, o2, u1, u2, u3

Names == Permutations({u1, u2}) \cup Permutations({r1, r2})
          \cup Permutations({o1, o2})
=============================================================================
