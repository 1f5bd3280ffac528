CONSTANTS
    NoRow = NoRow  Idle = Idle
    w1 = w1  w2 = w2  r1 = r1  r2 = r2  o1 = o1  o2 = o2  u1 = u1  u2 = u2  u3 = u3
    Workers = {w1}
    Roots = {r1, r2}
    Orgs = {o1, o2}
    Users = {u1, u2}
    MaxInvites = 2
SPECIFICATION Spec
INVARIANTS MembershipsAreSound
PROPERTIES KeepsAnAdmin AdmittedByPendingInvite
SYMMETRY Names
