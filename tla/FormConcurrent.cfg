CONSTANTS
    NoRow = NoRow  NoOtp = NoOtp  Idle = Idle
    w1 = w1  w2 = w2  a1 = a1  a2 = a2
    m1 = m1  m2 = m2  ext = ext
    f1 = f1  f2 = f2  yes = yes  no = no
    Workers = {w1, w2}
    Assignments = {a1}
    Members = {m1, m2}
    Managers = {m2}
    SuperAdmins = {}
    Externals = {ext}
    Fields = {f1}
    Mandatory = {f1}
    Values = {yes}
    Blank = no
    MaxAttempts = 1
    Countersign = TRUE
    MaxSaves = 1
    MaxTrail = 2
SPECIFICATION Spec
INVARIANTS SealedBeforeConcluded SignaturesAreSealed SignedByTheDesignated TrailTellsStatus
SYMMETRY Threads
