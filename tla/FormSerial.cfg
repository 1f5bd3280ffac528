CONSTANTS
    NoRow = NoRow  NoOtp = NoOtp  Idle = Idle
    w1 = w1  w2 = w2  a1 = a1  a2 = a2
    m1 = m1  m2 = m2  ext = ext
    f1 = f1  f2 = f2  yes = yes  no = no
    Workers = {w1}
    Assignments = {a1}
    Members = {m1, m2}
    Managers = {m2}
    SuperAdmins = {}
    Externals = {ext}
    Fields = {f1, f2}
    Mandatory = {f1}
    Values = {yes}
    Blank = no
    MaxAttempts = 2
    Countersign = FALSE
    MaxSaves = 2
    MaxTrail = 4
SPECIFICATION Spec
INVARIANTS FormsAreSound
PROPERTIES FollowsLifecycle SavesKeepOtherFields
