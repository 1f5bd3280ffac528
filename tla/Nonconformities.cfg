CONSTANTS
    NoRow = NoRow  Idle = Idle
    w1 = w1  w2 = w2  f1 = f1  a1 = a1
    Workers = {w1, w2}
    Findings = {f1}
    Actions = {a1}
    FindingTypes = {"nc_maior", "observacao"}
    OtherTables = {"improvement"}
    MaxRecords = 2
    MaxVerifications = 2
SPECIFICATION Spec
INVARIANTS PromotionIsSound ClosedIsVerified
PROPERTIES CodesInOrder ClosesWhenReady
CONSTRAINT Explored
SYMMETRY Threads
