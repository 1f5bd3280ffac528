CONSTANTS
    NoRow = NoRow  Idle = Idle
    w1 = w1  w2 = w2  r1 = r1  t1 = t1  t2 = t2
    Workers = {w1, w2}
    Kinds = {"context_analysis", "stakeholder_map", "scope_statement", "internal_audit_report", "management_review"}
    RowIds = {r1}
    Texts = {t1}
    Levels = {"alto", "medio"}
    Natures = {"contextual", "threat", "strength"}
    MaxVersions = 2
SPECIFICATION Spec
INVARIANTS DocumentsAreSound VersionsPassTheirGate ColumnsAgree
PROPERTIES SealsTheArtifact
CONSTRAINT Explored
SYMMETRY Symmetry
