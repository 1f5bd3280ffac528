CONSTANTS
    NoRow = NoRow  Idle = Idle
    w1 = w1  w2 = w2  viewer = viewer  manager = manager  t1 = t1
    Workers = {w1, w2}
    Viewers = {viewer}
    Managers = {manager}
    Targets = {t1}
    Classes = {"uso_interno", "restrito"}
    MaxFiles = 4
SPECIFICATION Spec
INVARIANTS VersionsAreFiled CurrentIsNewest ServedAreCleared
SYMMETRY Symmetry
CHECK_DEADLOCK FALSE
