CONSTANTS
    Idle = Idle  NoRow = NoRow  System = System
    w1 = w1  w2 = w2  c1 = c1  c2 = c2  t1 = t1  k1 = k1
    Workers = {w1, w2}
    Contents = {c1, c2}
    Names = {t1}
    Keys = {k1}
    MaxVersions = 2
    MaxPreviews = 2
    MaxPlacements = 1
    MaxFiles = 3
CONSTRAINT Explored
SPECIFICATION Spec
INVARIANTS NumberedInOrder SealsThePreview NothingIsLost TemplatesAreSound
SYMMETRY Symmetry
