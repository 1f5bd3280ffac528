CONSTANTS
    Idle = Idle  NoRow = NoRow  NoLevel = NoLevel
    w1 = w1  w2 = w2  i1 = i1  i2 = i2  g1 = g1  ta = ta  tb = tb  n1 = n1
    low = low  high = high  s1 = s1  s2 = s2  ra = ra  rb = rb
    Workers = {w1, w2}
    Items = {i1, i2}
    Gaps = {g1}
    Relations = {ra, rb}
    Types = {ta, tb}
    ItemNames = {n1}
    Classes = {low, high}
    Forms <- SomeForms
    MaxLinks = 3
    Seeds <- TwoSeeds
    MaxCustom = 3
CONSTRAINT Explored
SYMMETRY Threads
SPECIFICATION Spec
INVARIANTS RegisterIsSound HistoryTellsAll CatalogIsWhole
PROPERTIES AdoptionPreserves
