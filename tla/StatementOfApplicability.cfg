CONSTANTS
    NoRow = NoRow  NoValue = NoValue  Idle = Idle
    w1 = w1  w2 = w2  r1 = r1  r2 = r2  c1 = c1  m1 = m1  m2 = m2  low = low  high = high
    Workers = {w1, w2}
    Risks = {r1, r2}
    Controls = {c1}
    Scale = {1}
    Methodologies = {m1, m2}
    Default = m1
    RiskLevels = {low, high}
    Matrix <- TwoMatrices
    CiaImpact <- TwoMaps
    MaxPlans = 1
    MaxVersions = 1
CONSTRAINT Explored
SYMMETRY Threads
SPECIFICATION SoaSpec
INVARIANTS ApprovedIsComplete
PROPERTIES LevelsAreCurrent DecisionsSurvive ReconciledWithRisks
