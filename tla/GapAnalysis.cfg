CONSTANTS
    NoRow = NoRow  Idle = Idle
    w1 = w1  w2 = w2  v1 = v1  v2 = v2  c1 = c1  c2 = c2  a1 = a1
    Empty = Empty  SeedText = SeedText  t1 = t1
    Workers = {w1, w2}
    Texts = {t1}
    MaxTold = 3
    Fields <- Guided
    Releases = {v1, v2}
    SeedRefs <- TwoReleases
    Custom = {c2}
    Assignments = {a1}
    Statuses = {"not_filled", "not_applicable"}
    MaxBaselines = 2
    MaxCrashes = 1
CONSTRAINT Explored
SPECIFICATION FairSpec
INVARIANTS BaselinesAreSigned CatalogFollowsSeed GuidanceIsTold
PROPERTIES SealsTheAssessment SubmittedGetsSigned
