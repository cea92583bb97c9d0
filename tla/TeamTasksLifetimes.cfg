SPECIFICATION FairSpec
CONSTANTS
    m1 = m1
    m2 = m2
    Members = {m1}
    NoOne = NoOne
    MaxId = 1
    Claims <- FewClaims
    Revisions <- FewRevisions
    MaxGen = 2
    MaxLife = 2
    AdminStatuses = {"completed"}
INVARIANTS
    TypeOK
PROPERTIES
    LifetimesApart
    ClaimsEnd
CHECK_DEADLOCK FALSE
