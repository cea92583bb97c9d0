SPECIFICATION Spec
CONSTANTS
    m1 = m1
    m2 = m2
    Members = {m1, m2}
    NoOne = NoOne
    MaxId = 1
    Claims <- FewClaims
    Revisions <- FewRevisions
    MaxGen = 1
    MaxLife = 1
    AdminStatuses = {"pending"}
SYMMETRY MemberSymmetry
INVARIANTS
    OwnersAreActive
    ClaimedIffInProgress
PROPERTIES
    OutcomesStand
CHECK_DEADLOCK FALSE
