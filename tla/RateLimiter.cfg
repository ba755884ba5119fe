CONSTANTS
    Unit = 2
    Sources = {s1, s2, s3}
    SourceRate = 1
    SourceBurst = 1
    GlobalRate = 2
    GlobalBurst = 4
    Capacity = 2
    Threshold = 2
    CandidateTtl = 2
    MaxTime = 3
    MaxChecks = 7
SYMMETRY SourceSymmetry
SPECIFICATION Spec
INVARIANTS
    RateBound
    TiersDisjointAndBounded
    PromotionsArePaid
    KeysFollowThePrefix
PROPERTIES
    CandidatesAreNotStarved
