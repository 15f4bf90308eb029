SPECIFICATION FairSpec
CONSTANTS
    Workers = {p1, p2}
    Bundles = {b1}
    Resources = {"r1", "r2"}
    Names = {"A", "B"}
    Drafts <- TwoDrafts
    Merit <- TwoMerits
    ApiPlans = {a1}
    MaxInterrupts = 1
INVARIANTS
    ProductionTraced
    CanonSound
PROPERTIES
    CanonFinal
    ApprovedGetsFrozen
