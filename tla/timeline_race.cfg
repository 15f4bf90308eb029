SPECIFICATION Spec
CONSTANTS
    Workers = {p1, p2, p3}
    Reviewers = {h1, h2}
    Qualities = {"SOUND", "AMBIGUOUS", "FIXABLE", "UNFIXABLE", "UNREVIEWABLE"}
    MaxAttempts = 1
    MaxCalls = 5
    MaxRestarts = 2
SYMMETRY ThreadSymmetry
INVARIANTS
    StageExclusive
    VerdictOnProposal
PROPERTIES
    ApprovedKept
CHECK_DEADLOCK FALSE
