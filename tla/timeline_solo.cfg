SPECIFICATION FairSpec
CONSTANTS
    Workers = {p1}
    Reviewers = {h1, h2}
    Qualities = {"SOUND", "AMBIGUOUS", "FIXABLE", "UNFIXABLE", "UNREVIEWABLE"}
    MaxAttempts = 1
    MaxCalls = 4
    MaxRestarts = 1
INVARIANTS
    RecoveryAccounted
PROPERTIES
    VerdictComes
CHECK_DEADLOCK FALSE
