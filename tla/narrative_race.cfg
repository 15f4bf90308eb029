SPECIFICATION Spec
CONSTANTS
    Workers = {p1, p2}
    Windows <- PairWindows
    Planned = {"w1"}
    Kids <- PairKids
    Scope <- PairScope
    SingleChunk = {"w1a", "w1b"}
    Rank <- PairRank
    Failures = {"SCHEMA_VALIDATION_FAILED"}
    Overtime = {FALSE}
    MaxCallAttempts = 1
    MaxLengthRecovery = 1
    MaxSchemaRepair = 1
    MaxProviderRequests = 6
    MaxRestarts = 1
    MadeCap = 0
SYMMETRY WorkerSymmetry
INVARIANTS
    Exclusive
    ScopeKept
PROPERTIES
    NeverRerun
CHECK_DEADLOCK FALSE
