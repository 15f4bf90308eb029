SPECIFICATION Spec
CONSTANTS
    Workers = {p1}
    Windows <- TripleWindows
    Planned = {"w1"}
    Kids <- TripleKids
    Scope <- TripleScope
    SingleChunk = {"w1a", "w1b", "w1c"}
    Rank <- TripleRank
    Failures = {"SCHEMA_VALIDATION_FAILED", "PROVIDER_TIMEOUT"}
    Overtime = {FALSE, TRUE}
    MaxCallAttempts = 2
    MaxLengthRecovery = 1
    MaxSchemaRepair = 1
    MaxProviderRequests = 6
    MaxRestarts = 1
    MadeCap = 30
INVARIANTS
    RunHonest
PROPERTIES
    DenialMeansSpent
CHECK_DEADLOCK FALSE
