SPECIFICATION FairSpec
CONSTANTS
    Workers = {p1}
    Windows <- TailWindows
    Planned = {"w1"}
    Kids <- TailKids
    Scope <- TailScope
    SingleChunk = {"w1a", "w1a0", "w1a1"}
    Rank <- TailRank
    Failures = {"PROVIDER_LENGTH_BEFORE_FINAL_CONTENT", "SCHEMA_VALIDATION_FAILED", "EVIDENCE_VALIDATION_FAILED", "PROVIDER_TIMEOUT", "UNCLASSIFIED"}
    Overtime = {FALSE}
    MaxCallAttempts = 2
    MaxLengthRecovery = 1
    MaxSchemaRepair = 1
    MaxProviderRequests = 21
    MaxRestarts = 0
    MadeCap = 30
INVARIANTS
    TypeOK
    AggregateOwnedOnce
    RetriesExact
PROPERTIES
    RunSettles
CHECK_DEADLOCK FALSE
