SPECIFICATION FairSpec
CONSTANTS
    Tasks <- Pipelines
    Threshold = 2
    Fallback = "STRUCTURED"
    MaxRestarts = 1
CHECK_DEADLOCK FALSE
INVARIANTS
    AllowanceExact
    GateReported
PROPERTIES
    TasksEndWell
