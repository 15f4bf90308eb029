SPECIFICATION FairSpec
CONSTANTS
    Workers = {p1}
    Diagnostics <- Unfit
    WindowOf <- OneUnfit
    NoWindow = "none"
    Verdicts = {"APPROVED", "REJECTED", "NEEDS_HUMAN_REVIEW", "FAILED"}
    Answers = {"OK", "EMPTY", "SCHEMA", "FAILED"}
    Merits = {"APPROVED", "REJECTED", "NEEDS_HUMAN_REVIEW", "FAILED"}
    Heavy = {FALSE, TRUE}
    MaxPerRoot = 2
    MaxRequests = 3
    MaxInterrupts = 2
INVARIANTS
    BudgetsKept
PROPERTIES
    WorkEnds
CHECK_DEADLOCK FALSE
