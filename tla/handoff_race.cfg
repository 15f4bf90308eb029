SPECIFICATION Spec
CONSTANTS
    Workers = {p1, p2}
    Diagnostics <- Three
    WindowOf <- TwoWindows
    NoWindow = "none"
    Verdicts = {"REJECTED"}
    Answers = {"OK", "SCHEMA"}
    Merits = {"APPROVED", "REJECTED"}
    Heavy = {FALSE}
    MaxPerRoot = 2
    MaxRequests = 3
    MaxInterrupts = 0
SYMMETRY WorkerSymmetry
INVARIANTS
    RecoverySound
PROPERTIES
    OutcomesStand
CHECK_DEADLOCK FALSE
