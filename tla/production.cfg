CONSTANTS
    Workers = {w1, w2}
    Plans <- MCPlans
    Anchors = 1
    Attempts = 2
    VisualQA = TRUE
    MaxRepairs = 1
    MaxRuns = 2
    Clients = {c1, c2}
SYMMETRY MCSymmetry
SPECIFICATION Spec
INVARIANTS
    PagesSound
    HandoffSound
PROPERTIES
    ExecutionsFinal
CHECK_DEADLOCK FALSE
