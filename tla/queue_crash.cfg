SPECIFICATION FairSpec
CONSTANTS
    j1 = j1
    j2 = j2
    Jobs = {j1, j2}
    Workers = {w1, w2}
    Priority <- EvenPriority
    Rank <- IdOrder
    Times = {0, 1}
    MaxAttempts = 2
    MaxCrashes = 1
    MaxStarts = 2
INVARIANTS
    RecordsSound
PROPERTIES
    ResultKept
    ActsAtomically
    PendingIsTaken
CHECK_DEADLOCK FALSE
