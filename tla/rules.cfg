SPECIFICATION Spec
CHECK_DEADLOCK FALSE
CONSTANTS
    Characters = {"a", "."}
    TextLength = 3
    SliceLength = 6
    DocumentLength = 8
    Names = {1, 2}
    MinSentence = 1
    MaxChunk = 3
    WarningRun = 2
    ReviewRun = 3
    LegacyRun = 2
    Letters = {"a", ".", " ", "NL", "LS", "H", "NUL"}
    ImportLength = 5
    TimelineEvents = 4
    StoryEvents = 12
INVARIANTS
    EvidenceSound
    WindowsSuffice
    ReviewSound
    ContractsAgree
    CallsHandled
    DocumentsSound
    PlansSound
    TimelineSound
