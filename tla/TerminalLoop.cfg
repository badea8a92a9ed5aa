SPECIFICATION FairSpec
CONSTANTS
    Script <- Scripts
    Event <- Events
    PipeCap = 8
    UnreadCap = 1
    Burst = 1
    EarlyResize = FALSE
    MayFail = TRUE
    MaxEvents = 1
    MaxResizes = 2
INVARIANTS
    StreamUnderstood
    QueriesAnswered
    CaptureFollows
    ReportsDecode
PROPERTIES
    SizeSettles
    LoopServes
CHECK_DEADLOCK FALSE
