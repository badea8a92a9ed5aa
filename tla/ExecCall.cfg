SPECIFICATION FairSpec
CONSTANTS
    Modes <- AllModes
    Codes <- SomeCodes
    LauncherWarns = TRUE
    MaxChunks = 2
    Signalled = Signalled
    NoStatus = NoStatus
    NoResult = NoResult
INVARIANTS
    OutputConserved
    RefusedLaunchIsSilent
    ExitComesLast
    TruthfulExit
PROPERTIES
    MeetsContract
    CallAnswered
    HandlerEnds
CHECK_DEADLOCK FALSE
