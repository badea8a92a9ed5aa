SPECIFICATION FairSpec
CONSTANTS
    a = a
    b = b
    h = h
    v = v
    w = w
    File <- AllFiles
    Hidden <- HiddenFiles
    Content <- OneContent
    Absent = Absent
    NoManifest = NoManifest
    Longest = 2
    MayCrash = TRUE
    MayFail = TRUE
    CommandsOutlive = TRUE
    SyncAtExit = TRUE
    MaxSessions = 1
    MaxEdits = 2
    MaxSyncs = 2
INVARIANTS
    ManualSyncIsFaithful
PROPERTIES
    ExitCompletes
CHECK_DEADLOCK FALSE
