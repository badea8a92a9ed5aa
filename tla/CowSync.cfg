SPECIFICATION Spec
CONSTANTS
    a = a
    b = b
    h = h
    v = v
    w = w
    File <- AllFiles
    Hidden <- HiddenFiles
    Content <- Contents
    Absent = Absent
    NoManifest = NoManifest
    Longest = 3
    MayCrash = FALSE
    MayFail = FALSE
    CommandsOutlive = FALSE
    SyncAtExit = FALSE
    MaxSessions = 2
    MaxEdits = 3
    MaxSyncs = 2
INVARIANTS
    WritesReachRepo
PROPERTIES
    RemovesOnlyDeleted
CHECK_DEADLOCK FALSE
