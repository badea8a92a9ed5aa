SPECIFICATION Spec
CONSTANTS
    a = a
    b = b
    h = h
    v = v
    w = w
    File <- Plain
    Hidden <- None
    Content <- OneContent
    Absent = Absent
    NoManifest = NoManifest
    Longest = 3
    MayCrash = TRUE
    MayFail = FALSE
    CommandsOutlive = FALSE
    SyncAtExit = FALSE
    MaxSessions = 2
    MaxEdits = 3
    MaxSyncs = 2
PROPERTIES
    RemovesOnlyDeleted
CHECK_DEADLOCK FALSE
