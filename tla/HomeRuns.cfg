SPECIFICATION Spec
CONSTANTS
    s = s
    p = p
    j = j
    File <- SecretPlainJunk
    Secret <- SecretOnly
    Junk <- JunkOnly
    Sessions <- Sometimes
    Keys <- Sometimes
    Absent = Absent
    Garbled = Garbled
    NoFile = NoFile
    MayFail = TRUE
    CopyMayFail = TRUE
    CopyMayTear = TRUE
    MountsSurvive = TRUE
    CleanupMayFail = TRUE
    MaxRuns = 3
    MaxEdits = 2
INVARIANTS
    
    
    SealedAtRest
    NeverRollsBack
CHECK_DEADLOCK FALSE
