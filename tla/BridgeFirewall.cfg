SPECIFICATION Spec
CONSTANTS
    r1 = r1
    r2 = r2
    d1 = d1
    d2 = d2
    Runs <- TwoRuns
    Dest <- TwoDest
    Listed <- OneEach
    MaxStarts = 2
    None = None
INVARIANTS
    OnlyListed
    ListedReachable
    LeavesNothing
CHECK_DEADLOCK FALSE
