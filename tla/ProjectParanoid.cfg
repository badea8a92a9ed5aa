SPECIFICATION Spec
CONSTANTS
    r1 = r1
    r2 = r2
    Run <- One
    System <- Systems
    Paranoid <- ParanoidCargo
    Choice <- Choices
    Legacy <- Legacies
    Answer <- Answers
    InGuest <- Less
    Overlap = FALSE
    MayFail = FALSE
    MayTear = FALSE
    None = None
    Torn = Torn
    Unreadable = Unreadable
    MaxLoads = 3
    MaxEdits = 2
INVARIANTS
    RefusesOnlyTheUsers
CHECK_DEADLOCK FALSE
