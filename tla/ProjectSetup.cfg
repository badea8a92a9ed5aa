SPECIFICATION Spec
CONSTANTS
    r1 = r1
    r2 = r2
    Run <- Two
    System <- Systems
    Paranoid <- ParanoidCargo
    Choice <- Choices
    Legacy <- Legacies
    Answer <- Answers
    InGuest <- Less
    Overlap = FALSE
    MayFail = TRUE
    MayTear = FALSE
    None = None
    Torn = Torn
    Unreadable = Unreadable
    MaxLoads = 3
    MaxEdits = 2
INVARIANTS
    ChoiceRules
    LinksMatchRule
CHECK_DEADLOCK FALSE
