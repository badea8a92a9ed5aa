SPECIFICATION FairSpec
CONSTANTS
    Prompt <- AllPrompts
    VmScripts <- AllScripts
    InOrder <- AnyOrder
    MayFail = TRUE
    MaxExtra = 1
    None = None
INVARIANTS
    SecretsStayHidden
    AnswersAreTyped
    ErrorIsSeen
PROPERTIES
    PromptAnswered
    OverlayHides
CHECK_DEADLOCK FALSE
