SPECIFICATION FairSpec
CONSTANTS
    a = a
    b = b
    p = p
    Names <- SomeNames
    Allow <- AllowOne
    Addr <- AllAddr
    Public <- PublicAddr
    Answers <- SomeAnswers
    v = v
    w = w
    Pieces <- TwoEach
    Split <- PlainOnly
    None = None
INVARIANTS
    ConnectsToChecked
    Conserved
PROPERTIES
    AskAnswered
    AnswerArrives
    ProxyLetsGo
CHECK_DEADLOCK FALSE
