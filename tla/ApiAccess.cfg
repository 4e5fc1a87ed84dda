SPECIFICATION Spec
CONSTANTS
    Tokens = {t1}
    Calls = {c1, c2, c3}
    Window = 1
    Limit = 2
    AuditAge = 2
    TokenAge = 1
    MaxWait = 1
    MaxTime = 3
INVARIANTS
    TypeOK
    RateBound
    NoGrantWhenInactive
    AnswersAreAudited
PROPERTY ImplementsDoor
SYMMETRY CallSymmetry
CHECK_DEADLOCK FALSE
