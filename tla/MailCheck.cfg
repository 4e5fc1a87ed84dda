SPECIFICATION Spec
CONSTANTS
    Servers = {"ours", "theirs"}
    Trusted = {"ours"}
    MaxParts = 2
    MaxAttachments = 1
    Contents <- SomeContents
    HeaderLists <- SomeHeaderLists
    SignatureLists <- SomeSignatureLists
    MaxSignatures = 3
    MaxQueries = 2
    QueryFloor = 2
    QueryTime = 2
    TotalTime = 3
    Operations = 2
    Threads = {t1, t2}
    RateMax = 2
    Window = 3
    MaxTime = 0
INVARIANTS
    TypeOK
    BudgetKept
    SignaturesAreJudgedAlone
    OutageIsNotGuilt
PROPERTIES
    LowIsEarned
    RateBounded
    ImplementsVerdict
    CheckEnds
CHECK_DEADLOCK FALSE
