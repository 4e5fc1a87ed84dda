SPECIFICATION FairSpec
CONSTANTS
    Requests = {r1, r2, r3}
    Names = {n1, n2}
    Nobody = nobody
INVARIANTS
    TypeOK
    SingleAuditedOwner
PROPERTIES
    EveryRequestEnds
CHECK_DEADLOCK FALSE
