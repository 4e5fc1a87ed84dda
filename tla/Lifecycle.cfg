SPECIFICATION Spec
CONSTANTS
    Mailboxes = {b1}
    Numbers = {1, 2}
    Keep <- KeepNone
    BatchSize = 1
    Exports = {e1}
    Nobody = nobody
    Other = other
    MaxTime = 2
    MaxPosts = 1
INVARIANTS
    TypeOK
    ExportIsClosed
PROPERTIES
    OnlyExpiredPurged
    PurgeIsCounted
    DeletionIsCounted
    ImplementsGate
    PurgeEnds
CHECK_DEADLOCK FALSE
