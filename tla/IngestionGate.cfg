SPECIFICATION Spec
CONSTANTS
    Mailboxes = {m1}
    NoMailbox = none
    MaxUid = 2
    MaxValidity = 1
    MaxVersion = 3
    MaxPosts = 1
    BatchSize = 1
INVARIANTS
    TypeOK
    StatusIsCurrent
PROPERTIES
    NoStaleWorkerWrite
    CursorStable
    ImplementsGate
CHECK_DEADLOCK FALSE
