SPECIFICATION Spec
CONSTANTS
    Mailboxes = {m1}
    NoMailbox = none
    MaxUid = 3
    MaxValidity = 2
    MaxVersion = 1
    MaxPosts = 0
    BatchSize = 2
INVARIANTS
    NothingSkipped
CHECK_DEADLOCK FALSE
