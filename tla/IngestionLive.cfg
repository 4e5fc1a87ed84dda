SPECIFICATION FairSpec
CONSTANTS
    Mailboxes = {m1}
    NoMailbox = none
    MaxUid = 2
    MaxValidity = 1
    MaxVersion = 2
    MaxPosts = 0
    BatchSize = 1
PROPERTIES
    EventuallyIngested
CHECK_DEADLOCK FALSE
