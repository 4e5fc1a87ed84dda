SPECIFICATION Spec
CONSTANTS
    Mailboxes = {m1}
    NoMailbox = none
    MaxUid = 2
    MaxValidity = 1
    MaxVersion = 1
    MaxPosts = 0
    BatchSize = 2
PROPERTIES
    ExpiredNotImportedAgain
CHECK_DEADLOCK FALSE
