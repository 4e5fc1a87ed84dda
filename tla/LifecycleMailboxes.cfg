SPECIFICATION Spec
CONSTANTS
    Mailboxes = {b1, b2}
    Numbers = {1, 2}
    Keep <- KeepNone
    BatchSize = 4
    Exports = {}
    Nobody = nobody
    Other = other
    MaxTime = 2
    MaxPosts = 0
PROPERTY PurgeEnds
CHECK_DEADLOCK FALSE
