SPECIFICATION BackupSpec
CONSTANTS
    Keys = {k1, k2, k3}
    Untagged = untagged
    Mailboxes = {m1}
    Webs = {w1}
    Jobs = {j1}
    Tools = {t1, t2}
    MaximumKeys = 2
    Nobody = nobody
    Backups = {b1}
INVARIANTS
    TypeOK
    BackupTypes
    CredentialsReadable
    ArchiveRestorable
    RestoreIsFaithful
PROPERTIES
    ImplementsVault
SYMMETRY BackupSymmetry
