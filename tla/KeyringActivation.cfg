SPECIFICATION Spec
CONSTANTS
    Keys = {k1, k2, k3}
    Untagged = untagged
    Mailboxes = {m1, m2}
    Webs = {w1}
    Jobs = {j1}
    Tools = {t1, t2}
    MaximumKeys = 2
    Nobody = nobody
PROPERTIES
    ActivationKeepsKeys
