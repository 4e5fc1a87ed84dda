SPECIFICATION Spec
CONSTANTS
    Runs = {r1, r2, r3}
    Initial = initial
    Nobody = nobody
INVARIANTS
    TypeOK
    NoSilentMismatch
PROPERTIES
    ClaimsAreTrue
SYMMETRY RunSymmetry
CHECK_DEADLOCK FALSE
