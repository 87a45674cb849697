SPECIFICATION Spec
CONSTANTS
    Threads = {t1, t2}
    Tenants = {a, b}
    Names = {ann}
    Faults = {"lost", "update"}
    ClaimTtl = 1
    SessionTtl = 1
    MaxSecrets = 3
    MaxTime = 4
SYMMETRY Symmetry
INVARIANTS
    TypeOK
    ClaimWorksOnce
    GrantsInScope
    CutOffForGood
CHECK_DEADLOCK FALSE
