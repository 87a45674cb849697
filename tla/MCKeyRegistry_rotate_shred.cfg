SPECIFICATION Spec
CONSTANTS
    Threads = {t1, t2, t3}
    Users = {u1}
    Ops = {"generate", "rotate", "shred", "encrypt", "context", "decrypt"}
    MaxCalls = 5
SYMMETRY Symmetry
INVARIANTS
    NoDecryptAfterShred
CHECK_DEADLOCK FALSE
