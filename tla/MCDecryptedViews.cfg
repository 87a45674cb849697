SPECIFICATION DVSpec
CONSTANTS
    Threads = {t1, t2}
    Users = {u1}
    Ops = {"generate", "rotate", "shred", "encrypt", "context", "decrypt"}
    MaxCalls = 6
    Views = {v1}
    Fields = {f1, f2}
    Managers = {m1, m2}
SYMMETRY Symmetry
INVARIANTS
    TypeOK
    MaterialAgrees
    CiphertextsReadable
    DestroyedStaysClosed
    NoUnrecordedView
    RecordMatchesView
CHECK_DEADLOCK FALSE
