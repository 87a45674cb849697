SPECIFICATION Spec
CONSTANTS
    r1 = r1
    r2 = r2
    r3 = r3
    a = a
    b = b
    Threads = {t1, t2}
    Tenants = {a, b}
    Requests = {r1, r2, r3}
    TenantOf <- MCTenantOf
    Services <- MCOneService
    Faults = {"sign", "commit", "upload", "crash", "fields"}
    MaxAttempts = 2
    MaxIssues = 2
    MaxSigned = 4
    MaxDay = 2
SYMMETRY Symmetry
INVARIANTS
    TypeOK
    ChainLinked
    OnlyChainedLeaves
    RecordedCertificateIsOwn
PROPERTIES
    ImplementsLog
    ServedCertificateStable
CHECK_DEADLOCK FALSE
