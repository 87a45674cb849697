SPECIFICATION Spec
CONSTANTS
    r1 = r1
    r2 = r2
    r3 = r3
    a = a
    b = b
    Threads = {t1, t2}
    Tenants = {a, b}
    Requests = {r1, r2, r3}
    TenantOf <- MCTenantOf
    Services <- MCOneService
    Faults = {"upload"}
    MaxAttempts = 2
    MaxIssues = 3
    MaxSigned = 6
    MaxDay = 2
SYMMETRY Symmetry
INVARIANTS
    LookupReturnsThatCertificate
CHECK_DEADLOCK FALSE
