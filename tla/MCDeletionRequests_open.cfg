SPECIFICATION Spec
CONSTANTS
    Threads = {t1, t2}
    Instances = {i1}
    Requests = {r1, r2}
    Users = {u1}
    Owner <- MCOneOwner
    Destinations = {hubspot}
    Connectors = {hubspot}
    RedactSites = {red1}
    CopySites = {}
    HasKey = {u1}
    Known <- MCKnowsConnectors
    Declared = {}
    Ops = {"advance", "shred", "create", "generate", "lineage", "declare", "remove", "restart"}
    Faults = {"plan", "replan", "shred", "wipe", "record", "cert", "storage", "load", "crash"}
    Disciplined = FALSE
    MaxCalls = 3
SYMMETRY Symmetry
INVARIANTS
    TypeOK
    CertificateFollowsShred
    OneCertificatePerCompletion
    CertificateListsOnlyRealWipes
CHECK_DEADLOCK FALSE
