SPECIFICATION Spec
CONSTANTS
    Threads = {t1, t2}
    Instances = {i1, i2}
    Requests = {r1}
    Users = {u1}
    Owner <- MCOneOwner
    Destinations = {hubspot}
    Connectors = {hubspot}
    RedactSites = {}
    CopySites = {}
    HasKey = {u1}
    Known <- MCKnowsConnectors
    Declared = {}
    Ops = {"advance", "shred"}
    Faults = {"wipe"}
    Disciplined = FALSE
    MaxCalls = 2
INVARIANTS
    NoCertificateOverFailedWipe
CHECK_DEADLOCK FALSE
