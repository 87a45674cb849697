SPECIFICATION Spec
CONSTANTS
    Threads = {t1, t2}
    Instances = {i1, i2}
    Requests = {r1}
    Users = {u1}
    Owner <- MCOneOwner
    Destinations = {hubspot}
    Connectors = {hubspot}
    RedactSites = {}
    CopySites = {}
    HasKey = {u1}
    Known <- MCKnowsNothing
    Declared = {}
    Ops = {"advance", "shred"}
    Faults = {}
    Disciplined = TRUE
    MaxCalls = 2
PROPERTIES
    CertificateIsFinal
CHECK_DEADLOCK FALSE
