SPECIFICATION FairSpec
CONSTANTS
    Threads = {t1, t2}
    Instances = {i1}
    Requests = {r1}
    Users = {u1}
    Owner <- MCOneOwner
    Destinations = {hubspot}
    Connectors = {hubspot}
    RedactSites = {red1}
    CopySites = {}
    HasKey = {u1}
    Known <- MCKnowsNothing
    Declared = {red1}
    Ops = {"advance", "shred", "lineage", "restart"}
    Faults = {"plan", "replan", "shred", "wipe", "record", "cert", "load", "crash"}
    Disciplined = TRUE
    MaxCalls = 3
INVARIANTS
    OneCascadeRecords
    FailedWipeNeverCertified
PROPERTIES
    CertificateStaysIssued
    NoSilentStall
CHECK_DEADLOCK FALSE
