SPECIFICATION Spec
CONSTANTS
    Instances = {i1}
    Threads = {t1, t2}
    MaxVersions = 2
    Ttl <- MCTtl
    Latency = 1
    MaxTime = 5
SYMMETRY Symmetry
INVARIANTS
    TypeOK
    SigningLagBounded
    JwksComplete
    RotationTakesEffect
CHECK_DEADLOCK FALSE
