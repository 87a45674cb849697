SPECIFICATION Spec
CONSTANTS
    Instances = {i1, i2}
    Threads = {t1, t2}
    MaxRevision = 2
    Watermarks = {"synced"}
    MaxTime = 2
    None = None
SYMMETRY Symmetry
INVARIANTS
    TypeOK
    HotPathNotAhead
PROPERTIES
    WatermarksAdvance
