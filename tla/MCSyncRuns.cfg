SPECIFICATION Spec
CONSTANTS
    Chunks = {c1, c2, c3}
    MaxDeliveries = 5
INVARIANTS
    TypeOK
    CompleteMeansDone
    NoRunLeftBehind
PROPERTIES
    CompleteIsFinal
CHECK_DEADLOCK FALSE
