CONSTANTS
    Requests = {r1, r2}
    NoRequest = NoRequest
    Timers = {"Short"}
    MaxContinues = 1
SPECIFICATION Spec
SYMMETRY Symmetry
INVARIANTS
    TypeOK
    UniqueNumbers
    PendingEmptyAtStreamEnd
    ResponseFindsRequest
    NobodyStranded
CHECK_DEADLOCK FALSE
