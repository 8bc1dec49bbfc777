CONSTANTS
    Requests = {r1}
    NoRequest = NoRequest
    Timers = {}
    MaxContinues = 0
SPECIFICATION Spec
INVARIANT OneshotNeverErrors
CHECK_DEADLOCK FALSE
