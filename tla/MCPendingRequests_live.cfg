CONSTANTS
    Requests = {r1}
    NoRequest = NoRequest
    Timers = {"Short", "Long"}
    MaxContinues = 2
SPECIFICATION FairSpec
PROPERTY EveryRequestSettles
CHECK_DEADLOCK FALSE
