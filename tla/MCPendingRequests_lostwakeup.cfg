CONSTANTS
    Requests = {r1}
    NoRequest = NoRequest
    Timers = {}
    MaxContinues = 1
SPECIFICATION FairSpec
PROPERTY MatchedResponseArrives
CHECK_DEADLOCK FALSE
