CONSTANTS
    MaxCSeq = 7
    RequestBufferSize = 2
    MaxArrivals = 4
    Arrivals <- ReorderedByBufferSize
SPECIFICATION FairPeerSpec
PROPERTY HeldRequestsGetTheirTurn
CHECK_DEADLOCK FALSE
