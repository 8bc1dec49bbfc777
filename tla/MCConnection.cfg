CONSTANTS
    NumRequests = 2
    RequestBufferSize = 2
    QueueCapacity = 1
SPECIFICATION FairSpec
INVARIANTS
    TypeOK
    AllowedMeansServed
    NothingLeftWhenDone
    ForwardedAreProcessed
PROPERTIES
    ShutdownOnlyAdvances
    DroppedHandleEndsBoth
    ReceiverEndEndsServer
CHECK_DEADLOCK FALSE
