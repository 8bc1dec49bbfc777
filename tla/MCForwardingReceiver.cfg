CONSTANTS
    MaxCSeq = 7
    RequestBufferSize = 2
    MaxArrivals = 4
    Arrivals <- AnyArrivals
SPECIFICATION FairSpec
INVARIANTS
    TypeOK
    InOrder
    BufferBounded
    SleepsOnlyAttended
PROPERTIES
    ImplementsOrderedDelivery
    MessagesEventuallyRead
    ReadyRequestIsForwarded
CHECK_DEADLOCK FALSE
