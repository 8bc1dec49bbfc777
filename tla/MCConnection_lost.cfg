CONSTANTS
    NumRequests = 1
    RequestBufferSize = 1
    QueueCapacity = 1
SPECIFICATION Spec
INVARIANT ResponsesWritten
CHECK_DEADLOCK FALSE
