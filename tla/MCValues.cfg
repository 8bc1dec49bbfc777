CONSTANTS
    MaxContentLength = 50
    MaxUsize = 99
    MaxCSeqNumber = 9
    MaxU32 = 50
    DefaultTimeout = 6
    MaxTimeout = 20
    MaxU64 = 90
    MinIDLength = 2
    MaxIDLength = 3
    Bytes <- MCBytes
    Absent = Absent
    Schemes <- MCSchemes
    Authorities <- MCAuthorities
    Paths <- MCPaths
    Queries <- MCQueries
    Methods <- MCMethods
    URIs <- MCURIs
    Bodies = {b1, b2}
    Versions = {"1.0", "2.0"}
    StatusCodes <- MCStatusCodes
    Phrases = {p1, p2}
    CSeqTexts <- MCCSeqTexts
    CSeqs = {3}
    MaxHeaders = 2
    MaxMessages = 4
    SinkCapacity = 2
SPECIFICATION Spec
INVARIANTS
    AbsoluteWithHost
    ConversionsAgree
    RebuiltIsSame
    WireFormsExact
    TypedHeadersRoundTrip
    SentInOrder
    SleepsOnlyBlocked
    FinishedMeansFlushed
PROPERTIES
    EveryMessageIsWritten
CHECK_DEADLOCK FALSE
