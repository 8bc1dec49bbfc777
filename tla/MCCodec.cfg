CONSTANTS
    MaxContentLength = 50
    MaxUsize = 99
    MaxCSeqNumber = 9
    MaxU32 = 50
    DefaultTimeout = 6
    MaxTimeout = 20
    MaxU64 = 90
    MinIDLength = 2
    MaxIDLength = 3
    BodyMaxLength = 2
    HeaderMaxCount = 2
    HeaderNameMaxLength = 2
    HeaderValueMaxLength = 6
    MethodMaxLength = 3
    URIMaxLength = 2
    ReasonPhraseMaxLength = 3
    Bytes <- MCBytes
    Streams <- MCStreams
    Sent <- MCSent
    MaxEvents = 1
    Raw = Raw
SPECIFICATION Spec
INVARIANTS
    PartialHasTimer
    RestartsBounded
    ChunkIndependent
    EncodedIsDecoded
PROPERTIES
    StalledMessageIsDropped
CHECK_DEADLOCK FALSE
