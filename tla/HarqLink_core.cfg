SPECIFICATION FairLinkSpec
CONSTANTS
    NULL = NULL
    Buffers = {b1, b2}
    ProcessCount = 2
    MaxTransmissions = 2
    LateReplies = FALSE
    Requests = FALSE
    Faults = {"put", "late"}
    MaxQueue = 2
    NetworkId = 91
    McsMax = 2
    SoftBufSize = 7040
    Size = 400
CHECK_DEADLOCK FALSE
INVARIANTS
    LinkTypeOK
    ProcessDrivenOnce
    OpIsCurrent
    TransmissionsBounded
    HeapAccounted
PROPERTIES
    EveryMessageEnds
    ImplementsDelivery
