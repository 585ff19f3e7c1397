SPECIFICATION NewDataSpec
CONSTANTS
    NULL = NULL
    Buffers = {b1, b2}
    ProcessCount = 1
    MaxTransmissions = 3
    LateReplies = FALSE
    Requests = TRUE
    Faults = {"malloc", "put", "late", "error", "stop"}
    MaxQueue = 2
    NetworkId = 91
    McsMax = 2
    SoftBufSize = 3520
    Size = 400
INVARIANTS
    
    PeerTellsNew
