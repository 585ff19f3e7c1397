SPECIFICATION Spec
CONSTANTS
    NULL = NULL
    Buffers = {b1}
    ProcessCount = 1
    MaxTransmissions = 2
    LateReplies = FALSE
    Requests = TRUE
    Faults = {}
    MaxQueue = 2
INVARIANTS
    TransmissionsBounded
