SPECIFICATION Spec
CONSTANTS
    NoFrame = NoFrame
    Ids <- Addresses
    Sizes <- Boundaries
    Cqis = {0, 15}
    NetworkId = 91
    ProcessCount = 4
    McsMax = 4
    SoftBufSize = 14400
INVARIANTS
    FrameTakenAsMeant
    PacketHoldsData
    ResponseTellsOutcome
    StatusTellsSpace
VIEW Exchange
