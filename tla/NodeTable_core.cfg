SPECIFICATION FairSpec
CONSTANTS
    Addresses = {a1, a2}
    Cells = {n1, n2}
    NoCell = NoCell
    Elsewhere = Elsewhere
    NoAddress = NoAddress
    Sizes = {400, 750}
    Receptions <- MCReceptions
    InsertMayFail = TRUE
    TxPower = 13
    TxPowerMargin = 3
    RssiTarget <- MCRssiTarget
    McsMax = 1
    MaxTransmissions = 2
    MaxWorks = 1
INVARIANTS
    TypeOK
    NodesAccounted
    CleanerReadsLiveNode
PROPERTIES
    ForgottenNodesGo
    ConfigEnds
