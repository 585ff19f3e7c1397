SPECIFICATION Spec
CONSTANTS
    Clients = {c1, c2}
    scan = scan
    low = low
    twin = twin
    high = high
    Ops = {scan, low, twin, high}
    NoOp = NoOp
    Priority <- MCPriority
    Blocks = {b1, b2}
    NoBlock = NoBlock
    MaxLoad = 4
SYMMETRY Symmetry
INVARIANTS
    ItemSemCountsList
    DequeueFindsNode
    NodesAccounted
    PutNeverBlocks
    BlocksOwnedOnce
    QueueSorted
PROPERTIES
    ImplementsOpQueue
