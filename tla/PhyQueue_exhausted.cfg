SPECIFICATION FairSpec
CONSTANTS
    Clients = {c1}
    scan = scan
    low = low
    twin = twin
    high = high
    Ops = {scan, high}
    NoOp = NoOp
    Priority <- MCPriority
    Blocks = {b1, b2}
    NoBlock = NoBlock
    MaxLoad = 3
PROPERTIES
    PermanentOpsRecur
CHECK_DEADLOCK FALSE
