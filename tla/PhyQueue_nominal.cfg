SPECIFICATION FairSpec
CONSTANTS
    Clients = {c1, c2}
    scan = scan
    low = low
    twin = twin
    high = high
    Ops = {scan, high}
    NoOp = NoOp
    Priority <- MCPriority
    Blocks = {b1, b2}
    NoBlock = NoBlock
    MaxLoad = 2
INVARIANTS
    PutThreadSurvives
PROPERTIES
    UrgentOpsRun
    EveryOpRuns
