SPECIFICATION FairStartupSpec
CONSTANTS
    capability_get = capability_get
    init = init
    scan = scan
    message = message
    rssi = rssi
    reply = reply
    placeholder = placeholder
    NoOp = NoOp
    Ops = {capability_get, init, scan, message, rssi, reply, placeholder}
    Users = {rssi}
    Fn <- MCFn
    Priority <- MCPriority
    Outcomes = {"ok", "late", "refused"}
    Requests = FALSE
    Prompt = FALSE
    Impatient = FALSE
    MaxPuts = 3
    MaxRetry = 1
    MaxLoad = 4
    MaxModem = 3
INVARIANTS
    StartedBeforeUsed
    TokenNeverLost
PROPERTIES
    ScanRecurs
CHECK_DEADLOCK FALSE
