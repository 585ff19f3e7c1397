SPECIFICATION StartupSpec
CONSTANTS
    capability_get = capability_get
    init = init
    scan = scan
    message = message
    rssi = rssi
    reply = reply
    placeholder = placeholder
    NoOp = NoOp
    Ops = {capability_get, init, scan, message, rssi, reply, placeholder}
    Users = {}
    Fn <- MCFn
    Priority <- MCPriority
    Outcomes = {"ok", "refused"}
    Requests = FALSE
    Prompt = FALSE
    Impatient = FALSE
    MaxPuts = 3
    MaxRetry = 1
    MaxLoad = 4
    MaxModem = 3
INVARIANTS
    SemMeansDone
CHECK_DEADLOCK FALSE
