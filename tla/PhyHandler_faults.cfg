SPECIFICATION Spec
CONSTANTS
    scan = scan
    msg = msg
    get = get
    rssi = rssi
    stop = stop
    link = link
    reply = reply
    placeholder = placeholder
    NoOp = NoOp
    Ops = {scan, msg, get, rssi, stop, link, reply, placeholder}
    Users = {scan, msg, get, stop, link}
    Fn <- MCFn
    Priority <- MCPriority
    Outcomes = {"ok", "late", "failed", "refused"}
    Requests = FALSE
    Prompt = FALSE
    MaxRetry = 2
    MaxLoad = 3
    MaxModem = 3
INVARIANTS
    TokenNeverDoubled
    SemMeansDone
    RetriesBounded
    StateTellsHalf
PROPERTIES
    RetryRepeatsFailedOp
    ImplementsOpQueue
CHECK_DEADLOCK FALSE
