SPECIFICATION FairSpec
CONSTANTS
    scan = scan
    msg = msg
    get = get
    rssi = rssi
    stop = stop
    link = link
    reply = reply
    placeholder = placeholder
    NoOp = NoOp
    Ops = {scan, msg, get, rssi, stop, link, reply, placeholder}
    Users = {scan, msg, get}
    Fn <- MCFn
    Priority <- MCPriority
    Outcomes = {"ok"}
    Requests = TRUE
    Prompt = TRUE
    MaxRetry = 2
    MaxLoad = 3
    MaxModem = 3
INVARIANTS
    TokenBalance
    OneTransmission
PROPERTIES
    PhyReleased
