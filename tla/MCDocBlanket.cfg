SPECIFICATION Spec
CONSTANTS
    c1 = c1
    c2 = c2
    c3 = c3
    alice = alice
    bob = bob
    key = key
    NoToken = NoToken
    NoRequest = NoRequest
    Tokens <- MCTokens
    Callers = {c1}
    MaxConnections = 1
    Workload <- BlanketWorkload
    GatewayKeys = {key}
    OtherStatuses = {500}
INVARIANTS
    TimeoutsReported
