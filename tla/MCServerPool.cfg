SPECIFICATION Spec
CONSTANTS
    c1 = c1
    c2 = c2
    c3 = c3
    alice = alice
    bob = bob
    key = key
    NoToken = NoToken
    NoRequest = NoRequest
    Tokens <- MCTokens
    Callers = {c1, c2, c3}
    MaxConnections = 2
    Workload <- PoolWorkload
    GatewayKeys = {key}
    OtherStatuses = {}
SYMMETRY CallerSymmetry
INVARIANTS
    ConnectionsAccounted
    LineIsOrdered
    NobodyWaitsInVain
    OnlyTheUpstreamBlocks
    ReadyCanGoOn
