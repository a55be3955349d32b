SPECIFICATION SystemSpec
CONSTANTS
    c1 = c1
    c2 = c2
    alice = alice
    bob = bob
    master = master
    NoToken = NoToken
    NoRequest = NoRequest
    Callers = {c1, c2}
    Words <- MCWords
    Tokens <- MCTokens
    CommandLines <- MCCommandLines
    Workload <- MCWorkload
    GatewayKeys <- MCKeys
    MaxConnections = 1
    OtherStatuses = {}
INVARIANTS
    CallsAreAsTyped
    ExitIsEarned
    OnlyTheUpstreamHoldsRuns
