SPECIFICATION LoggedSpec
CONSTANTS
    c1 = c1
    c2 = c2
    c3 = c3
    alice = alice
    bob = bob
    key = key
    NoToken = NoToken
    NoRequest = NoRequest
    Tokens <- MCTokens
    Callers = {c1, c2}
    MaxConnections = 1
    Workload <- MixedWorkload
    GatewayKeys = {key, NoToken}
    OtherStatuses = {500}
    id1 = id1
    id2 = id2
    NoId = NoId
    RequestIds = {id1, id2}
SYMMETRY LoggedSymmetry
INVARIANTS
    TypeOK
    OnlyAdmittedCalls
    AtMostOneExchange
    CallHistory
    RecordsNameTheirRequest
    LogTellsOutcome
    EchoNamesRequest
PROPERTIES
    AnsweredOnce
    KeepsContract
