SPECIFICATION FairClientSpec
CONSTANTS
    c1 = c1
    c2 = c2
    alice = alice
    Callers = {c1, c2}
    Words <- MCWords
    Tokens <- MCTokens
    NoToken = NoToken
    NoRequest = NoRequest
    OtherStatuses = {500}
    Workload = {}
    CommandLines <- MCCommandLines
    AnswersSeen <- MCAnswers
INVARIANTS
    ClosedWhenDone
    ExitTellsOutcome
    CommandsAreServed
    CredentialAsWritten
    OnlyTheServerIsAwaited
PROPERTIES
    EveryRunEnds
