\* Two clients with one ticker; every lock is fought for.
SPECIFICATION Spec
CONSTANTS
    Names <- MCTwoNames
    Blank = ""
    Upper <- MCTwoUpper
    ConfigLines <- MCTwoNames
    Subscriptions <- MCOneSub
    Values = {v1, v2}
    NoQuote = NoQuote
    Handlers = {h1, h2}
    Nobody = Nobody
    MaxClients = 2
    MaxBacklog = 2
    MaxAttempts = 2
    SpawnMayFail = TRUE
    ClockMayFail = TRUE
PROPERTIES
    RemoveReturns
    EveryClientServed
