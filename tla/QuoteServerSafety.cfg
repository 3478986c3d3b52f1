\* Two handlers, two clients, two tickers with two values each.
SPECIFICATION Safety
CONSTANTS
    Names <- MCNames
    Blank = ""
    Upper <- MCUpper
    ConfigLines <- MCConfigLines
    Subscriptions <- MCMixed
    Values = {v1, v2}
    NoQuote = NoQuote
    Handlers = {h1, h2}
    Nobody = Nobody
    MaxClients = 2
    MaxBacklog = 2
    MaxAttempts = 2
    SpawnMayFail = TRUE
    ClockMayFail = TRUE
INVARIANTS
    TypeOK
    PassIsSnapshot
    RegisteredAlive
    NoThreadLeak
    ShutdownIsLast
    IInv
PROPERTIES
    QuietAfterRemove
    IdsNeverReused
    ImplementsFeed
