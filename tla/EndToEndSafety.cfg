\* A session of two connections, with and without a command that fails.
SPECIFICATION E2ESafety
CONSTANTS
    Names <- MCNames
    Blank = ""
    Upper <- MCUpper
    ConfigLines <- MCNames
    Subscriptions <- MCSubscriptions
    Values = {v1}
    NoQuote = NoQuote
    Handlers = {h1, h2}
    Nobody = Nobody
    MaxClients = 1
    MaxBacklog = 1
    MaxAttempts = 0
    SpawnMayFail = FALSE
    ClockMayFail = FALSE
    Commands = {"PING", "STREAM", "BAD STREAM", "STOP", "OTHER"}
    SplitWrites = {TRUE, FALSE}
    MaxLines = 3
    KeepAliveSec = 1
    TicksPerSec = 1
    Scripts <- MCScripts
    MaxPings = 1
SYMMETRY HandlerSymmetry
INVARIANTS
    StopShownIsFinal
PROPERTIES
    ServedAsPeer
    ServerAnswersInOrder
CHECK_DEADLOCK FALSE
