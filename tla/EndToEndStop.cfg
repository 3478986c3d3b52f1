\* A session that subscribes once and stops.
SPECIFICATION E2ESafety
CONSTANTS
    Names <- MCNames
    Blank = ""
    Upper <- MCUpper
    ConfigLines <- MCNames
    Subscriptions <- MCSubscriptions
    Values = {v1}
    NoQuote = NoQuote
    Handlers = {h1, h2}
    Nobody = Nobody
    MaxClients = 1
    MaxBacklog = 1
    MaxAttempts = 0
    SpawnMayFail = FALSE
    ClockMayFail = FALSE
    Commands = {"PING", "STREAM", "BAD STREAM", "STOP"}
    SplitWrites = {TRUE, FALSE}
    MaxLines = 3
    KeepAliveSec = 1
    TicksPerSec = 1
    Scripts <- MCSubscribeOnce
    MaxPings = 1
SYMMETRY HandlerSymmetry
INVARIANTS
    StopUnsubscribes
CHECK_DEADLOCK FALSE
