\* One connection whose peer writes a line and its newline separately.
SPECIFICATION TcpSafety
CONSTANTS
    Names <- MCNames
    Blank = ""
    Upper <- MCUpper
    ConfigLines <- MCNames
    Subscriptions <- MCSubscriptions
    Values = {v1}
    NoQuote = NoQuote
    Handlers = {h1}
    Nobody = Nobody
    MaxClients = 1
    MaxBacklog = 1
    MaxAttempts = 1
    SpawnMayFail = FALSE
    ClockMayFail = FALSE
    Commands = {"PING"}
    SplitWrites = {TRUE}
    MaxLines = 1
    KeepAliveSec = 1
    TicksPerSec = 1
INVARIANTS
    CommandsAnswered
