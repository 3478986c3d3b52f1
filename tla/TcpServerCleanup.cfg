\* One connection with one STREAM, which ends in any way.
SPECIFICATION TcpSpec
CONSTANTS
    Names <- MCNames
    Blank = ""
    Upper <- MCUpper
    ConfigLines <- MCNames
    Subscriptions <- MCSubscriptions
    Values = {v1}
    NoQuote = NoQuote
    Handlers = {h1}
    Nobody = Nobody
    MaxClients = 1
    MaxBacklog = 1
    MaxAttempts = 1
    SpawnMayFail = FALSE
    ClockMayFail = FALSE
    Commands = {"STREAM"}
    SplitWrites = {FALSE}
    MaxLines = 1
    KeepAliveSec = 1
    TicksPerSec = 1
PROPERTIES
    ClientsCleanedUp
