\* Two connections that stream, stop and end in every way.
SPECIFICATION TcpSafety
CONSTANTS
    Names <- MCNames
    Blank = ""
    Upper <- MCUpper
    ConfigLines <- MCNames
    Subscriptions <- MCSubscriptions
    Values = {v1}
    NoQuote = NoQuote
    Handlers = {h1, h2}
    Nobody = Nobody
    MaxClients = 2
    MaxBacklog = 1
    MaxAttempts = 1
    SpawnMayFail = TRUE
    ClockMayFail = FALSE
    Commands = {"STREAM", "STOP"}
    SplitWrites = {FALSE}
    MaxLines = 2
    KeepAliveSec = 1
    TicksPerSec = 1
SYMMETRY HandlerSymmetry
INVARIANTS
    ClientIdRegistered
    ClientsAccountedFor
    StopOkIsFinal
PROPERTIES
    OnlyOwnerRemoves
    
