\* One connection with every kind of line, whose peer stops anywhere or leaves.
SPECIFICATION TcpSpec
CONSTANTS
    Names <- MCNames
    Blank = ""
    Upper <- MCUpper
    ConfigLines <- MCNames
    Subscriptions <- MCSubscriptions
    Values = {v1}
    NoQuote = NoQuote
    Handlers = {h1}
    Nobody = Nobody
    MaxClients = 2
    MaxBacklog = 1
    MaxAttempts = 1
    SpawnMayFail = TRUE
    ClockMayFail = FALSE
    Commands = {"PING", "STREAM", "BAD STREAM", "STOP", "OTHER", "NOT UTF8"}
    SplitWrites = {TRUE, FALSE}
    MaxLines = 2
    KeepAliveSec = 1
    TicksPerSec = 2
INVARIANTS
    TcpTypeOK
    AnswersAreOwed
PROPERTIES
    OnlyHalfLinesLost
    EveryConnectionEnds
