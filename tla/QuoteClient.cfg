\* Every sequence of up to three commands, three pings, a server that comes and goes.
SPECIFICATION AppSpec
CONSTANTS
    Scripts <- MCScripts
    MaxPings = 3
    Nobody = Nobody
INVARIANTS
    ReplyIsOwn
    AppInv
PROPERTIES
    CommandReturns
    PingIsSent
