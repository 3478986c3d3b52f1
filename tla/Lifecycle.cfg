\* Three owners, two clients, and starts after a shutdown.
SPECIFICATION LifeSpec
CONSTANTS
    Owners = {main, o1, o2}
    Main = main
    Clients = {c1, c2}
    Nobody = Nobody
    MaxStarts = 3
    SpawnMayFail = TRUE
INVARIANTS
    LifeInv
    OneUpdater
    JoinIsFinal
    ThreadDropsOnlyIfLate
    DropLeavesNoThread
PROPERTIES
    ShutdownReturns
    ShutServerEnds
CHECK_DEADLOCK FALSE
