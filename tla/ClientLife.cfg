\* Three starts and three Updates in every order.
SPECIFICATION ClientSpec
CONSTANTS
    MaxStarts = 3
    MaxUpdates = 3
INVARIANTS
    ClientInv
    NoHandleNoThread
PROPERTIES
    JoinReturns
    DetachedThreadEnds
CHECK_DEADLOCK FALSE
