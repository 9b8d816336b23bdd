SPECIFICATION FairSpec
CONSTANTS
    Callers = {a, b}
    MaxConnects = 4
    MaxDisconnects = 1
    MaxAttempts = 2
INVARIANTS NothingLeftOpen
PROPERTIES DisconnectStopsTheLoop CallsReturn PromiseIsKept
CHECK_DEADLOCK FALSE
