SPECIFICATION SendFairSpec
CONSTANTS
    Mod = 5
    Window = 2
    MaxGen = 3
    MaxPackets = 11
    InFlight = 4
    TimeoutTicks = 2
INVARIANTS CountersAgree SentUnderItsNumber NoneForgotten
PROPERTY PacketsSettle
CHECK_DEADLOCK FALSE
