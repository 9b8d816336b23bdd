SPECIFICATION FairSpec
CONSTANTS
    Challenges = {c1}
    TooHard = {}
    Fresh = FALSE
    MaxRestarts = 0
    TimeoutTicks = 1
    None = None
PROPERTY HandshakeEnds
CHECK_DEADLOCK FALSE
