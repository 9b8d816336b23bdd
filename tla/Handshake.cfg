SPECIFICATION Spec
CONSTANTS
    c1 = c1
    c2 = c2
    hard = hard
    Challenges = {c1, c2, hard}
    TooHard = {hard}
    Fresh = TRUE
    MaxRestarts = 1
    TimeoutTicks = 1
    None = None
SYMMETRY Alike
INVARIANTS KeysAgree ResendsKeepTheirKey
CHECK_DEADLOCK FALSE
