SPECIFICATION Spec
CONSTANTS
    Viewers = {v1, v2}
    Ids = {1, 2}
    Watches = {1, 2}
    Scenes <- SmallScenes
    Publisher = p
    RememberDenied = TRUE
SYMMETRY Symmetry
INVARIANTS NothingRunsUnowned KnownIsRunning SessionsAgree NoRequestIsLost
CHECK_DEADLOCK FALSE
