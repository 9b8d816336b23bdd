SPECIFICATION Spec
CONSTANTS
    Channels = {1, 2, 3}
    Absent = Absent
    Trees <- SmallTrees
    Places <- OnePlace
    Clients = {"self", "other"}
    Self = "self"
    MaxSteps = 3
INVARIANTS TreeIsATree ListingIsRead ViewMirrorsServer ListenersAreUpToDate ReadyIsSettled
CHECK_DEADLOCK FALSE
