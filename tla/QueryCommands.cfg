SPECIFICATION FairSpec
CONSTANTS
    Calls = 3
    Mixes <- LateThenOthers
    MaxRows = 2
    MaxNotes = 1
    MaxDrops = 1
    None = None
INVARIANTS AbandonedIsExact AnswersAreItsOwn AnswersAreWhole
PROPERTY CallsEnd
CHECK_DEADLOCK FALSE
