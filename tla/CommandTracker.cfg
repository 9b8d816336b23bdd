SPECIFICATION FairSpec
CONSTANTS
    Targets = {t1, t2}
    Any = Any
    MaxCalls = 2
    MaxSilent = 1
    MaxUnprompted = 1
    MaxRows = 2
    MaxSessions = 2
INVARIANTS AnswersAreWhole AnswersAreItsOwn
PROPERTY CommandsEnd
CHECK_DEADLOCK FALSE
