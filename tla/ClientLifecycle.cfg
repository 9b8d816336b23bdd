SPECIFICATION FairSpec
CONSTANTS
  Callers = {a, b}
  MaxConnects = 4
  MaxDisconnects = 2
  MaxAttempts = 2
INVARIANTS EventsAreInPlace OnlyCurrentAttemptLives
PROPERTIES LoopKeepsItsWord CallsReturn PromiseIsKept
CHECK_DEADLOCK FALSE
