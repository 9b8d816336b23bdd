SPECIFICATION Spec
CONSTANTS
  Mod = 6
  Window = 3
  MaxGen = 100
  Queues <- BothQueues
  Stream <- WrapStream
  Lead = 5
  MaxQueuedBytes = 2
  MaxReassembled = 2
  HoleTicks = 1
INVARIANTS HeldInWindow NothingWholeWaits BytesAreBounded AckedIsKept
PROPERTIES ImplementsOrderedCommands
CHECK_DEADLOCK FALSE
