SPECIFICATION FairSpec
CONSTANTS
  Mod = 8
  Window = 3
  MaxGen = 100
  Queues <- OneQueue
  Stream <- ShortStream
  Lead = 5
  MaxQueuedBytes = 1
  MaxReassembled = 3
  HoleTicks = 1
PROPERTIES EverythingArrives
CHECK_DEADLOCK FALSE
