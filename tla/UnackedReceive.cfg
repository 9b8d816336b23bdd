SPECIFICATION UnackedSpec
CONSTANTS
  Mod = 8
  Window = 4
  MaxGen = 100
  MaxPackets = 30
INVARIANTS WindowFollows NearPacketsArePlaced
