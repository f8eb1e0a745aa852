SPECIFICATION Spec
CONSTANTS
  p1 = p1
  p2 = p2
  m1 = m1
  NoOne = NoOne
  Players <- MCPlayers
  Npcs <- MCNpcs
  Places <- MCPlaces
  Crowds <- MCCrowds
  Leavers <- MCLeavers
  ViewRange = 1
  WakeRange = 0
  MaxMoves = 3
  NearSectors = 2
INVARIANTS TypeOK ViewsMatchLists
PROPERTY ViewsConverge
CHECK_DEADLOCK FALSE
