SPECIFICATION Spec
CONSTANTS
  a = a
  b = b
  c = c
  w1 = w1
  w2 = w2
  NoSector = NoSector
  Sectors <- MCPair
  Workers <- MCWorkers
  MaxMoves = 2
PROPERTIES GoneSessionIsFreed
CHECK_DEADLOCK FALSE
