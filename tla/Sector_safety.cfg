SPECIFICATION SafetySpec
CONSTANTS
  a = a
  b = b
  c = c
  w1 = w1
  w2 = w2
  NoSector = NoSector
  Sectors <- MCSectors
  Workers <- MCWorkers
  MaxMoves = 3
SYMMETRY MCSymmetry
INVARIANTS TypeOK OneReferenceOnePlace ListedSessionIsHeld SectorInfoIsCurrent ObjectsFollowTheEntity
CHECK_DEADLOCK FALSE
