SPECIFICATION SafetySpec
CONSTANTS
  w1 = w1
  w2 = w2
  w3 = w3
  b1 = b1
  b2 = b2
  Workers <- MCThreeWorkers
  Borrowers <- MCBorrowers
  MaxSends = 3
  FoundEarly = FALSE
SYMMETRY MCSymmetry
INVARIANTS TypeOK SendTokenDiscipline WireIsPrefix RefsAreExact HandlersAreSerial DisconnectedOnce
CHECK_DEADLOCK FALSE
