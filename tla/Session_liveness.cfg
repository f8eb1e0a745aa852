SPECIFICATION Spec
CONSTANTS
  w1 = w1
  w2 = w2
  w3 = w3
  b1 = b1
  b2 = b2
  Workers <- MCTwoWorkers
  Borrowers <- MCBorrower
  MaxSends = 2
  FoundEarly = TRUE
PROPERTIES DisconnectCompletes PostedSendIsFlushed
CHECK_DEADLOCK FALSE
