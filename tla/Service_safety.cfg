SPECIFICATION Spec
CONSTANTS
  s1 = s1
  s2 = s2
  s3 = s3
  r1 = r1
  NoSession = NoSession
  Sessions <- MCSessions
  Readers <- MCReaders
  MaxSessions = 2
SYMMETRY MCSymmetry
INVARIANTS TypeOK SlotsArePartitioned LookUpFindsLiveSession CloseReachesTheConnected AtMostOneOutlivesClose
CHECK_DEADLOCK FALSE
