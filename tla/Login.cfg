SPECIFICATION Spec
CONSTANTS
  s1 = s1
  s2 = s2
  s3 = s3
  n1 = n1
  NoName = NoName
  Sessions <- MCSessions
  Events <- MCSessions
  Names <- MCNames
  user <- MCUser
  Lossy <- MCLossy
INVARIANTS TypeOK NameHasOneOwner NoNameIsLockedOut
PROPERTY RequestIsServed
CHECK_DEADLOCK FALSE
