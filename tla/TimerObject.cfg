SPECIFICATION Spec
CONSTANTS
  t1 = t1
  t2 = t2
  t3 = t3
  Threads <- MCThreads
  MaxWakes = 4
INVARIANTS TypeOK AwakeMeansOneEvent ReleasedIsQuiet
PROPERTIES KilledComesToRest
CHECK_DEADLOCK FALSE
