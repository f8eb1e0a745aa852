SPECIFICATION Spec
CONSTANTS
  w1 = w1
  w2 = w2
  timer = timer
  room = room
  chunk = chunk
  NoActor = NoActor
  Workers <- MCWorkers
  Timers <- MCTimers
  Actors <- MCActors
  MaxTasks = 4
INVARIANTS TypeOK OneHandPerBusyActor CountIsExact
PROPERTIES ImplementsMailbox TasksGetTheirTurn
CHECK_DEADLOCK FALSE
