--------------------------- MODULE MCTaskQueueable ---------------------------
(* Two workers and the timer thread enqueue on two actors.                  *)
EXTENDS TaskQueueable

CONSTANTS w1, w2, timer, room, chunk

MCWorkers == {w1, w2}
MCTimers  == {timer}
MCActors  == {room, chunk}
=============================================================================
