----------------------------- MODULE MCTimerObject -----------------------------
(* One thread ticks, one wakes, one distributes.                            *)
EXTENDS TimerObject

CONSTANTS t1, t2, t3

MCThreads == {t1, t2, t3}
=============================================================================
