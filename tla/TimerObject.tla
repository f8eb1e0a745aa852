------------------------------ MODULE TimerObject ------------------------------
(***************************************************************************)
(* The timer of an NPC: ServerCore/TimerObject.cpp with TimerNPC.cpp.      *)
(*                                                                         *)
(* An awake NPC runs a tick, waits for a second in the queue of            *)
(* TaskTimerMgr, is posted to the completion port, and ticks again, all    *)
(* with one event. A tick that finds no player near lets it fall asleep,   *)
(* a player who moves near it wakes it, and m_timer_state decides between  *)
(* the two. Whom it chases and how it moves decide only what a tick        *)
(* answers, which is left open here. How long the second is, too.          *)
(***************************************************************************)
EXTENDS Integers, FiniteSets

CONSTANTS
  Threads,     (* the workers                                              *)
  MaxWakes     (* bound: calls of ExecuteTimer                             *)

ASSUME TimerAssumption ==
  /\ IsFiniteSet(Threads) /\ Threads # {}
  /\ MaxWakes \in Nat

VARIABLES
  state,      (* m_timer_state                                             *)
  stopFlag,   (* m_bStopFlag                                               *)
  reserved,   (* the event in the queue of TaskTimerMgr, how many times    *)
  posted,     (* the same in the completion port                           *)
  eventRef,   (* m_timerEvent holds a reference to its object              *)
  valid,      (* Object::m_bIsValid                                        *)
  tick,       (* per thread, what Dispatch does next, and eCurState        *)
  wake,       (* per thread, what ExecuteTimer does next                   *)
  wakes,      (* calls of ExecuteTimer                                     *)
  crossed,    (* history: a waker took PREPARE from a tick about to answer *)
              (* IDLE                                                      *)
  overtaken   (* history: a tick began while one had not ended             *)

eventVars == <<reserved, posted, eventRef>>
callVars  == <<tick, wake, wakes>>
histVars  == <<crossed, overtaken>>
vars == <<state, stopFlag, eventVars, valid, callVars, histVars>>

NoTick == [pc |-> "none", answer |-> "IDLE"]

(* InitTimer.                                                              *)
Init ==
  /\ state = "IDLE" /\ stopFlag = FALSE
  /\ reserved = 0 /\ posted = 0 /\ eventRef = TRUE
  /\ valid = TRUE
  /\ tick = [t \in Threads |-> NoTick]
  /\ wake = [t \in Threads |-> "none"]
  /\ wakes = 0
  /\ crossed = FALSE /\ overtaken = FALSE

(* Thread t is at pc of Dispatch, and not within a call it makes from it.  *)
Ticking(t, pc) == tick[t].pc = pc /\ wake[t] = "none"

-----------------------------------------------------------------------------
(* A player moves near the NPC, or the NPC itself in its tick near a       *)
(* player: the test that is made before the state is touched.              *)
Call(t) ==
  /\ wake[t] = "none" /\ tick[t].pc \in {"none", "update"}
  /\ valid /\ wakes < MaxWakes
  /\ wake' = [wake EXCEPT ![t] = "exchange"]
  /\ wakes' = wakes + 1
  /\ UNCHANGED <<state, stopFlag, eventVars, valid, tick, histVars>>

(* A thread at the exchange of Dispatch that is about to put the NPC to    *)
(* sleep.                                                                  *)
FallingAsleep(t) == tick[t] = [pc |-> "exchange", answer |-> "IDLE"]

(* Mutant: whoever takes PREPARE believes that the tick goes on.           *)
ExchangeIdleOnly(t) ==
  /\ wake[t] = "exchange"
  /\ state' = "RUN"
  /\ wake' = [wake EXCEPT ![t] = IF state = "IDLE" THEN "testStop" ELSE "none"]
  /\ crossed' = (crossed \/ (state = "PREPARE" /\ \E u \in Threads : FallingAsleep(u)))
  /\ UNCHANGED <<stopFlag, eventVars, valid, tick, wakes, overtaken>>

(* ExecuteTimer: exchange(RUN).                                            *)
ExchangeRun(t) ==
  /\ wake[t] = "exchange"
  /\ state' = "RUN"
  /\ wake' = [wake EXCEPT ![t] = CASE state = "IDLE"    -> "testStop"
                                   [] state = "PREPARE" -> "reserve"
                                   [] OTHER             -> "none"]
  /\ crossed' = (crossed \/ (state = "PREPARE" /\ \E u \in Threads : FallingAsleep(u)))
  /\ UNCHANGED <<stopFlag, eventVars, valid, tick, wakes, overtaken>>

(* Mutant: a stopped timer is posted all the same.                         *)
WakerForgetsStop(t) ==
  /\ wake[t] = "testStop"
  /\ wake' = [wake EXCEPT ![t] = "post"]
  /\ UNCHANGED <<state, stopFlag, eventVars, valid, tick, wakes, histVars>>

(* It was asleep: post its event, unless it has been stopped.              *)
WakerTestsStop(t) ==
  /\ wake[t] = "testStop"
  /\ wake' = [wake EXCEPT ![t] = IF stopFlag THEN "none" ELSE "post"]
  /\ UNCHANGED <<state, stopFlag, eventVars, valid, tick, wakes, histVars>>

WakerPosts(t) ==
  /\ wake[t] = "post"
  /\ posted' = posted + 1
  /\ wake' = [wake EXCEPT ![t] = "none"]
  /\ UNCHANGED <<state, stopFlag, reserved, eventRef, valid, tick, wakes, histVars>>

(* A tick is ending: what it would do to go on is done for it.             *)
WakerReserves(t) ==
  /\ wake[t] = "reserve"
  /\ reserved' = reserved + 1
  /\ wake' = [wake EXCEPT ![t] = "none"]
  /\ UNCHANGED <<state, stopFlag, posted, eventRef, valid, tick, wakes, histVars>>

-----------------------------------------------------------------------------
(* Mutant: a task that is due stays in the queue.                          *)
DistributeCopy(t) ==
  /\ Ticking(t, "none")
  /\ reserved > 0
  /\ posted' = posted + 1
  /\ UNCHANGED <<state, stopFlag, reserved, eventRef, valid, callVars, histVars>>

(* TaskTimerMgr::DistributeTask, when the event is due.                    *)
DistributeTask(t) ==
  /\ Ticking(t, "none")
  /\ reserved > 0
  /\ reserved' = reserved - 1
  /\ posted' = posted + 1
  /\ UNCHANGED <<state, stopFlag, eventRef, valid, callVars, histVars>>

(* IocpCore::Dispatch: an event without an object is ignored.              *)
Dispatch(t) ==
  /\ Ticking(t, "none")
  /\ posted > 0
  /\ posted' = posted - 1
  /\ IF eventRef
     THEN /\ tick' = [tick EXCEPT ![t].pc = "begin"]
          /\ overtaken' = (overtaken \/ \E u \in Threads : tick[u].pc # "none")
     ELSE UNCHANGED <<tick, overtaken>>
  /\ UNCHANGED <<state, stopFlag, reserved, eventRef, valid, wake, wakes, crossed>>

(* TimerUpdate: StopTimer for an object that is not valid.                 *)
BeginUpdate(t) ==
  /\ Ticking(t, "begin")
  /\ stopFlag' = (stopFlag \/ ~ valid)
  /\ tick' = [tick EXCEPT ![t] = IF valid THEN [@ EXCEPT !.pc = "update"]
                                 ELSE [pc |-> "testStop", answer |-> "IDLE"]]
  /\ UNCHANGED <<state, eventVars, valid, wake, wakes, histVars>>

(* The rest of it: no target, nobody near, or a player in sight.           *)
EndUpdate(t, answer) ==
  /\ Ticking(t, "update")
  /\ tick' = [tick EXCEPT ![t] = [pc |-> "testStop", answer |-> answer]]
  /\ UNCHANGED <<state, stopFlag, eventVars, valid, wake, wakes, histVars>>

TestStop(t) ==
  /\ Ticking(t, "testStop")
  /\ tick' = [tick EXCEPT ![t].pc = IF stopFlag THEN "stop" ELSE "prepare"]
  /\ UNCHANGED <<state, stopFlag, eventVars, valid, wake, wakes, histVars>>

StoreAnswer(t) ==
  /\ Ticking(t, "stop")
  /\ state' = tick[t].answer
  /\ tick' = [tick EXCEPT ![t].pc = "release"]
  /\ UNCHANGED <<stopFlag, eventVars, valid, wake, wakes, histVars>>

ReleaseIocpObject(t) ==
  /\ Ticking(t, "release")
  /\ eventRef' = FALSE
  /\ tick' = [tick EXCEPT ![t] = NoTick]
  /\ UNCHANGED <<state, stopFlag, reserved, posted, valid, wake, wakes, histVars>>

StorePrepare(t) ==
  /\ Ticking(t, "prepare")
  /\ state' = "PREPARE"
  /\ tick' = [tick EXCEPT ![t].pc = "exchange"]
  /\ UNCHANGED <<stopFlag, eventVars, valid, wake, wakes, histVars>>

(* Mutant: the tick goes on whether or not a waker has seen to that.       *)
ExchangeAndGoOn(t) ==
  /\ Ticking(t, "exchange")
  /\ state' = tick[t].answer
  /\ tick' = [tick EXCEPT ![t] =
                IF tick[t].answer = "RUN" THEN [@ EXCEPT !.pc = "reserve"] ELSE NoTick]
  /\ UNCHANGED <<stopFlag, eventVars, valid, wake, wakes, histVars>>

(* exchange(eCurState): only who finds PREPARE reserves the next tick.     *)
ExchangeAnswer(t) ==
  /\ Ticking(t, "exchange")
  /\ state' = tick[t].answer
  /\ tick' = [tick EXCEPT ![t] =
                IF tick[t].answer = "RUN" /\ state = "PREPARE"
                THEN [@ EXCEPT !.pc = "reserve"] ELSE NoTick]
  /\ UNCHANGED <<stopFlag, eventVars, valid, wake, wakes, histVars>>

TickReserves(t) ==
  /\ Ticking(t, "reserve")
  /\ reserved' = reserved + 1
  /\ tick' = [tick EXCEPT ![t] = NoTick]
  /\ UNCHANGED <<state, stopFlag, posted, eventRef, valid, wake, wakes, histVars>>

(* The NPC is killed.                                                      *)
SetInvalid ==
  /\ valid
  /\ valid' = FALSE
  /\ UNCHANGED <<state, stopFlag, eventVars, callVars, histVars>>

-----------------------------------------------------------------------------
ExecuteTimer(t) == ExchangeRun(t) \/ WakerTestsStop(t) \/ WakerPosts(t) \/ WakerReserves(t)

Tick(t) ==
  \/ BeginUpdate(t) \/ (\E answer \in {"IDLE", "RUN"} : EndUpdate(t, answer))
  \/ TestStop(t) \/ StoreAnswer(t) \/ ReleaseIocpObject(t)
  \/ StorePrepare(t) \/ ExchangeAnswer(t) \/ TickReserves(t)

Next ==
  \/ SetInvalid
  \/ \E t \in Threads : Call(t) \/ ExecuteTimer(t) \/ Tick(t)
                        \/ DistributeTask(t) \/ Dispatch(t)

(* A thread goes on with what it does, and some thread comes back to the   *)
(* timer queue and to the port.                                            *)
Spec ==
  /\ Init /\ [][Next]_vars
  /\ \A t \in Threads : WF_vars(ExecuteTimer(t)) /\ WF_vars(Tick(t))
  /\ WF_vars(\E t \in Threads : DistributeTask(t))
  /\ WF_vars(\E t \in Threads : Dispatch(t))

-----------------------------------------------------------------------------
States == {"IDLE", "RUN", "PREPARE"}

TypeOK ==
  /\ state \in States
  /\ stopFlag \in BOOLEAN /\ eventRef \in BOOLEAN /\ valid \in BOOLEAN
  /\ reserved \in 0..MaxWakes /\ posted \in 0..MaxWakes
  /\ tick \in [Threads -> [pc : {"none", "begin", "update", "testStop", "stop", "release",
                                 "prepare", "exchange", "reserve"},
                           answer : {"IDLE", "RUN"}]]
  /\ wake \in [Threads -> {"none", "exchange", "testStop", "post", "reserve"}]
  /\ wakes \in 0..MaxWakes
  /\ crossed \in BOOLEAN /\ overtaken \in BOOLEAN

(* Who will make the NPC tick again, or is doing so: a waker, or a tick     *)
(* unless its PREPARE was taken, which hands this on.                      *)
WakerDrives(t) == wake[t] \in {"testStop", "post", "reserve"}
TickDrives(t) ==
  \/ tick[t].pc \in {"begin", "update", "testStop", "stop", "prepare", "reserve"}
  \/ tick[t].pc = "exchange" /\ state = "PREPARE"
Driven == reserved + posted + Cardinality({t \in Threads : WakerDrives(t)})
                            + Cardinality({t \in Threads : TickDrives(t)})

(* The two ways in which the protocol comes apart; both need a waker that  *)
(* takes PREPARE.                                                          *)
Orderly == ~ crossed /\ ~ overtaken

(* An awake NPC has exactly one event under way and a sleeping one none:   *)
(* no tick is lost when a player comes as the NPC falls asleep, and none   *)
(* is doubled, which would run its AI and its view list on two threads.    *)
AwakeMeansOneEvent ==
  Orderly /\ ~ stopFlag => Driven = IF state = "IDLE" THEN 0 ELSE 1

(* Once the event has given up its reference, nothing that holds a raw     *)
(* pointer to it is left: neither a queue nor a tick.                      *)
ReleasedIsQuiet ==
  Orderly /\ ~ eventRef =>
    /\ reserved = 0 /\ posted = 0
    /\ \A t \in Threads : tick[t].pc = "none"

(* An NPC that is killed comes to rest: it gives up the reference to       *)
(* itself, or sleeps. It is never left awake without an event.             *)
KilledComesToRest ==
  ~ valid ~> (~ eventRef \/ (state = "IDLE" /\ Driven = 0) \/ ~ Orderly)
=============================================================================
