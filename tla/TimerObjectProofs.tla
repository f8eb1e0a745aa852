--------------------------- MODULE TimerObjectProofs ---------------------------
(***************************************************************************)
(* Proofs about TimerObject, for any threads and any number of wakes.      *)
(***************************************************************************)
EXTENDS TimerObject, FiniteSetTheorems, TLAPS

-----------------------------------------------------------------------------
TickPcs == {"none", "begin", "update", "testStop", "stop", "release",
            "prepare", "exchange", "reserve"}

(* TypeOK without the bounds on the queues, which come from Budget below.  *)
Types ==
  /\ state \in States
  /\ stopFlag \in BOOLEAN /\ eventRef \in BOOLEAN /\ valid \in BOOLEAN
  /\ reserved \in Nat /\ posted \in Nat
  /\ tick \in [Threads -> [pc : TickPcs, answer : {"IDLE", "RUN"}]]
  /\ wake \in [Threads -> {"none", "exchange", "testStop", "post", "reserve"}]
  /\ wakes \in Nat
  /\ crossed \in BOOLEAN /\ overtaken \in BOOLEAN

OneTick ==
  \A t, u \in Threads : tick[t].pc # "none" /\ tick[u].pc # "none" => t = u

(* One hand at most drives the NPC: a queue, a waker or a tick.            *)
OneDriver ==
  /\ reserved = 0 \/ posted = 0
  /\ reserved < 2 /\ posted < 2
  /\ \A t \in Threads : WakerDrives(t) \/ TickDrives(t) => reserved = 0 /\ posted = 0
  /\ \A t, u \in Threads : ~ (WakerDrives(t) /\ TickDrives(u))
  /\ \A t, u \in Threads : WakerDrives(t) /\ WakerDrives(u) => t = u

(* ... and one does just when it is not asleep.                            *)
AwakeIsDriven ==
  /\ state = "IDLE" => /\ reserved = 0 /\ posted = 0
                       /\ \A t \in Threads : ~ WakerDrives(t) /\ ~ TickDrives(t)
  /\ state # "IDLE" => \/ reserved # 0 \/ posted # 0
                       \/ \E t \in Threads : WakerDrives(t) \/ TickDrives(t)

(* What the state says about the tick at its exchange.                     *)
ExchangeInv ==
  /\ state = "PREPARE" => \E t \in Threads : tick[t].pc = "exchange"
  /\ \A t \in Threads : tick[t].pc = "exchange" /\ state # "PREPARE" =>
       tick[t].answer = "RUN" /\ state = "RUN"

LiveInv ==
  /\ eventRef
  /\ OneDriver /\ AwakeIsDriven /\ ExchangeInv
  /\ \A t \in Threads : tick[t].pc \notin {"stop", "release"}

StopInv ==
  /\ reserved = 0 /\ posted = 0 /\ state # "PREPARE"
  /\ \A t \in Threads : wake[t] \in {"none", "exchange", "testStop"}
  /\ \A t \in Threads : tick[t].pc \in {"none", "testStop", "stop", "release"}
  /\ ~ eventRef => \A t \in Threads : tick[t].pc = "none"

OrderInv ==
  Orderly => /\ OneTick
             /\ ~ stopFlag => LiveInv
             /\ stopFlag => StopInv

IInv == Types /\ OrderInv

-----------------------------------------------------------------------------
(* The timer starts asleep.                                                *)
LEMMA InitIInv == Init => IInv
<1> SUFFICES ASSUME Init PROVE IInv
  OBVIOUS
<1> USE DEF Init, NoTick
<1>1. Types
  BY DEF Types, States, TickPcs
<1>2. \A t \in Threads : tick[t].pc = "none" /\ ~ WakerDrives(t) /\ ~ TickDrives(t)
  BY DEF WakerDrives, TickDrives
<1>3. OneTick /\ LiveInv
  BY <1>2 DEF OneTick, LiveInv, OneDriver, AwakeIsDriven, ExchangeInv
<1>4. QED
  BY <1>1, <1>3 DEF IInv, OrderInv

(* Every step keeps the types.                                             *)
LEMMA TypesStep == Types /\ [Next]_vars => Types'
<1> SUFFICES ASSUME Types, [Next]_vars PROVE Types'
  OBVIOUS
<1> USE DEF Types, States, TickPcs
<1>1. CASE SetInvalid
  BY <1>1 DEF SetInvalid, eventVars, callVars, histVars
<1>2. ASSUME NEW t \in Threads, Call(t) PROVE Types'
  BY <1>2 DEF Call, eventVars, histVars
<1>3. ASSUME NEW t \in Threads, ExecuteTimer(t) PROVE Types'
  <2>1. CASE ExchangeRun(t)
    BY <2>1 DEF ExchangeRun, eventVars
  <2>2. CASE WakerTestsStop(t) \/ WakerPosts(t) \/ WakerReserves(t)
    BY <2>2 DEF WakerTestsStop, WakerPosts, WakerReserves, eventVars, histVars
  <2>3. QED
    BY <1>3, <2>1, <2>2 DEF ExecuteTimer
<1>4. ASSUME NEW t \in Threads, Tick(t) PROVE Types'
  <2>1. CASE BeginUpdate(t)
    BY <2>1 DEF BeginUpdate, Ticking, eventVars, histVars
  <2>2. ASSUME NEW answer \in {"IDLE", "RUN"}, EndUpdate(t, answer) PROVE Types'
    <3>1. tick' \in [Threads -> [pc : TickPcs, answer : {"IDLE", "RUN"}]]
      BY <2>2 DEF EndUpdate
    <3>2. QED
      BY <2>2, <3>1 DEF EndUpdate, eventVars, histVars
  <2>3. CASE TestStop(t)
    BY <2>3 DEF TestStop, Ticking, eventVars, histVars
  <2>4. CASE StoreAnswer(t) \/ StorePrepare(t)
    BY <2>4 DEF StoreAnswer, StorePrepare, Ticking, eventVars, histVars
  <2>5. CASE ReleaseIocpObject(t) \/ TickReserves(t)
    <3>1. tick' = [tick EXCEPT ![t] = NoTick]
      BY <2>5 DEF ReleaseIocpObject, TickReserves
    <3>2. tick' \in [Threads -> [pc : TickPcs, answer : {"IDLE", "RUN"}]]
      <4>1. NoTick \in [pc : TickPcs, answer : {"IDLE", "RUN"}]
        BY DEF NoTick
      <4>2. QED
        BY <3>1, <4>1
    <3>3. CASE ReleaseIocpObject(t)
      BY <3>2, <3>3 DEF ReleaseIocpObject, histVars
    <3>4. CASE TickReserves(t)
      BY <3>2, <3>4 DEF TickReserves, histVars
    <3>5. QED
      BY <2>5, <3>3, <3>4
  <2>6. CASE ExchangeAnswer(t)
    BY <2>6 DEF ExchangeAnswer, Ticking, NoTick, eventVars, histVars
  <2>7. QED
    BY <1>4, <2>1, <2>2, <2>3, <2>4, <2>5, <2>6 DEF Tick
<1>5. ASSUME NEW t \in Threads, DistributeTask(t) PROVE Types'
  BY <1>5 DEF DistributeTask, callVars, histVars
<1>6. ASSUME NEW t \in Threads, Dispatch(t) PROVE Types'
  BY <1>6 DEF Dispatch, Ticking
<1>7. CASE UNCHANGED vars
  BY <1>7 DEF vars, eventVars, callVars, histVars
<1>8. QED
  BY <1>1, <1>2, <1>3, <1>4, <1>5, <1>6, <1>7 DEF Next

-----------------------------------------------------------------------------
(* A call only looks at the object.                                        *)
LEMMA CallStep ==
  ASSUME IInv, NEW t \in Threads, Call(t)
  PROVE  OrderInv'
<1> USE DEF IInv, Types
<1>1. UNCHANGED <<state, stopFlag, reserved, posted, eventRef, tick, crossed, overtaken>>
  BY DEF Call, eventVars, histVars
<1>2. \A u \in Threads : /\ WakerDrives(u)' <=> WakerDrives(u)
                         /\ TickDrives(u)' <=> TickDrives(u)
                         /\ wake'[u] \in {wake[u], "exchange"}
  BY <1>1 DEF Call, WakerDrives, TickDrives
<1>3. Orderly' <=> Orderly
  BY <1>1 DEF Orderly
<1>4. OneTick => OneTick'
  BY <1>1 DEF OneTick
<1>5. StopInv => StopInv'
  BY <1>1, <1>2 DEF StopInv
<1>6. LiveInv => LiveInv'
  <2> HAVE LiveInv
  <2>1. OneDriver'
    BY <1>1, <1>2 DEF LiveInv, OneDriver
  <2>2. AwakeIsDriven'
    BY <1>1, <1>2 DEF LiveInv, AwakeIsDriven
  <2>3. ExchangeInv'
    BY <1>1 DEF LiveInv, ExchangeInv
  <2>4. QED
    BY <1>1, <2>1, <2>2, <2>3 DEF LiveInv
<1>7. QED
  BY <1>1, <1>3, <1>4, <1>5, <1>6 DEF OrderInv

(* The exchange of a waker takes over from nobody or from a tick that is   *)
(* ending, or changes nothing.                                             *)
LEMMA ExchangeRunStep ==
  ASSUME IInv, NEW t \in Threads, ExchangeRun(t)
  PROVE  OrderInv'
<1> SUFFICES ASSUME Orderly' PROVE OneTick' /\ (~ stopFlag => LiveInv') /\ (stopFlag => StopInv')
  BY DEF OrderInv, ExchangeRun
<1> USE DEF IInv, Types
<1>1. /\ UNCHANGED <<stopFlag, reserved, posted, eventRef, tick, overtaken>>
      /\ state' = "RUN"
      /\ wake[t] = "exchange"
      /\ \A u \in Threads : u # t => wake'[u] = wake[u]
  BY DEF ExchangeRun, eventVars
<1>2. Orderly /\ ~ (state = "PREPARE" /\ \E u \in Threads : FallingAsleep(u))
  BY DEF ExchangeRun, Orderly
<1>3. OneTick /\ OneTick'
  BY <1>1, <1>2 DEF OrderInv, OneTick
<1>4. stopFlag => StopInv'
  BY <1>1, <1>2 DEF OrderInv, StopInv, ExchangeRun
<1>5. ASSUME ~ stopFlag PROVE LiveInv'
  <2>1. LiveInv
    BY <1>2, <1>5 DEF OrderInv
  <2>2. ~ WakerDrives(t)
    BY <1>1 DEF WakerDrives
  <2>3. \A u \in Threads : u # t => (WakerDrives(u)' <=> WakerDrives(u))
    BY <1>1 DEF WakerDrives
  <2>4. CASE state = "RUN"
    <3>1. ~ WakerDrives(t)'
      BY <2>4 DEF ExchangeRun, WakerDrives
    <3>2. \A u \in Threads : TickDrives(u)' <=> TickDrives(u)
      BY <1>1, <2>4 DEF TickDrives
    <3>3. QED
      BY <1>1, <2>1, <2>2, <2>3, <2>4, <3>1, <3>2
         DEF LiveInv, OneDriver, AwakeIsDriven, ExchangeInv
  <2>5. CASE state = "IDLE"
    <3>1. /\ reserved = 0 /\ posted = 0
          /\ \A u \in Threads : ~ WakerDrives(u) /\ ~ TickDrives(u) /\ tick[u].pc # "exchange"
      BY <2>1, <2>5 DEF LiveInv, AwakeIsDriven, ExchangeInv
    <3>2. WakerDrives(t)'
      BY <2>5 DEF ExchangeRun, WakerDrives
    <3>3. \A u \in Threads : ~ TickDrives(u)'
      BY <1>1, <3>1 DEF TickDrives
    <3>4. OneDriver' /\ AwakeIsDriven'
      BY <1>1, <2>3, <3>1, <3>2, <3>3 DEF OneDriver, AwakeIsDriven
    <3>5. QED
      BY <1>1, <2>1, <3>1, <3>4 DEF LiveInv, ExchangeInv
  <2>6. CASE state = "PREPARE"
    <3>1. PICK e \in Threads : tick[e].pc = "exchange"
      BY <2>1, <2>6 DEF LiveInv, ExchangeInv
    <3>2. TickDrives(e)
      BY <2>6, <3>1 DEF TickDrives
    <3>3. reserved = 0 /\ posted = 0 /\ \A u \in Threads : ~ WakerDrives(u)
      BY <2>1, <3>2 DEF LiveInv, OneDriver
    <3>4. \A u \in Threads : u # e => tick[u].pc = "none"
      BY <1>3, <3>1 DEF OneTick
    <3>5. tick[e].answer = "RUN"
      <4>1. tick[e] # [pc |-> "exchange", answer |-> "IDLE"]
        BY <1>2, <2>6 DEF FallingAsleep
      <4>2. tick[e] \in [pc : TickPcs, answer : {"IDLE", "RUN"}]
        OBVIOUS
      <4>3. QED
        BY <3>1, <4>1, <4>2
    <3>6. \A u \in Threads : ~ TickDrives(u)'
      BY <1>1, <3>1, <3>4 DEF TickDrives
    <3>7. WakerDrives(t)'
      BY <2>6 DEF ExchangeRun, WakerDrives
    <3>8. OneDriver' /\ AwakeIsDriven'
      BY <1>1, <2>3, <3>3, <3>6, <3>7 DEF OneDriver, AwakeIsDriven
    <3>9. ExchangeInv'
      BY <1>1, <3>4, <3>5 DEF ExchangeInv
    <3>10. QED
      BY <1>1, <2>1, <3>8, <3>9 DEF LiveInv
  <2>7. QED
    BY <2>4, <2>5, <2>6 DEF States
<1>6. QED
  BY <1>3, <1>4, <1>5

(* A waker that drives hands on to a queue, or finds the timer stopped.    *)
LEMMA WakerStep ==
  ASSUME IInv, NEW t \in Threads, WakerTestsStop(t) \/ WakerPosts(t) \/ WakerReserves(t)
  PROVE  OrderInv'
<1> SUFFICES ASSUME Orderly PROVE OneTick' /\ (~ stopFlag => LiveInv') /\ (stopFlag => StopInv')
  BY DEF OrderInv, Orderly, WakerTestsStop, WakerPosts, WakerReserves, histVars
<1> USE DEF IInv, Types
<1>1. /\ UNCHANGED <<state, stopFlag, eventRef, tick>>
      /\ wake[t] \in {"testStop", "post", "reserve"}
      /\ \A u \in Threads : u # t => wake'[u] = wake[u]
  BY DEF WakerTestsStop, WakerPosts, WakerReserves, eventVars
<1>2. OneTick'
  BY <1>1 DEF OrderInv, OneTick
<1>3. ASSUME stopFlag PROVE StopInv'
  <2>1. StopInv /\ WakerTestsStop(t)
    BY <1>3 DEF OrderInv, StopInv, WakerPosts, WakerReserves
  <2>2. QED
    BY <1>1, <1>3, <2>1 DEF StopInv, WakerTestsStop, eventVars
<1>4. ASSUME ~ stopFlag PROVE LiveInv'
  <2>1. LiveInv
    BY <1>4 DEF OrderInv
  <2>2. \A u \in Threads : /\ u # t => (WakerDrives(u)' <=> WakerDrives(u))
                           /\ TickDrives(u)' <=> TickDrives(u)
    BY <1>1 DEF WakerDrives, TickDrives
  <2>3. WakerDrives(t)
    BY <1>1 DEF WakerDrives
  <2>4. /\ reserved = 0 /\ posted = 0 /\ state # "IDLE"
        /\ \A u \in Threads : ~ TickDrives(u) /\ (u # t => ~ WakerDrives(u))
    BY <2>1, <2>3 DEF LiveInv, OneDriver, AwakeIsDriven
  <2>5. \/ WakerDrives(t)' /\ UNCHANGED <<reserved, posted>>
        \/ ~ WakerDrives(t)' /\ reserved' = 0 /\ posted' = 1
        \/ ~ WakerDrives(t)' /\ reserved' = 1 /\ posted' = 0
    BY <1>4, <2>4 DEF WakerTestsStop, WakerPosts, WakerReserves, WakerDrives, eventVars
  <2>6. OneDriver'
    BY <2>2, <2>4, <2>5 DEF OneDriver
  <2>7. AwakeIsDriven'
    BY <1>1, <2>2, <2>4, <2>5 DEF AwakeIsDriven
  <2>8. ExchangeInv'
    BY <1>1, <2>1 DEF LiveInv, ExchangeInv
  <2>9. QED
    BY <1>1, <2>1, <2>6, <2>7, <2>8 DEF LiveInv
<1>5. QED
  BY <1>2, <1>3, <1>4

(* An event that is due moves from one queue to the other.                 *)
LEMMA DistributeStep ==
  ASSUME IInv, NEW t \in Threads, DistributeTask(t)
  PROVE  OrderInv'
<1> SUFFICES ASSUME Orderly PROVE OneTick' /\ (~ stopFlag => LiveInv') /\ (stopFlag => StopInv')
  BY DEF OrderInv, Orderly, DistributeTask, histVars
<1> USE DEF IInv, Types
<1>1. /\ UNCHANGED <<state, stopFlag, eventRef, tick, wake>>
      /\ reserved > 0 /\ reserved' = reserved - 1 /\ posted' = posted + 1
  BY DEF DistributeTask, callVars
<1>2. OneTick'
  BY <1>1 DEF OrderInv, OneTick
<1>3. ~ stopFlag /\ LiveInv
  BY <1>1 DEF OrderInv, StopInv
<1>4. \A u \in Threads : /\ WakerDrives(u)' <=> WakerDrives(u)
                         /\ TickDrives(u)' <=> TickDrives(u)
  BY <1>1 DEF WakerDrives, TickDrives
<1>5. reserved = 1 /\ posted = 0
  BY <1>1, <1>3 DEF LiveInv, OneDriver
<1>6. \A u \in Threads : ~ WakerDrives(u) /\ ~ TickDrives(u)
  BY <1>3, <1>5 DEF LiveInv, OneDriver
<1>7. OneDriver' /\ AwakeIsDriven'
  BY <1>1, <1>3, <1>4, <1>5, <1>6 DEF LiveInv, OneDriver, AwakeIsDriven
<1>8. ExchangeInv'
  BY <1>1, <1>3 DEF LiveInv, ExchangeInv
<1>9. QED
  BY <1>1, <1>2, <1>3, <1>7, <1>8 DEF LiveInv

(* A tick begins only when no other is left, or the order is lost.         *)
LEMMA DispatchStep ==
  ASSUME IInv, NEW t \in Threads, Dispatch(t)
  PROVE  OrderInv'
<1> SUFFICES ASSUME Orderly' PROVE OneTick' /\ (~ stopFlag => LiveInv') /\ (stopFlag => StopInv')
  BY DEF OrderInv, Dispatch
<1> USE DEF IInv, Types
<1>1. /\ UNCHANGED <<state, stopFlag, reserved, eventRef, wake>>
      /\ posted > 0 /\ posted' = posted - 1 /\ wake[t] = "none"
  BY DEF Dispatch, Ticking
<1>2. Orderly
  BY DEF Orderly, Dispatch
<1>3. ~ stopFlag /\ LiveInv
  BY <1>1, <1>2 DEF OrderInv, StopInv
<1>4. /\ tick' = [tick EXCEPT ![t].pc = "begin"]
      /\ \A u \in Threads : tick[u].pc = "none"
  BY <1>3 DEF Dispatch, Orderly, LiveInv
<1>5. /\ tick'[t].pc = "begin"
      /\ \A u \in Threads : u # t => tick'[u].pc = "none"
  BY <1>4
<1>6. OneTick'
  BY <1>5 DEF OneTick
<1>7. reserved = 0 /\ posted = 1 /\ \A u \in Threads : ~ WakerDrives(u)
  BY <1>1, <1>3 DEF LiveInv, OneDriver
<1>8. \A u \in Threads : ~ WakerDrives(u)' /\ (TickDrives(u)' <=> u = t)
  BY <1>1, <1>5, <1>7 DEF WakerDrives, TickDrives
<1>9. state # "IDLE" /\ state # "PREPARE"
  BY <1>1, <1>3, <1>4 DEF LiveInv, AwakeIsDriven, ExchangeInv
<1>10. OneDriver' /\ AwakeIsDriven'
  BY <1>1, <1>7, <1>8, <1>9 DEF OneDriver, AwakeIsDriven
<1>11. ExchangeInv'
  BY <1>1, <1>5, <1>9 DEF ExchangeInv
<1>12. QED
  BY <1>1, <1>3, <1>5, <1>6, <1>10, <1>11 DEF LiveInv

(* A tick that drives the NPC is alone, and the state is RUN.              *)
LEMMA DrivingTick ==
  ASSUME IInv, Orderly, ~ stopFlag, NEW t \in Threads,
         tick[t].pc \in {"begin", "update", "testStop", "prepare", "reserve"}
  PROVE  /\ reserved = 0 /\ posted = 0 /\ state = "RUN"
         /\ \A u \in Threads : ~ WakerDrives(u) /\ (u # t => tick[u].pc = "none")
<1> USE DEF IInv, Types
<1>1. LiveInv /\ OneTick
  BY DEF OrderInv
<1>2. TickDrives(t)
  BY DEF TickDrives
<1>3. \A u \in Threads : u # t => tick[u].pc = "none"
  BY <1>1 DEF OneTick
<1>4. state # "PREPARE"
  BY <1>1, <1>3 DEF LiveInv, ExchangeInv
<1>5. state # "IDLE" /\ reserved = 0 /\ posted = 0 /\ \A u \in Threads : ~ WakerDrives(u)
  BY <1>1, <1>2 DEF LiveInv, AwakeIsDriven, OneDriver
<1>6. QED
  BY <1>3, <1>4, <1>5 DEF States

(* A tick that still drives it afterwards keeps the invariant.             *)
LEMMA KeepsDriving ==
  ASSUME IInv, Orderly, ~ stopFlag, NEW t \in Threads,
         tick[t].pc \in {"begin", "update", "testStop", "prepare", "reserve"},
         UNCHANGED <<eventRef, wake, reserved, posted>>,
         \A u \in Threads : u # t => tick'[u] = tick[u],
         \/ tick'[t].pc \in {"update", "testStop", "prepare"} /\ state' = "RUN"
         \/ tick'[t].pc = "exchange" /\ state' = "PREPARE"
  PROVE  OneTick' /\ LiveInv'
<1> USE DEF IInv, Types
<1>1. /\ reserved = 0 /\ posted = 0 /\ state = "RUN"
      /\ \A u \in Threads : ~ WakerDrives(u) /\ (u # t => tick[u].pc = "none")
  BY DrivingTick
<1>2. \A u \in Threads : u # t => tick'[u].pc = "none"
  BY <1>1
<1>3. \A u \in Threads : ~ WakerDrives(u)' /\ (TickDrives(u)' <=> u = t)
  BY <1>1, <1>2 DEF WakerDrives, TickDrives
<1>4. OneTick'
  BY <1>2 DEF OneTick
<1>5. OneDriver' /\ AwakeIsDriven'
  BY <1>1, <1>3 DEF OneDriver, AwakeIsDriven
<1>6. ExchangeInv'
  BY <1>2 DEF ExchangeInv
<1>7. eventRef' /\ \A u \in Threads : tick'[u].pc \notin {"stop", "release"}
  BY <1>2 DEF OrderInv, LiveInv
<1>8. QED
  BY <1>4, <1>5, <1>6, <1>7 DEF LiveInv

(* The exchange at the end of a tick falls asleep, goes on itself, or      *)
(* leaves that to the waker that came first.                               *)
LEMMA ExchangeAnswerStep ==
  ASSUME IInv, Orderly, NEW t \in Threads, ExchangeAnswer(t)
  PROVE  ~ stopFlag /\ OneTick' /\ LiveInv'
<1> USE DEF IInv, Types
<1>1. /\ UNCHANGED <<stopFlag, reserved, posted, eventRef, wake>>
      /\ tick[t].pc = "exchange" /\ wake[t] = "none"
      /\ state' = tick[t].answer
      /\ \A u \in Threads : u # t => tick'[u] = tick[u]
  BY DEF ExchangeAnswer, Ticking, eventVars
<1>2. ~ stopFlag /\ LiveInv /\ OneTick
  BY <1>1 DEF OrderInv, StopInv
<1>3. \A u \in Threads : u # t => tick[u].pc = "none" /\ tick'[u].pc = "none"
  BY <1>1, <1>2 DEF OneTick
<1>4. tick'[t].pc = IF tick[t].answer = "RUN" /\ state = "PREPARE" THEN "reserve" ELSE "none"
  BY DEF ExchangeAnswer, NoTick
<1>5. OneTick'
  BY <1>3 DEF OneTick
<1>6. \A u \in Threads : WakerDrives(u)' <=> WakerDrives(u)
  BY <1>1 DEF WakerDrives
<1>7. \A u \in Threads : TickDrives(u)' <=> u = t /\ tick[t].answer = "RUN" /\ state = "PREPARE"
  BY <1>3, <1>4 DEF TickDrives
<1>8. \A u \in Threads : TickDrives(u) <=> u = t /\ state = "PREPARE"
  BY <1>1, <1>3 DEF TickDrives
<1>9. tick[t].answer \in {"IDLE", "RUN"}
  OBVIOUS
<1>10. OneDriver'
  BY <1>1, <1>2, <1>6, <1>7, <1>8 DEF LiveInv, OneDriver
<1>11. AwakeIsDriven'
  <2>1. CASE state = "PREPARE"
    <3>1. reserved = 0 /\ posted = 0 /\ \A u \in Threads : ~ WakerDrives(u)
      BY <1>2, <1>8, <2>1 DEF LiveInv, OneDriver
    <3>2. QED
      BY <1>1, <1>6, <1>7, <1>9, <2>1, <3>1 DEF AwakeIsDriven
  <2>2. CASE state # "PREPARE"
    <3>1. state = "RUN" /\ state' = "RUN"
      BY <1>1, <1>2, <2>2 DEF LiveInv, ExchangeInv
    <3>2. QED
      BY <1>1, <1>2, <1>6, <1>7, <1>8, <2>2, <3>1 DEF LiveInv, AwakeIsDriven
  <2>3. QED
    BY <2>1, <2>2
<1>12. ExchangeInv'
  BY <1>1, <1>3, <1>4, <1>9 DEF ExchangeInv
<1>13. eventRef' /\ \A u \in Threads : tick'[u].pc \notin {"stop", "release"}
  BY <1>1, <1>2, <1>3, <1>4 DEF LiveInv
<1>14. QED
  BY <1>2, <1>5, <1>10, <1>11, <1>12, <1>13 DEF LiveInv

(* The steps of a tick.                                                    *)
LEMMA TickStep ==
  ASSUME IInv, NEW t \in Threads, Tick(t)
  PROVE  OrderInv'
<1> SUFFICES ASSUME Orderly
             PROVE  OneTick' /\ (~ stopFlag' => LiveInv') /\ (stopFlag' => StopInv')
  BY DEF OrderInv, Orderly, Tick, BeginUpdate, EndUpdate, TestStop, StoreAnswer,
         ReleaseIocpObject, StorePrepare, ExchangeAnswer, TickReserves, histVars
<1> USE DEF IInv, Types
<1>1. OneTick /\ (~ stopFlag => LiveInv) /\ (stopFlag => StopInv)
  BY DEF OrderInv
<1>2. CASE BeginUpdate(t)
  <2>1. /\ UNCHANGED <<state, reserved, posted, eventRef, wake>>
        /\ tick[t].pc = "begin"
        /\ \A u \in Threads : u # t => tick'[u] = tick[u]
    BY <1>2 DEF BeginUpdate, Ticking, eventVars
  <2>2. ~ stopFlag
    BY <1>1, <2>1 DEF StopInv
  <2>3. /\ reserved = 0 /\ posted = 0 /\ state = "RUN"
        /\ \A u \in Threads : ~ WakerDrives(u) /\ (u # t => tick[u].pc = "none")
    BY <2>1, <2>2, DrivingTick
  <2>4. CASE valid
    <3>1. ~ stopFlag' /\ tick'[t].pc = "update"
      BY <1>2, <2>2, <2>4 DEF BeginUpdate
    <3>2. QED
      BY <2>1, <2>2, <2>3, <3>1, KeepsDriving
  <2>5. CASE ~ valid
    <3>1. stopFlag' /\ tick'[t].pc = "testStop"
      BY <1>2, <2>5 DEF BeginUpdate
    <3>2. OneTick'
      BY <2>1, <2>3 DEF OneTick
    <3>3. \A u \in Threads : wake'[u] \in {"none", "exchange"}
      BY <2>1, <2>3 DEF WakerDrives
    <3>4. eventRef'
      BY <1>1, <2>1, <2>2 DEF LiveInv
    <3>5. QED
      BY <2>1, <2>3, <3>1, <3>2, <3>3, <3>4 DEF StopInv
  <2>6. QED
    BY <2>4, <2>5
<1>3. ASSUME NEW answer \in {"IDLE", "RUN"}, EndUpdate(t, answer)
      PROVE  ~ stopFlag' /\ OneTick' /\ LiveInv'
  <2>1. /\ UNCHANGED <<state, stopFlag, reserved, posted, eventRef, wake>>
        /\ tick[t].pc = "update" /\ tick'[t].pc = "testStop"
        /\ \A u \in Threads : u # t => tick'[u] = tick[u]
    BY <1>3 DEF EndUpdate, Ticking, eventVars
  <2>2. ~ stopFlag
    BY <1>1, <2>1 DEF StopInv
  <2>3. QED
    BY <2>1, <2>2, DrivingTick, KeepsDriving
<1>4. CASE TestStop(t)
  <2>1. /\ UNCHANGED <<state, stopFlag, reserved, posted, eventRef, wake>>
        /\ tick[t].pc = "testStop"
        /\ tick'[t].pc = IF stopFlag THEN "stop" ELSE "prepare"
        /\ \A u \in Threads : u # t => tick'[u] = tick[u]
    BY <1>4 DEF TestStop, Ticking, eventVars
  <2>2. CASE stopFlag
    BY <1>1, <2>1, <2>2 DEF OneTick, StopInv
  <2>3. CASE ~ stopFlag
    BY <2>1, <2>3, DrivingTick, KeepsDriving
  <2>4. QED
    BY <2>2, <2>3
<1>5. CASE StoreAnswer(t)
  <2>1. /\ UNCHANGED <<stopFlag, reserved, posted, eventRef, wake>>
        /\ tick[t].pc = "stop" /\ tick'[t].pc = "release" /\ state' \in {"IDLE", "RUN"}
        /\ \A u \in Threads : u # t => tick'[u] = tick[u]
    BY <1>5 DEF StoreAnswer, Ticking, eventVars
  <2>2. stopFlag
    BY <1>1, <2>1 DEF LiveInv
  <2>3. QED
    BY <1>1, <2>1, <2>2 DEF OneTick, StopInv
<1>6. CASE ReleaseIocpObject(t)
  <2>1. /\ UNCHANGED <<state, stopFlag, reserved, posted, wake>>
        /\ tick[t].pc = "release" /\ tick'[t].pc = "none"
        /\ \A u \in Threads : u # t => tick'[u] = tick[u]
    BY <1>6 DEF ReleaseIocpObject, Ticking, NoTick
  <2>2. stopFlag
    BY <1>1, <2>1 DEF LiveInv
  <2>3. \A u \in Threads : tick'[u].pc = "none"
    BY <1>1, <2>1 DEF OneTick
  <2>4. QED
    BY <1>1, <2>1, <2>2, <2>3 DEF OneTick, StopInv
<1>7. CASE StorePrepare(t)
  <2>1. /\ UNCHANGED <<stopFlag, reserved, posted, eventRef, wake>>
        /\ tick[t].pc = "prepare" /\ tick'[t].pc = "exchange" /\ state' = "PREPARE"
        /\ \A u \in Threads : u # t => tick'[u] = tick[u]
    BY <1>7 DEF StorePrepare, Ticking, eventVars
  <2>2. ~ stopFlag
    BY <1>1, <2>1 DEF StopInv
  <2>3. QED
    BY <2>1, <2>2, KeepsDriving
<1>8. CASE ExchangeAnswer(t)
  BY <1>8, ExchangeAnswerStep DEF ExchangeAnswer
<1>9. CASE TickReserves(t)
  <2>1. /\ UNCHANGED <<state, stopFlag, posted, eventRef, wake>>
        /\ reserved' = reserved + 1
        /\ tick[t].pc = "reserve" /\ tick'[t].pc = "none"
        /\ \A u \in Threads : u # t => tick'[u] = tick[u]
    BY <1>9 DEF TickReserves, Ticking, NoTick
  <2>2. ~ stopFlag
    BY <1>1, <2>1 DEF StopInv
  <2>3. /\ reserved = 0 /\ posted = 0 /\ state = "RUN"
        /\ \A u \in Threads : ~ WakerDrives(u) /\ (u # t => tick[u].pc = "none")
    BY <2>1, <2>2, DrivingTick
  <2>4. \A u \in Threads : tick'[u].pc = "none"
    BY <2>1, <2>3
  <2>5. \A u \in Threads : ~ WakerDrives(u)' /\ ~ TickDrives(u)'
    BY <2>1, <2>3, <2>4 DEF WakerDrives, TickDrives
  <2>6. OneTick' /\ OneDriver' /\ AwakeIsDriven' /\ ExchangeInv'
    BY <2>1, <2>3, <2>4, <2>5 DEF OneTick, OneDriver, AwakeIsDriven, ExchangeInv
  <2>7. QED
    BY <1>1, <2>1, <2>2, <2>4, <2>6 DEF LiveInv
<1>10. QED
  BY <1>2, <1>3, <1>4, <1>5, <1>6, <1>7, <1>8, <1>9 DEF Tick

-----------------------------------------------------------------------------
(* The invariant is inductive.                                             *)
LEMMA StepIInv == IInv /\ [Next]_vars => IInv'
<1> SUFFICES ASSUME IInv, [Next]_vars PROVE OrderInv'
  BY TypesStep DEF IInv
<1>1. CASE SetInvalid
  BY <1>1 DEF SetInvalid, IInv, OrderInv, Orderly, OneTick, LiveInv, StopInv, OneDriver,
              AwakeIsDriven, ExchangeInv, WakerDrives, TickDrives, eventVars, callVars, histVars
<1>2. ASSUME NEW t \in Threads, Call(t) PROVE OrderInv'
  BY <1>2, CallStep
<1>3. ASSUME NEW t \in Threads, ExecuteTimer(t) PROVE OrderInv'
  BY <1>3, ExchangeRunStep, WakerStep DEF ExecuteTimer
<1>4. ASSUME NEW t \in Threads, Tick(t) PROVE OrderInv'
  BY <1>4, TickStep
<1>5. ASSUME NEW t \in Threads, DistributeTask(t) PROVE OrderInv'
  BY <1>5, DistributeStep
<1>6. ASSUME NEW t \in Threads, Dispatch(t) PROVE OrderInv'
  BY <1>6, DispatchStep
<1>7. CASE UNCHANGED vars
  BY <1>7 DEF vars, IInv, OrderInv, Orderly, OneTick, LiveInv, StopInv, OneDriver,
              AwakeIsDriven, ExchangeInv, WakerDrives, TickDrives, eventVars, callVars, histVars
<1>8. QED
  BY <1>1, <1>2, <1>3, <1>4, <1>5, <1>6, <1>7 DEF Next

(* The invariant holds throughout: the order of tick, waker and stop in    *)
(* ExecuteTimer and Dispatch.                                              *)
THEOREM Invariance == Spec => []IInv
BY InitIInv, StepIInv, PTL DEF Spec

(* The event of an awake NPC is in exactly one place, that of a sleeping   *)
(* one in none, as long as no waker has taken PREPARE from a tick that     *)
(* falls asleep or that the next tick overtakes.                           *)
THEOREM NoTickLostOrDoubled == Spec => []AwakeMeansOneEvent
<1> DEFINE Wakers == {t \in Threads : WakerDrives(t)}
           Tickers == {t \in Threads : TickDrives(t)}
<1>1. IInv => AwakeMeansOneEvent
  <2> SUFFICES ASSUME IInv, Orderly, ~ stopFlag
               PROVE  Driven = IF state = "IDLE" THEN 0 ELSE 1
    BY DEF AwakeMeansOneEvent
  <2> USE DEF IInv, Types
  <2>1. OneDriver /\ AwakeIsDriven /\ OneTick
    BY DEF OrderInv, LiveInv
  <2>2. Driven = reserved + posted + Cardinality(Wakers) + Cardinality(Tickers)
    BY DEF Driven
  <2>3. /\ Wakers = {} => Cardinality(Wakers) = 0
        /\ Tickers = {} => Cardinality(Tickers) = 0
    BY FS_EmptySet
  <2>4. \A t \in Threads : /\ Wakers = {t} => Cardinality(Wakers) = 1
                           /\ Tickers = {t} => Cardinality(Tickers) = 1
    BY FS_Singleton
  <2> HIDE DEF Wakers, Tickers
  <2>5. CASE reserved # 0 \/ posted # 0
    <3>1. Wakers = {} /\ Tickers = {} /\ state # "IDLE" /\ reserved + posted = 1
      BY <2>1, <2>5 DEF OneDriver, AwakeIsDriven, Wakers, Tickers
    <3>2. QED
      BY <2>2, <2>3, <3>1
  <2>6. ASSUME NEW t \in Threads, WakerDrives(t) PROVE Driven = 1 /\ state # "IDLE"
    <3>1. Wakers = {t} /\ Tickers = {} /\ state # "IDLE" /\ reserved = 0 /\ posted = 0
      BY <2>1, <2>6 DEF OneDriver, AwakeIsDriven, Wakers, Tickers
    <3>2. Cardinality(Wakers) = 1 /\ Cardinality(Tickers) = 0
      BY <2>3, <2>4, <3>1
    <3>3. QED
      BY <2>2, <3>1, <3>2
  <2>7. ASSUME NEW t \in Threads, TickDrives(t) PROVE Driven = 1 /\ state # "IDLE"
    <3>1. \A u \in Threads : TickDrives(u) => u = t
      BY <2>1, <2>7 DEF OneTick, TickDrives
    <3>2. Wakers = {} /\ Tickers = {t} /\ state # "IDLE" /\ reserved = 0 /\ posted = 0
      BY <2>1, <2>7, <3>1 DEF OneDriver, AwakeIsDriven, Wakers, Tickers
    <3>3. Cardinality(Wakers) = 0 /\ Cardinality(Tickers) = 1
      BY <2>3, <2>4, <3>2
    <3>4. QED
      BY <2>2, <3>2, <3>3
  <2>8. CASE /\ reserved = 0 /\ posted = 0
             /\ \A t \in Threads : ~ WakerDrives(t) /\ ~ TickDrives(t)
    <3>1. Wakers = {} /\ Tickers = {} /\ state = "IDLE"
      BY <2>1, <2>8 DEF AwakeIsDriven, Wakers, Tickers
    <3>2. QED
      BY <2>2, <2>3, <2>8, <3>1
  <2>9. QED
    BY <2>5, <2>6, <2>7, <2>8
<1>2. QED
  BY Invariance, <1>1, PTL

(* No queue and no tick is left with a pointer to an event that has given  *)
(* up the reference to its object.                                         *)
THEOREM NothingAfterRelease == Spec => []ReleasedIsQuiet
<1>1. IInv => ReleasedIsQuiet
  BY DEF IInv, Types, OrderInv, LiveInv, StopInv, ReleasedIsQuiet
<1>2. QED
  BY Invariance, <1>1, PTL

-----------------------------------------------------------------------------
(* What is in flight never exceeds the calls of ExecuteTimer: whatever is  *)
(* in a queue, and whoever ticks or wakes, goes back to a call of its own. *)
Ticks == {t \in Threads : tick[t].pc # "none"}
Wakers == {t \in Threads : wake[t] # "none"}

Budget ==
  /\ reserved + posted + Cardinality(Ticks) + Cardinality(Wakers) <= wakes
  /\ wakes <= MaxWakes

LEMMA Counts ==
  /\ IsFiniteSet(Ticks) /\ Cardinality(Ticks) \in Nat
  /\ IsFiniteSet(Wakers) /\ Cardinality(Wakers) \in Nat
<1>1. Ticks \subseteq Threads /\ Wakers \subseteq Threads
  BY DEF Ticks, Wakers
<1> QED
  BY <1>1, TimerAssumption, FS_Subset, FS_CardinalityType

(* A thread that begins to tick counts one more, one that ends one less.   *)
LEMMA TicksChange ==
  ASSUME NEW t \in Threads, \A u \in Threads \ {t} : tick'[u] = tick[u]
  PROVE  Cardinality(Ticks)' = Cardinality(Ticks) + (IF tick'[t].pc = "none" THEN 0 ELSE 1)
                                                  - (IF tick[t].pc = "none" THEN 0 ELSE 1)
<1>1. /\ tick'[t].pc # "none" => Ticks' = Ticks \cup {t}
      /\ tick'[t].pc = "none" => Ticks' = Ticks \ {t}
      /\ t \in Ticks <=> tick[t].pc # "none"
  BY DEF Ticks
<1>2. /\ Cardinality(Ticks \cup {t}) = IF t \in Ticks THEN Cardinality(Ticks)
                                       ELSE Cardinality(Ticks) + 1
      /\ Cardinality(Ticks \ {t}) = IF t \in Ticks THEN Cardinality(Ticks) - 1
                                    ELSE Cardinality(Ticks)
  BY Counts, FS_AddElement, FS_RemoveElement
<1>3. CASE tick'[t].pc # "none"
  <2>1. Cardinality(Ticks)' = Cardinality(Ticks \cup {t})
    BY <1>1, <1>3
  <2> QED
    BY <1>1, <1>2, <1>3, <2>1, Counts
<1>4. CASE tick'[t].pc = "none"
  <2>1. Cardinality(Ticks)' = Cardinality(Ticks \ {t})
    BY <1>1, <1>4
  <2> QED
    BY <1>1, <1>2, <1>4, <2>1, Counts
<1> QED
  BY <1>3, <1>4

(* The same for a thread within ExecuteTimer.                              *)
LEMMA WakersChange ==
  ASSUME NEW t \in Threads, \A u \in Threads \ {t} : wake'[u] = wake[u]
  PROVE  Cardinality(Wakers)' = Cardinality(Wakers) + (IF wake'[t] = "none" THEN 0 ELSE 1)
                                                    - (IF wake[t] = "none" THEN 0 ELSE 1)
<1>1. /\ wake'[t] # "none" => Wakers' = Wakers \cup {t}
      /\ wake'[t] = "none" => Wakers' = Wakers \ {t}
      /\ t \in Wakers <=> wake[t] # "none"
  BY DEF Wakers
<1>2. /\ Cardinality(Wakers \cup {t}) = IF t \in Wakers THEN Cardinality(Wakers)
                                        ELSE Cardinality(Wakers) + 1
      /\ Cardinality(Wakers \ {t}) = IF t \in Wakers THEN Cardinality(Wakers) - 1
                                     ELSE Cardinality(Wakers)
  BY Counts, FS_AddElement, FS_RemoveElement
<1>3. CASE wake'[t] # "none"
  <2>1. Cardinality(Wakers)' = Cardinality(Wakers \cup {t})
    BY <1>1, <1>3
  <2> QED
    BY <1>1, <1>2, <1>3, <2>1, Counts
<1>4. CASE wake'[t] = "none"
  <2>1. Cardinality(Wakers)' = Cardinality(Wakers \ {t})
    BY <1>1, <1>4
  <2> QED
    BY <1>1, <1>2, <1>4, <2>1, Counts
<1> QED
  BY <1>3, <1>4

LEMMA BudgetStep == Types /\ Budget /\ [Next]_vars => Budget'
<1> SUFFICES ASSUME Types, Budget, [Next]_vars PROVE Budget'
  OBVIOUS
<1>0. /\ reserved \in Nat /\ posted \in Nat /\ wakes \in Nat /\ MaxWakes \in Nat
      /\ tick \in [Threads -> [pc : TickPcs, answer : {"IDLE", "RUN"}]]
      /\ wake \in [Threads -> {"none", "exchange", "testStop", "post", "reserve"}]
  BY TimerAssumption DEF Types
<1>1. ASSUME UNCHANGED tick PROVE Ticks' = Ticks
  BY <1>1 DEF Ticks
<1>2. ASSUME UNCHANGED wake PROVE Wakers' = Wakers
  BY <1>2 DEF Wakers
<1>3. CASE UNCHANGED <<reserved, posted, tick, wake, wakes>>
  BY <1>1, <1>2, <1>3 DEF Budget
<1>4. ASSUME NEW t \in Threads, Call(t) PROVE Budget'
  <2>1. /\ wakes' = wakes + 1 /\ wakes < MaxWakes /\ wake[t] = "none"
        /\ wake' = [wake EXCEPT ![t] = "exchange"] /\ UNCHANGED <<reserved, posted, tick>>
    BY <1>4 DEF Call, eventVars
  <2>2. Cardinality(Wakers)' = Cardinality(Wakers) + 1
    BY <1>0, <2>1, WakersChange, Counts
  <2> QED
    BY <1>0, <1>1, <2>1, <2>2, Counts DEF Budget
<1>5. ASSUME NEW t \in Threads, ExecuteTimer(t) PROVE Budget'
  <2>1. wake[t] # "none" /\ \A u \in Threads \ {t} : wake'[u] = wake[u]
    BY <1>0, <1>5 DEF ExecuteTimer, ExchangeRun, WakerTestsStop, WakerPosts, WakerReserves
  <2>2. UNCHANGED <<tick, wakes>>
    BY <1>5 DEF ExecuteTimer, ExchangeRun, WakerTestsStop, WakerPosts, WakerReserves, callVars
  <2>3. Cardinality(Wakers)' = Cardinality(Wakers) - (IF wake'[t] = "none" THEN 1 ELSE 0)
    BY <2>1, WakersChange, Counts
  <2>4. \/ UNCHANGED <<reserved, posted>>
        \/ reserved' = reserved + 1 /\ posted' = posted /\ wake'[t] = "none"
        \/ reserved' = reserved /\ posted' = posted + 1 /\ wake'[t] = "none"
    BY <1>0, <1>5 DEF ExecuteTimer, ExchangeRun, WakerTestsStop, WakerPosts, WakerReserves, eventVars
  <2> QED
    BY <1>0, <1>1, <2>2, <2>3, <2>4, Counts DEF Budget
<1>6. ASSUME NEW t \in Threads, Tick(t) PROVE Budget'
  <2>1. tick[t].pc # "none" /\ \A u \in Threads \ {t} : tick'[u] = tick[u]
    BY <1>0, <1>6 DEF Tick, Ticking, BeginUpdate, EndUpdate, TestStop, StoreAnswer,
       ReleaseIocpObject, StorePrepare, ExchangeAnswer, TickReserves
  <2>2. UNCHANGED <<wake, wakes>>
    BY <1>6 DEF Tick, BeginUpdate, EndUpdate, TestStop, StoreAnswer,
       ReleaseIocpObject, StorePrepare, ExchangeAnswer, TickReserves
  <2>3. Cardinality(Ticks)' = Cardinality(Ticks) - (IF tick'[t].pc = "none" THEN 1 ELSE 0)
    BY <2>1, TicksChange, Counts
  <2>4. \/ UNCHANGED <<reserved, posted>>
        \/ reserved' = reserved + 1 /\ posted' = posted /\ tick'[t].pc = "none"
    BY <1>0, <1>6 DEF Tick, BeginUpdate, EndUpdate, TestStop, StoreAnswer, NoTick,
       ReleaseIocpObject, StorePrepare, ExchangeAnswer, TickReserves, eventVars
  <2> QED
    BY <1>0, <1>2, <2>2, <2>3, <2>4, Counts DEF Budget
<1>7. ASSUME NEW t \in Threads, Dispatch(t) PROVE Budget'
  <2>1. /\ posted > 0 /\ posted' = posted - 1 /\ tick[t].pc = "none"
        /\ UNCHANGED <<reserved, wake, wakes>>
        /\ \A u \in Threads \ {t} : tick'[u] = tick[u]
    BY <1>0, <1>7 DEF Dispatch, Ticking
  <2>2. Cardinality(Ticks)' = Cardinality(Ticks) + (IF tick'[t].pc = "none" THEN 0 ELSE 1)
    BY <2>1, TicksChange, Counts
  <2> QED
    BY <1>0, <1>2, <2>1, <2>2, Counts DEF Budget
<1>8. ASSUME NEW t \in Threads, DistributeTask(t) PROVE Budget'
  BY <1>0, <1>1, <1>2, <1>8, Counts DEF DistributeTask, callVars, Budget
<1>9. CASE SetInvalid
  BY <1>3, <1>9 DEF SetInvalid, eventVars, callVars
<1>10. CASE UNCHANGED vars
  BY <1>3, <1>10 DEF vars, eventVars, callVars
<1> QED
  BY <1>4, <1>5, <1>6, <1>7, <1>8, <1>9, <1>10 DEF Next

(* The types, with the bounds on the queues of the timer and of the port:  *)
(* no more events are in them than ExecuteTimer has been called.           *)
THEOREM TypeCorrect == Spec => []TypeOK
<1>1. Init => Types /\ Budget
  <2>1. ASSUME Init PROVE Ticks = {} /\ Wakers = {}
    BY <2>1 DEF Init, NoTick, Ticks, Wakers
  <2>2. ASSUME Init PROVE Budget
    <3>1. Cardinality(Ticks) = 0 /\ Cardinality(Wakers) = 0
      BY <2>1, <2>2, FS_EmptySet
    <3> QED
      BY <2>2, <3>1, TimerAssumption DEF Init, Budget
  <2> QED
    BY <2>2, InitIInv DEF IInv
<1>2. Types /\ Budget /\ [Next]_vars => (Types /\ Budget)'
  BY TypesStep, BudgetStep
<1>3. Types /\ Budget => TypeOK
  BY Counts, TimerAssumption DEF Types, TickPcs, Budget, TypeOK
<1> QED
  BY <1>1, <1>2, <1>3, PTL DEF Spec
=============================================================================
