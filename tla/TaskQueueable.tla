---------------------------- MODULE TaskQueueable ----------------------------
(***************************************************************************)
(* The actor of the server core (ServerCore/TaskQueueable.{h,cpp}) with    *)
(* its multi-producer queue (MPSCQueue.hpp) and the completion port that   *)
(* carries its task event (IocpCore::Dispatch).                            *)
(*                                                                         *)
(* A thread that enqueues a task counts it, swaps the queue's tail, links  *)
(* its node behind the old tail and, if the counter was zero, either       *)
(* executes the actor itself or posts the actor's event.  A thread that    *)
(* executes an actor flushes the linked nodes, runs them, and gives the    *)
(* actor up only when the counter falls to zero.                           *)
(*                                                                         *)
(* Between the swap of the tail and the link the node is in the queue but  *)
(* out of reach of the consumer: Unlinked.                                 *)
(***************************************************************************)
EXTENDS Naturals, Sequences, FiniteSets

CONSTANTS
  Workers,    (* threads that block on the completion port                 *)
  Timers,     (* threads that only hand over due tasks, pushOnly = true    *)
  Actors,     (* TaskQueueable objects                                     *)
  MaxTasks,   (* bound on the tasks enqueued in a behaviour                *)
  NoActor     (* LCurTaskQueue = nullptr                                   *)

ASSUME ConstantsAssumption ==
  /\ Workers \cap Timers = {}
  /\ IsFiniteSet(Workers \cup Timers)
  /\ MaxTasks \in Nat
  /\ NoActor \notin Actors

VARIABLES
  issued,     (* number of tasks handed to EnqueueAsyncTask                *)
  taskCount,  (* m_taskCount of each actor                                 *)
  queue,      (* m_taskQueue: nodes behind head, in the order of the tail  *)
  posted,     (* task events of each actor waiting in the completion port  *)
  enqPc,      (* per thread, the call of EnqueueAsyncTask in progress:     *)
  enqActor,   (*   the actor it is called on,                              *)
  enqTask,    (*   its task,                                               *)
  prevCount,  (*   what its fetch_add returned                             *)
  exePc,      (* per thread, the call of Execute in progress:              *)
  curQueue,   (*   LCurTaskQueue,                                          *)
  taskVec,    (*   the flushed tasks that have not started,                *)
  flushed,    (*   how many were flushed,                                  *)
  current     (*   the task being run                                      *)

actorVars == <<issued, taskCount, queue, posted>>
enqVars   == <<enqPc, enqActor, enqTask, prevCount>>
exeVars   == <<exePc, curQueue, taskVec, flushed, current>>
vars      == <<actorVars, enqVars, exeVars>>

Threads == Workers \cup Timers
TaskId  == 1..MaxTasks
NoTask  == 0

Init ==
  /\ issued    = 0
  /\ taskCount = [a \in Actors |-> 0]
  /\ queue     = [a \in Actors |-> <<>>]
  /\ posted    = [a \in Actors |-> 0]
  /\ enqPc     = [t \in Threads |-> "idle"]
  /\ enqActor  = [t \in Threads |-> NoActor]
  /\ enqTask   = [t \in Threads |-> NoTask]
  /\ prevCount = [t \in Threads |-> 0]
  /\ exePc     = [t \in Threads |-> "idle"]
  /\ curQueue  = [t \in Threads |-> NoActor]
  /\ taskVec   = [t \in Threads |-> <<>>]
  /\ flushed   = [t \in Threads |-> 0]
  /\ current   = [t \in Threads |-> NoTask]

-----------------------------------------------------------------------------
(* EnqueueAsyncTask, called by a packet handler or a timer, or by the task *)
(* the thread is running.                                                  *)

CanCall(t) ==
  /\ enqPc[t] = "idle"
  /\ exePc[t] = "idle" \/ current[t] # NoTask

CountTask(t, a) ==
  /\ CanCall(t)
  /\ issued < MaxTasks
  /\ issued' = issued + 1
  /\ taskCount' = [taskCount EXCEPT ![a] = @ + 1]
  /\ enqPc' = [enqPc EXCEPT ![t] = "counted"]
  /\ enqActor' = [enqActor EXCEPT ![t] = a]
  /\ enqTask' = [enqTask EXCEPT ![t] = issued + 1]
  /\ prevCount' = [prevCount EXCEPT ![t] = taskCount[a]]
  /\ UNCHANGED <<queue, posted, exeVars>>

(* The successful compareExchange on the tail.                             *)
SwapTail(t) ==
  /\ enqPc[t] = "counted"
  /\ queue' = [queue EXCEPT ![enqActor[t]] = Append(@, enqTask[t])]
  /\ enqPc' = [enqPc EXCEPT ![t] = "swapped"]
  /\ UNCHANGED <<issued, taskCount, posted, enqActor, enqTask, prevCount, exeVars>>

ReturnFromEnqueue(t) ==
  /\ enqPc' = [enqPc EXCEPT ![t] = "idle"]
  /\ enqActor' = [enqActor EXCEPT ![t] = NoActor]
  /\ enqTask' = [enqTask EXCEPT ![t] = NoTask]
  /\ prevCount' = [prevCount EXCEPT ![t] = 0]

(* Mutant: fetch_add is read as if it returned the new count.              *)
LinkNodeMisreadingCount(t) ==
  /\ enqPc[t] = "swapped"
  /\ \/ prevCount[t] <= 1 /\ enqPc' = [enqPc EXCEPT ![t] = "decide"]
        /\ UNCHANGED <<enqActor, enqTask, prevCount>>
     \/ prevCount[t] > 1 /\ ReturnFromEnqueue(t)
  /\ UNCHANGED <<actorVars, exeVars>>

(* oldTail->next.store(value), and the return when others own the actor.   *)
LinkNode(t) ==
  /\ enqPc[t] = "swapped"
  /\ \/ /\ prevCount[t] = 0
        /\ enqPc' = [enqPc EXCEPT ![t] = "decide"]
        /\ UNCHANGED <<enqActor, enqTask, prevCount>>
     \/ /\ prevCount[t] # 0
        /\ ReturnFromEnqueue(t)
  /\ UNCHANGED <<actorVars, exeVars>>

EnterExecute(t, a) ==
  /\ exePc' = [exePc EXCEPT ![t] = "flush"]
  /\ curQueue' = [curQueue EXCEPT ![t] = a]
  /\ UNCHANGED <<taskVec, flushed, current>>

MayExecuteInline(t) == curQueue[t] = NoActor /\ t \notin Timers

ExecuteInline(t) ==
  /\ enqPc[t] = "decide"
  /\ MayExecuteInline(t)
  /\ EnterExecute(t, enqActor[t])
  /\ ReturnFromEnqueue(t)
  /\ UNCHANGED actorVars

PostEvent(a) == posted' = [posted EXCEPT ![a] = @ + 1]

PostTaskEvent(t) ==
  /\ enqPc[t] = "decide"
  /\ ~ MayExecuteInline(t)
  /\ PostEvent(enqActor[t])
  /\ ReturnFromEnqueue(t)
  /\ UNCHANGED <<issued, taskCount, queue, exeVars>>

-----------------------------------------------------------------------------
(* IocpCore::Dispatch on a worker, and Execute.                            *)

Dispatch(t, a) ==
  /\ t \in Workers
  /\ enqPc[t] = "idle"
  /\ exePc[t] = "idle"
  /\ posted[a] > 0
  /\ posted' = [posted EXCEPT ![a] = @ - 1]
  /\ EnterExecute(t, a)
  /\ UNCHANGED <<issued, taskCount, queue, enqVars>>

(* Mutant: returns out of the loop, past LCurTaskQueue = nullptr.          *)
LeaveByReturn(t) == exePc' = [exePc EXCEPT ![t] = "idle"] /\ UNCHANGED curQueue

LeaveExecute(t) ==
  /\ exePc' = [exePc EXCEPT ![t] = "idle"]
  /\ curQueue' = [curQueue EXCEPT ![t] = NoActor]

Unlinked == {enqTask[t] : t \in {u \in Threads : enqPc[u] = "swapped"}}

(* try_flush_single walks the next pointers until it finds a null one.     *)
FlushesExactly(a, n) ==
  /\ \A i \in 1..n : queue[a][i] \notin Unlinked
  /\ n < Len(queue[a]) => queue[a][n + 1] \in Unlinked

(* Mutant: the swap with the back of the vector is forgotten.              *)
NotRefilled(vec) == SubSeq(vec, 1, Len(vec) - Len(vec) \div 2)

(* The two loops of Execute over taskVec: the first half runs from the     *)
(* front, each slot refilled from the back; the rest runs backwards.       *)
Refilled(vec) ==
  LET n == Len(vec) IN
  [i \in 1..(n - n \div 2) |-> IF i <= n \div 2 THEN vec[n + 1 - i] ELSE vec[i]]

ExecutionOrder(vec) ==
  LET n == Len(vec) IN
  [k \in 1..n |-> IF k <= n \div 2 THEN vec[k] ELSE Refilled(vec)[n + 1 - k]]

Flush(t) ==
  LET a == curQueue[t] IN
  /\ exePc[t] = "flush"
  /\ \E n \in 1..Len(queue[a]) :
       /\ FlushesExactly(a, n)
       /\ queue' = [queue EXCEPT ![a] = SubSeq(@, n + 1, Len(@))]
       /\ taskVec' = [taskVec EXCEPT ![t] = ExecutionOrder(SubSeq(queue[a], 1, n))]
       /\ flushed' = [flushed EXCEPT ![t] = n]
  /\ exePc' = [exePc EXCEPT ![t] = "run"]
  /\ UNCHANGED <<issued, taskCount, posted, enqVars, curQueue, current>>

(* Mutant: leaves without giving the event back to the port.               *)
FlushNothingAndForget(t) ==
  /\ exePc[t] = "flush"
  /\ FlushesExactly(curQueue[t], 0)
  /\ LeaveExecute(t)
  /\ UNCHANGED <<actorVars, enqVars, taskVec, flushed, current>>

(* Nothing was linked yet: the event goes back to the port.                *)
FlushNothing(t) ==
  /\ exePc[t] = "flush"
  /\ FlushesExactly(curQueue[t], 0)
  /\ PostEvent(curQueue[t])
  /\ LeaveExecute(t)
  /\ UNCHANGED <<issued, taskCount, queue, enqVars, taskVec, flushed, current>>

BeginTask(t) ==
  /\ exePc[t] = "run"
  /\ current[t] = NoTask
  /\ taskVec[t] # <<>>
  /\ current' = [current EXCEPT ![t] = Head(taskVec[t])]
  /\ taskVec' = [taskVec EXCEPT ![t] = Tail(@)]
  /\ UNCHANGED <<actorVars, enqVars, exePc, curQueue, flushed>>

EndTask(t) ==
  /\ current[t] # NoTask
  /\ enqPc[t] = "idle"
  /\ current' = [current EXCEPT ![t] = NoTask]
  /\ UNCHANGED <<actorVars, enqVars, exePc, curQueue, taskVec, flushed>>

(* Mutant: one task is subtracted whatever the size of the batch.          *)
FinishOneTask(t) ==
  LET a == curQueue[t] IN
  /\ exePc[t] = "run" /\ current[t] = NoTask /\ taskVec[t] = <<>>
  /\ taskCount' = [taskCount EXCEPT ![a] = @ - 1]
  /\ flushed' = [flushed EXCEPT ![t] = 0]
  /\ IF taskCount[a] = 1
       THEN LeaveExecute(t)
       ELSE exePc' = [exePc EXCEPT ![t] = "check"] /\ UNCHANGED curQueue
  /\ UNCHANGED <<issued, queue, posted, enqVars, taskVec, current>>

(* m_taskCount.fetch_sub(taskCount) and the exit when nothing is left.     *)
FinishBatch(t) ==
  LET a == curQueue[t] IN
  /\ exePc[t] = "run"
  /\ current[t] = NoTask
  /\ taskVec[t] = <<>>
  /\ taskCount' = [taskCount EXCEPT ![a] = @ - flushed[t]]
  /\ flushed' = [flushed EXCEPT ![t] = 0]
  /\ \/ /\ taskCount[a] = flushed[t]
        /\ LeaveExecute(t)
     \/ /\ taskCount[a] # flushed[t]
        /\ exePc' = [exePc EXCEPT ![t] = "check"]
        /\ UNCHANGED curQueue
  /\ UNCHANGED <<issued, queue, posted, enqVars, taskVec, current>>

(* The time slice (LEndTickCount) is used up: hand the actor over.         *)
YieldActor(t) ==
  /\ exePc[t] = "check"
  /\ PostEvent(curQueue[t])
  /\ LeaveExecute(t)
  /\ UNCHANGED <<issued, taskCount, queue, enqVars, taskVec, flushed, current>>

KeepActor(t) ==
  /\ exePc[t] = "check"
  /\ exePc' = [exePc EXCEPT ![t] = "flush"]
  /\ UNCHANGED <<actorVars, enqVars, curQueue, taskVec, flushed, current>>

-----------------------------------------------------------------------------
Enqueue(t) ==
  \/ SwapTail(t) \/ LinkNode(t) \/ ExecuteInline(t) \/ PostTaskEvent(t)

Execute(t) ==
  \/ Flush(t) \/ FlushNothing(t) \/ BeginTask(t) \/ EndTask(t)
  \/ FinishBatch(t) \/ YieldActor(t) \/ KeepActor(t)

Next ==
  \E t \in Threads :
    \/ Enqueue(t)
    \/ Execute(t)
    \/ \E a \in Actors : CountTask(t, a) \/ Dispatch(t, a)

(* A thread inside a call is scheduled by the system; a task returns; the  *)
(* port is a FIFO of packets, so a posted event is not passed over forever *)
(* by threads that keep taking others: strong fairness per actor.          *)
Fairness ==
  /\ \A t \in Threads : WF_vars(Enqueue(t)) /\ WF_vars(Execute(t))
  /\ \A a \in Actors : SF_vars(\E t \in Workers : Dispatch(t, a))

SafetySpec == Init /\ [][Next]_vars

Spec == SafetySpec /\ Fairness

-----------------------------------------------------------------------------
Executors(a) == {t \in Threads : curQueue[t] = a}
Waking(a)    == {t \in Threads : enqActor[t] = a /\ prevCount[t] = 0}
Counting(a)  == {t \in Threads : enqPc[t] = "counted" /\ enqActor[t] = a}

ActorTypeOK ==
  /\ issued \in 0..MaxTasks
  /\ taskCount \in [Actors -> Nat]
  /\ queue \in [Actors -> Seq(TaskId)]
  /\ posted \in [Actors -> Nat]

EnqTypeOK ==
  /\ enqPc \in [Threads -> {"idle", "counted", "swapped", "decide"}]
  /\ enqActor \in [Threads -> Actors \cup {NoActor}]
  /\ enqTask \in [Threads -> TaskId \cup {NoTask}]
  /\ prevCount \in [Threads -> Nat]
  /\ \A t \in Threads : (enqPc[t] = "idle") <=> (enqActor[t] = NoActor)
  /\ \A t \in Threads : (enqPc[t] = "idle") <=> (enqTask[t] = NoTask)

ExeTypeOK ==
  /\ exePc \in [Threads -> {"idle", "flush", "run", "check"}]
  /\ curQueue \in [Threads -> Actors \cup {NoActor}]
  /\ taskVec \in [Threads -> Seq(TaskId)]
  /\ flushed \in [Threads -> Nat]
  /\ current \in [Threads -> TaskId \cup {NoTask}]
  /\ \A t \in Threads : (exePc[t] = "idle") <=> (curQueue[t] = NoActor)
  /\ \A t \in Threads : exePc[t] # "run" =>
       taskVec[t] = <<>> /\ flushed[t] = 0 /\ current[t] = NoTask

TypeOK == ActorTypeOK /\ EnqTypeOK /\ ExeTypeOK

(* An actor with counted tasks is always in exactly one pair of hands: its *)
(* event is in the port once, or one thread executes it, or the thread     *)
(* that counted from zero is about to do either.  With none the tasks are  *)
(* stranded, with two the actor is executed twice, and the contents layer  *)
(* touches a sector's lists without a lock (the fetch_add, fetch_sub and   *)
(* re-post decisions of TaskQueueable.cpp).                                *)
Hands(a) == posted[a] + Cardinality(Executors(a)) + Cardinality(Waking(a))
OneHandPerBusyActor ==
  \A a \in Actors : Hands(a) = IF taskCount[a] > 0 THEN 1 ELSE 0

(* m_taskCount is what was counted and not yet subtracted: the nodes in    *)
(* the queue, the batch in execution and the calls that have not swapped   *)
(* the tail yet, so it never goes below zero and is zero only when nothing *)
(* is left to run.                                                         *)
InFlight(a) ==
  LET batches == {flushed[t] : t \in Executors(a)} IN
  Len(queue[a]) + Cardinality(Counting(a))
    + (IF batches = {} THEN 0 ELSE CHOOSE n \in batches : TRUE)
CountIsExact == \A a \in Actors : taskCount[a] = InFlight(a)

(* The actor implements the serial mailbox.  A task is submitted when the  *)
(* tail is swapped; the tasks still to start are the batch of the thread   *)
(* that executes the actor followed by the queue.                          *)
Started(a) == {current[t] : t \in Executors(a)} \ {NoTask}
Pending(a) ==
  (IF Executors(a) = {} THEN <<>> ELSE taskVec[CHOOSE t \in Executors(a) : TRUE]) \o queue[a]

Mailbox ==
  INSTANCE SerialMailbox WITH
    Tasks     <- TaskId,
    submitted <- (1..issued) \ {enqTask[t] : t \in {u \in Threads : enqPc[u] = "counted"}},
    running   <- [a \in Actors |-> Started(a)],
    pending   <- [a \in Actors |-> Pending(a)]

(* Every task counted on an actor is started at most once, in the order of *)
(* the tail swaps, and never while another task of the actor runs: what    *)
(* EnqueueAsync promises the contents layer that takes no lock.            *)
ImplementsMailbox == Mailbox!Safety

(* And each of them does get its turn: a task that was submitted behind a  *)
(* stalled link, to a busy actor or to one that is just being given up is  *)
(* not stranded (the re-posts of Execute).                                 *)
TasksGetTheirTurn == Mailbox!Fairness

=============================================================================
