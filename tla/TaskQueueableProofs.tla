------------------------- MODULE TaskQueueableProofs -------------------------
(***************************************************************************)
(* Proofs about TaskQueueable for any numbers of workers, timer threads,   *)
(* actors and tasks.                                                       *)
(***************************************************************************)
EXTENDS TaskQueueable, FiniteSetTheorems, SequenceTheorems, TLAPS

(* The two hand-written loops of Execute run a flushed batch in the order  *)
(* in which it was enqueued, whatever its length.                          *)
LEMMA ExecutionOrderIsFifo ==
  ASSUME NEW S, NEW vec \in Seq(S)
  PROVE  ExecutionOrder(vec) = vec
<1> DEFINE n == Len(vec)
<1>1. n \in Nat /\ n \div 2 \in Nat /\ n \div 2 <= n /\ 2 * (n \div 2) <= n
      /\ n - n \div 2 <= n \div 2 + 1
  OBVIOUS
<1>2. ASSUME NEW k \in 1..n
      PROVE  (IF k <= n \div 2 THEN vec[k] ELSE Refilled(vec)[n + 1 - k]) = vec[k]
  <2>1. CASE k <= n \div 2
    BY <2>1
  <2>2. CASE ~ (k <= n \div 2)
    <3>1. n + 1 - k \in 1..(n - n \div 2)
      BY <1>1, <2>2
    <3>2. Refilled(vec)[n + 1 - k]
            = IF n + 1 - k <= n \div 2 THEN vec[n + 1 - (n + 1 - k)] ELSE vec[n + 1 - k]
      BY <3>1 DEF Refilled
    <3>3. CASE n + 1 - k <= n \div 2
      <4>1. n + 1 - (n + 1 - k) = k
        BY <1>1
      <4> QED BY <2>2, <3>2, <3>3, <4>1
    <3>4. CASE ~ (n + 1 - k <= n \div 2)
      <4>1. n + 1 - k = k
        BY <1>1, <2>2, <3>4
      <4> QED BY <2>2, <3>2, <3>4, <4>1
    <3> QED BY <3>3, <3>4
  <2> QED BY <2>1, <2>2
<1>3. vec = [k \in 1..n |-> vec[k]]
  OBVIOUS
<1> QED BY <1>2, <1>3 DEF ExecutionOrder

-----------------------------------------------------------------------------
(* The inductive invariant.  HandInv says that an actor is held, by its    *)
(* event in the port, by the thread that executes it or by the thread that *)
(* is about to wake it, once when tasks are counted and not at all when    *)
(* none are; CountInv says what the counter counts, without which the      *)
(* fetch_sub could pass below zero and the decisions taken on it would     *)
(* mean nothing.                                                           *)
Executing(t, a) == curQueue[t] = a
WakingUp(t, a)  == enqActor[t] = a /\ prevCount[t] = 0
Held(a)         == posted[a] = 1 \/ \E t \in Threads : Executing(t, a) \/ WakingUp(t, a)

HandInv ==
  /\ \A t \in Threads : enqPc[t] = "decide" => prevCount[t] = 0
  /\ \A a \in Actors :
       /\ posted[a] <= 1
       /\ \A t \in Threads : Executing(t, a) \/ WakingUp(t, a) => posted[a] = 0
       /\ \A t, u \in Threads : Executing(t, a) /\ Executing(u, a) => t = u
       /\ \A t, u \in Threads : WakingUp(t, a) /\ WakingUp(u, a) => t = u
       /\ \A t, u \in Threads : ~ (Executing(t, a) /\ WakingUp(u, a))
       /\ taskCount[a] > 0 <=> Held(a)

Uncounted(a) == taskCount[a] - Len(queue[a]) - Cardinality(Counting(a))
CountInv ==
  \A a \in Actors :
    /\ \A t \in Threads : Executing(t, a) => Uncounted(a) = flushed[t]
    /\ (\A t \in Threads : ~ Executing(t, a)) => Uncounted(a) = 0

IInv == TypeOK /\ HandInv /\ CountInv

-----------------------------------------------------------------------------
LEMMA CountingIsFinite ==
  ASSUME ConstantsAssumption, NEW a \in Actors
  PROVE  IsFiniteSet(Counting(a)) /\ Cardinality(Counting(a)) \in Nat
<1>1. IsFiniteSet(Counting(a))
  BY FS_Subset DEF Counting, ConstantsAssumption, Threads
<1> QED BY <1>1, FS_CardinalityType

(* What try_flush_single leaves and what it hands over are again sequences. *)
LEMMA FlushSplits ==
  ASSUME NEW S, NEW q \in Seq(S), NEW n \in 0..Len(q)
  PROVE  /\ SubSeq(q, 1, n) \in Seq(S)
         /\ Len(SubSeq(q, 1, n)) = n
         /\ SubSeq(q, n + 1, Len(q)) \in Seq(S)
         /\ Len(SubSeq(q, n + 1, Len(q))) = Len(q) - n
<1>1. 1 \in Int /\ n \in Int /\ n + 1 \in Int /\ Len(q) \in Int
  OBVIOUS
<1>2. (\A i \in 1..n : q[i] \in S) /\ (\A i \in (n + 1)..Len(q) : q[i] \in S)
  OBVIOUS
<1>3. SubSeq(q, 1, n) \in Seq(S) /\ Len(SubSeq(q, 1, n)) = IF 1 <= n THEN n - 1 + 1 ELSE 0
  BY <1>1, <1>2, SubSeqProperties
<1>4. /\ SubSeq(q, n + 1, Len(q)) \in Seq(S)
      /\ Len(SubSeq(q, n + 1, Len(q))) = IF n + 1 <= Len(q) THEN Len(q) - (n + 1) + 1 ELSE 0
  BY <1>1, <1>2, SubSeqProperties
<1> QED BY <1>1, <1>3, <1>4

(* The type invariant is kept by every step.                               *)
LEMMA TypeStep ==
  ASSUME ConstantsAssumption, TypeOK, CountInv, [Next]_vars
  PROVE  TypeOK'
<1> USE ConstantsAssumption DEF TaskId, NoTask
<1>1. ASSUME NEW t \in Threads, NEW a \in Actors, CountTask(t, a)
      PROVE  TypeOK'
  <2>1. ActorTypeOK'
    BY <1>1, TypeOK DEF CountTask, TypeOK, ActorTypeOK, ExeTypeOK, EnqTypeOK
  <2>2. EnqTypeOK'
    BY <1>1, TypeOK DEF CountTask, CanCall, ActorTypeOK, TypeOK, EnqTypeOK
  <2>3. ExeTypeOK'
    BY <1>1, TypeOK DEF CountTask, exeVars, TypeOK, ExeTypeOK
  <2> QED BY <2>1, <2>2, <2>3 DEF TypeOK
<1>2. ASSUME NEW t \in Threads, SwapTail(t)
      PROVE  TypeOK'
  <2>1. ActorTypeOK'
    <3>1. enqActor[t] \in Actors /\ enqTask[t] \in TaskId
      BY <1>2, TypeOK DEF SwapTail, TypeOK, EnqTypeOK
    <3>2. Append(queue[enqActor[t]], enqTask[t]) \in Seq(TaskId)
      BY <3>1, TypeOK, AppendProperties DEF TypeOK, ActorTypeOK
    <3> QED BY <1>2, <3>1, <3>2, TypeOK DEF SwapTail, TypeOK, ActorTypeOK
  <2>2. EnqTypeOK'
    BY <1>2, TypeOK DEF SwapTail, TypeOK, EnqTypeOK
  <2>3. ExeTypeOK'
    BY <1>2, TypeOK DEF SwapTail, exeVars, TypeOK, ExeTypeOK
  <2> QED BY <2>1, <2>2, <2>3 DEF TypeOK
<1>3. ASSUME NEW t \in Threads, LinkNode(t)
      PROVE  TypeOK'
  <2>1. ActorTypeOK'
    BY <1>3, TypeOK DEF LinkNode, actorVars, TypeOK, ActorTypeOK
  <2>2. EnqTypeOK'
    BY <1>3, TypeOK DEF LinkNode, ReturnFromEnqueue, TypeOK, EnqTypeOK
  <2>3. ExeTypeOK'
    BY <1>3, TypeOK DEF LinkNode, exeVars, TypeOK, ExeTypeOK
  <2> QED BY <2>1, <2>2, <2>3 DEF TypeOK
<1>4. ASSUME NEW t \in Threads, ExecuteInline(t)
      PROVE  TypeOK'
  <2>1. ActorTypeOK'
    BY <1>4, TypeOK DEF ExecuteInline, actorVars, TypeOK, ActorTypeOK
  <2>2. EnqTypeOK'
    BY <1>4, TypeOK DEF ExecuteInline, ReturnFromEnqueue, EnterExecute, TypeOK, EnqTypeOK
  <2>3. ExeTypeOK'
    BY <1>4, TypeOK DEF ExecuteInline, ReturnFromEnqueue, EnterExecute, EnqTypeOK, MayExecuteInline, TypeOK, ExeTypeOK
  <2> QED BY <2>1, <2>2, <2>3 DEF TypeOK
<1>5. ASSUME NEW t \in Threads, PostTaskEvent(t)
      PROVE  TypeOK'
  <2>1. ActorTypeOK'
    BY <1>5, TypeOK DEF PostTaskEvent, ReturnFromEnqueue, PostEvent, TypeOK, ActorTypeOK, ExeTypeOK, EnqTypeOK
  <2>2. EnqTypeOK'
    BY <1>5, TypeOK DEF PostTaskEvent, ReturnFromEnqueue, PostEvent, TypeOK, EnqTypeOK
  <2>3. ExeTypeOK'
    BY <1>5, TypeOK DEF PostTaskEvent, exeVars, TypeOK, ExeTypeOK
  <2> QED BY <2>1, <2>2, <2>3 DEF TypeOK
<1>6. ASSUME NEW t \in Threads, NEW a \in Actors, Dispatch(t, a)
      PROVE  TypeOK'
  <2>1. ActorTypeOK'
    BY <1>6, TypeOK DEF Dispatch, EnterExecute, TypeOK, ActorTypeOK, ExeTypeOK, EnqTypeOK
  <2>2. EnqTypeOK'
    BY <1>6, TypeOK DEF Dispatch, enqVars, TypeOK, EnqTypeOK
  <2>3. ExeTypeOK'
    BY <1>6, TypeOK DEF Dispatch, EnterExecute, TypeOK, ExeTypeOK
  <2> QED BY <2>1, <2>2, <2>3 DEF TypeOK
<1>7. ASSUME NEW t \in Threads, Flush(t)
      PROVE  TypeOK'
  <2>1. ActorTypeOK'
    <3> DEFINE a == curQueue[t]
    <3>1. a \in Actors /\ queue[a] \in Seq(TaskId)
      BY <1>7, TypeOK DEF Flush, TypeOK, ActorTypeOK, ExeTypeOK
    <3>2. PICK n \in 1..Len(queue[a]) :
            /\ queue' = [queue EXCEPT ![a] = SubSeq(@, n + 1, Len(@))]
            /\ taskVec' = [taskVec EXCEPT ![t] = ExecutionOrder(SubSeq(queue[a], 1, n))]
            /\ flushed' = [flushed EXCEPT ![t] = n]
      BY <1>7 DEF Flush
    <3>3. n \in 0..Len(queue[a]) /\ n \in Nat
      BY <3>1
    <3> HIDE DEF a
    <3>4. /\ SubSeq(queue[a], 1, n) \in Seq(TaskId)
          /\ SubSeq(queue[a], n + 1, Len(queue[a])) \in Seq(TaskId)
      BY <3>1, <3>3, FlushSplits
    <3> QED BY <1>7, <3>1, <3>2, <3>4, TypeOK DEF Flush, TypeOK, ActorTypeOK
  <2>2. EnqTypeOK'
    BY <1>7, TypeOK DEF Flush, enqVars, TypeOK, EnqTypeOK
  <2>3. ExeTypeOK'
    <3> DEFINE a == curQueue[t]
    <3>1. a \in Actors /\ queue[a] \in Seq(TaskId)
      BY <1>7, TypeOK DEF Flush, TypeOK, ActorTypeOK, ExeTypeOK
    <3>2. PICK n \in 1..Len(queue[a]) :
            /\ queue' = [queue EXCEPT ![a] = SubSeq(@, n + 1, Len(@))]
            /\ taskVec' = [taskVec EXCEPT ![t] = ExecutionOrder(SubSeq(queue[a], 1, n))]
            /\ flushed' = [flushed EXCEPT ![t] = n]
      BY <1>7 DEF Flush
    <3>3. n \in 0..Len(queue[a]) /\ n \in Nat
      BY <3>1
    <3> HIDE DEF a
    <3>4. /\ SubSeq(queue[a], 1, n) \in Seq(TaskId)
          /\ SubSeq(queue[a], n + 1, Len(queue[a])) \in Seq(TaskId)
      BY <3>1, <3>3, FlushSplits
    <3>5. ExecutionOrder(SubSeq(queue[a], 1, n)) \in Seq(TaskId)
      BY <3>4, ExecutionOrderIsFifo
    <3> QED BY <1>7, <3>2, <3>3, <3>5, TypeOK DEF Flush, TypeOK, ExeTypeOK, a
  <2> QED BY <2>1, <2>2, <2>3 DEF TypeOK
<1>8. ASSUME NEW t \in Threads, FlushNothing(t)
      PROVE  TypeOK'
  <2>1. ActorTypeOK'
    BY <1>8, TypeOK DEF FlushNothing, PostEvent, LeaveExecute, TypeOK, ActorTypeOK, ExeTypeOK, EnqTypeOK
  <2>2. EnqTypeOK'
    BY <1>8, TypeOK DEF FlushNothing, enqVars, TypeOK, EnqTypeOK
  <2>3. ExeTypeOK'
    BY <1>8, TypeOK DEF FlushNothing, PostEvent, LeaveExecute, TypeOK, ExeTypeOK
  <2> QED BY <2>1, <2>2, <2>3 DEF TypeOK
<1>9. ASSUME NEW t \in Threads, BeginTask(t)
      PROVE  TypeOK'
  <2>1. ActorTypeOK'
    BY <1>9, TypeOK DEF BeginTask, actorVars, TypeOK, ActorTypeOK
  <2>2. EnqTypeOK'
    BY <1>9, TypeOK DEF BeginTask, enqVars, TypeOK, EnqTypeOK
  <2>3. ExeTypeOK'
    <3>1. taskVec[t] \in Seq(TaskId) /\ taskVec[t] # <<>>
      BY <1>9, TypeOK DEF BeginTask, TypeOK, ExeTypeOK
    <3>2. Head(taskVec[t]) \in TaskId /\ Tail(taskVec[t]) \in Seq(TaskId)
      BY <3>1, HeadTailProperties
    <3> QED BY <1>9, <3>2, TypeOK DEF BeginTask, TypeOK, ExeTypeOK
  <2> QED BY <2>1, <2>2, <2>3 DEF TypeOK
<1>10. ASSUME NEW t \in Threads, EndTask(t)
      PROVE  TypeOK'
  <2>1. ActorTypeOK'
    BY <1>10, TypeOK DEF EndTask, actorVars, TypeOK, ActorTypeOK
  <2>2. EnqTypeOK'
    BY <1>10, TypeOK DEF EndTask, enqVars, TypeOK, EnqTypeOK
  <2>3. ExeTypeOK'
    BY <1>10, TypeOK DEF EndTask, TypeOK, ExeTypeOK
  <2> QED BY <2>1, <2>2, <2>3 DEF TypeOK
<1>11. ASSUME NEW t \in Threads, FinishBatch(t)
      PROVE  TypeOK'
  <2>1. ActorTypeOK'
    <3> DEFINE a == curQueue[t]
    <3>1. a \in Actors /\ flushed[t] \in Nat /\ taskCount[a] \in Nat /\ Len(queue[a]) \in Nat
      BY <1>11, TypeOK DEF FinishBatch, TypeOK, ActorTypeOK, ExeTypeOK
    <3>2. taskCount[a] - flushed[t] \in Nat
      <4>1. Uncounted(a) = flushed[t]
        BY <3>1, CountInv DEF CountInv, Executing
      <4> QED BY <3>1, <4>1, CountingIsFinite DEF Uncounted
    <3> QED BY <1>11, <3>1, <3>2, TypeOK DEF FinishBatch, TypeOK, ActorTypeOK
  <2>2. EnqTypeOK'
    BY <1>11, TypeOK DEF FinishBatch, enqVars, TypeOK, EnqTypeOK
  <2>3. ExeTypeOK'
    BY <1>11, TypeOK DEF FinishBatch, LeaveExecute, TypeOK, ExeTypeOK
  <2> QED BY <2>1, <2>2, <2>3 DEF TypeOK
<1>12. ASSUME NEW t \in Threads, YieldActor(t)
      PROVE  TypeOK'
  <2>1. ActorTypeOK'
    BY <1>12, TypeOK DEF YieldActor, PostEvent, LeaveExecute, TypeOK, ActorTypeOK, ExeTypeOK, EnqTypeOK
  <2>2. EnqTypeOK'
    BY <1>12, TypeOK DEF YieldActor, enqVars, TypeOK, EnqTypeOK
  <2>3. ExeTypeOK'
    BY <1>12, TypeOK DEF YieldActor, PostEvent, LeaveExecute, TypeOK, ExeTypeOK
  <2> QED BY <2>1, <2>2, <2>3 DEF TypeOK
<1>13. ASSUME NEW t \in Threads, KeepActor(t)
      PROVE  TypeOK'
  <2>1. ActorTypeOK'
    BY <1>13, TypeOK DEF KeepActor, actorVars, TypeOK, ActorTypeOK
  <2>2. EnqTypeOK'
    BY <1>13, TypeOK DEF KeepActor, enqVars, TypeOK, EnqTypeOK
  <2>3. ExeTypeOK'
    BY <1>13, TypeOK DEF KeepActor, TypeOK, ExeTypeOK
  <2> QED BY <2>1, <2>2, <2>3 DEF TypeOK
<1>14. CASE UNCHANGED vars
  BY <1>14, TypeOK DEF vars, actorVars, enqVars, exeVars, TypeOK, ActorTypeOK, EnqTypeOK, ExeTypeOK
<1> QED
  BY <1>1, <1>2, <1>3, <1>4, <1>5, <1>6, <1>7,
     <1>8, <1>9, <1>10, <1>11, <1>12, <1>13, <1>14, [Next]_vars
     DEF Next, Enqueue, Execute

(* What the hand-over argument needs of the types.                         *)
HandTypes ==
  /\ taskCount \in [Actors -> Nat]
  /\ posted \in [Actors -> Nat]
  /\ enqPc \in [Threads -> {"idle", "counted", "swapped", "decide"}]
  /\ enqActor \in [Threads -> Actors \cup {NoActor}]
  /\ prevCount \in [Threads -> Nat]
  /\ exePc \in [Threads -> {"idle", "flush", "run", "check"}]
  /\ curQueue \in [Threads -> Actors \cup {NoActor}]
  /\ \A t \in Threads : (enqPc[t] = "idle") <=> (enqActor[t] = NoActor)
  /\ \A t \in Threads : (exePc[t] = "idle") <=> (curQueue[t] = NoActor)
  /\ \A t \in Threads : flushed[t] \in Nat /\ (exePc[t] # "run" => flushed[t] = 0)

(* Every step keeps a busy actor in exactly one pair of hands.             *)
LEMMA HandStep ==
  ASSUME ConstantsAssumption, HandTypes, taskCount' \in [Actors -> Nat], HandInv, [Next]_vars
  PROVE  HandInv'
<1> USE ConstantsAssumption, HandTypes, HandInv
    DEF HandTypes, HandInv, Held, Executing, WakingUp
<1>1. ASSUME NEW t \in Threads, NEW a \in Actors, CountTask(t, a)
      PROVE  HandInv'
  <2>1. ASSUME NEW u \in Threads, enqPc'[u] = "decide" PROVE prevCount'[u] = 0
    BY <1>1, <2>1 DEF CountTask, exeVars, CanCall
  <2> SUFFICES ASSUME NEW b \in Actors
               PROVE  (/\ posted[b] <= 1
                       /\ \A u \in Threads : Executing(u, b) \/ WakingUp(u, b) => posted[b] = 0
                       /\ \A u, v \in Threads : Executing(u, b) /\ Executing(v, b) => u = v
                       /\ \A u, v \in Threads : WakingUp(u, b) /\ WakingUp(v, b) => u = v
                       /\ \A u, v \in Threads : ~ (Executing(u, b) /\ WakingUp(v, b))
                       /\ taskCount[b] > 0 <=> Held(b))'
    BY <2>1
  <2>8. taskCount[a] = 0 => posted[a] = 0 /\ \A u \in Threads : ~ Executing(u, a) /\ ~ WakingUp(u, a)
    <3>1. posted[a] \in Nat /\ posted[a] <= 1 /\ (taskCount[a] = 0 => ~ Held(a))
      OBVIOUS
    <3> QED BY <3>1
  <2>2. (\A u \in Threads : Executing(u, b) \/ WakingUp(u, b) => posted[b] = 0)'
    BY <1>1, <2>8 DEF CountTask, exeVars, CanCall
  <2>3. (\A u, v \in Threads : Executing(u, b) /\ Executing(v, b) => u = v)'
    BY <1>1 DEF CountTask, exeVars, CanCall
  <2>4. (\A u, v \in Threads : WakingUp(u, b) /\ WakingUp(v, b) => u = v)'
    BY <1>1 DEF CountTask, exeVars, CanCall
  <2>5. (\A u, v \in Threads : ~ (Executing(u, b) /\ WakingUp(v, b)))'
    BY <1>1 DEF CountTask, exeVars, CanCall
  <2>6. (taskCount[b] > 0 <=> Held(b))'
    BY <1>1 DEF CountTask, exeVars, CanCall
  <2>7. (posted[b] <= 1)'
    BY <1>1 DEF CountTask, exeVars, CanCall
  <2> QED BY <2>2, <2>3, <2>4, <2>5, <2>6, <2>7
<1>2. ASSUME NEW t \in Threads, SwapTail(t)
      PROVE  HandInv'
  <2>1. ASSUME NEW u \in Threads, enqPc'[u] = "decide" PROVE prevCount'[u] = 0
    BY <1>2, <2>1 DEF SwapTail, exeVars
  <2> SUFFICES ASSUME NEW b \in Actors
               PROVE  (/\ posted[b] <= 1
                       /\ \A u \in Threads : Executing(u, b) \/ WakingUp(u, b) => posted[b] = 0
                       /\ \A u, v \in Threads : Executing(u, b) /\ Executing(v, b) => u = v
                       /\ \A u, v \in Threads : WakingUp(u, b) /\ WakingUp(v, b) => u = v
                       /\ \A u, v \in Threads : ~ (Executing(u, b) /\ WakingUp(v, b))
                       /\ taskCount[b] > 0 <=> Held(b))'
    BY <2>1
  <2>2. (\A u \in Threads : Executing(u, b) \/ WakingUp(u, b) => posted[b] = 0)'
    BY <1>2 DEF SwapTail, exeVars
  <2>3. (\A u, v \in Threads : Executing(u, b) /\ Executing(v, b) => u = v)'
    BY <1>2 DEF SwapTail, exeVars
  <2>4. (\A u, v \in Threads : WakingUp(u, b) /\ WakingUp(v, b) => u = v)'
    BY <1>2 DEF SwapTail, exeVars
  <2>5. (\A u, v \in Threads : ~ (Executing(u, b) /\ WakingUp(v, b)))'
    BY <1>2 DEF SwapTail, exeVars
  <2>6. (taskCount[b] > 0 <=> Held(b))'
    BY <1>2 DEF SwapTail, exeVars
  <2>7. (posted[b] <= 1)'
    BY <1>2 DEF SwapTail, exeVars
  <2> QED BY <2>2, <2>3, <2>4, <2>5, <2>6, <2>7
<1>3. ASSUME NEW t \in Threads, LinkNode(t)
      PROVE  HandInv'
  <2>1. ASSUME NEW u \in Threads, enqPc'[u] = "decide" PROVE prevCount'[u] = 0
    BY <1>3, <2>1 DEF LinkNode, ReturnFromEnqueue, actorVars, exeVars
  <2> SUFFICES ASSUME NEW b \in Actors
               PROVE  (/\ posted[b] <= 1
                       /\ \A u \in Threads : Executing(u, b) \/ WakingUp(u, b) => posted[b] = 0
                       /\ \A u, v \in Threads : Executing(u, b) /\ Executing(v, b) => u = v
                       /\ \A u, v \in Threads : WakingUp(u, b) /\ WakingUp(v, b) => u = v
                       /\ \A u, v \in Threads : ~ (Executing(u, b) /\ WakingUp(v, b))
                       /\ taskCount[b] > 0 <=> Held(b))'
    BY <2>1
  <2>2. (\A u \in Threads : Executing(u, b) \/ WakingUp(u, b) => posted[b] = 0)'
    BY <1>3 DEF LinkNode, ReturnFromEnqueue, actorVars, exeVars
  <2>3. (\A u, v \in Threads : Executing(u, b) /\ Executing(v, b) => u = v)'
    BY <1>3 DEF LinkNode, ReturnFromEnqueue, actorVars, exeVars
  <2>4. (\A u, v \in Threads : WakingUp(u, b) /\ WakingUp(v, b) => u = v)'
    BY <1>3 DEF LinkNode, ReturnFromEnqueue, actorVars, exeVars
  <2>5. (\A u, v \in Threads : ~ (Executing(u, b) /\ WakingUp(v, b)))'
    BY <1>3 DEF LinkNode, ReturnFromEnqueue, actorVars, exeVars
  <2>6. (taskCount[b] > 0 <=> Held(b))'
    BY <1>3 DEF LinkNode, ReturnFromEnqueue, actorVars, exeVars
  <2>7. (posted[b] <= 1)'
    BY <1>3 DEF LinkNode, ReturnFromEnqueue, actorVars, exeVars
  <2> QED BY <2>2, <2>3, <2>4, <2>5, <2>6, <2>7
<1>4. ASSUME NEW t \in Threads, ExecuteInline(t)
      PROVE  HandInv'
  BY <1>4 DEF ExecuteInline, ReturnFromEnqueue, EnterExecute, MayExecuteInline, actorVars
<1>5. ASSUME NEW t \in Threads, PostTaskEvent(t)
      PROVE  HandInv'
  BY <1>5 DEF PostTaskEvent, ReturnFromEnqueue, PostEvent, exeVars
<1>6. ASSUME NEW t \in Threads, NEW a \in Actors, Dispatch(t, a)
      PROVE  HandInv'
  BY <1>6 DEF Dispatch, EnterExecute, enqVars
<1>7. ASSUME NEW t \in Threads, Flush(t)
      PROVE  HandInv'
  <2>1. UNCHANGED <<taskCount, posted, enqPc, enqActor, prevCount, curQueue>>
    BY <1>7 DEF Flush, enqVars
  <2> QED BY <2>1
<1>8. ASSUME NEW t \in Threads, FlushNothing(t)
      PROVE  HandInv'
  BY <1>8 DEF FlushNothing, PostEvent, LeaveExecute, enqVars
<1>9. ASSUME NEW t \in Threads, BeginTask(t)
      PROVE  HandInv'
  <2>1. UNCHANGED <<taskCount, posted, enqPc, enqActor, prevCount, curQueue>>
    BY <1>9 DEF BeginTask, actorVars, enqVars
  <2> QED BY <2>1
<1>10. ASSUME NEW t \in Threads, EndTask(t)
      PROVE  HandInv'
  BY <1>10 DEF EndTask, actorVars, enqVars
<1>11. ASSUME NEW t \in Threads, FinishBatch(t)
      PROVE  HandInv'
  <2>1. ASSUME NEW u \in Threads, enqPc'[u] = "decide" PROVE prevCount'[u] = 0
    BY <1>11, <2>1 DEF FinishBatch, LeaveExecute, enqVars
  <2> SUFFICES ASSUME NEW b \in Actors
               PROVE  (/\ posted[b] <= 1
                       /\ \A u \in Threads : Executing(u, b) \/ WakingUp(u, b) => posted[b] = 0
                       /\ \A u, v \in Threads : Executing(u, b) /\ Executing(v, b) => u = v
                       /\ \A u, v \in Threads : WakingUp(u, b) /\ WakingUp(v, b) => u = v
                       /\ \A u, v \in Threads : ~ (Executing(u, b) /\ WakingUp(v, b))
                       /\ taskCount[b] > 0 <=> Held(b))'
    BY <2>1
  <2>2. (\A u \in Threads : Executing(u, b) \/ WakingUp(u, b) => posted[b] = 0)'
    BY <1>11 DEF FinishBatch, LeaveExecute, enqVars
  <2>3. (\A u, v \in Threads : Executing(u, b) /\ Executing(v, b) => u = v)'
    BY <1>11 DEF FinishBatch, LeaveExecute, enqVars
  <2>4. (\A u, v \in Threads : WakingUp(u, b) /\ WakingUp(v, b) => u = v)'
    BY <1>11 DEF FinishBatch, LeaveExecute, enqVars
  <2>5. (\A u, v \in Threads : ~ (Executing(u, b) /\ WakingUp(v, b)))'
    BY <1>11 DEF FinishBatch, LeaveExecute, enqVars
  <2>6. (taskCount[b] > 0 <=> Held(b))'
    BY <1>11, taskCount' \in [Actors -> Nat] DEF FinishBatch, LeaveExecute, enqVars
  <2>7. (posted[b] <= 1)'
    BY <1>11 DEF FinishBatch, LeaveExecute, enqVars
  <2> QED BY <2>2, <2>3, <2>4, <2>5, <2>6, <2>7
<1>12. ASSUME NEW t \in Threads, YieldActor(t)
      PROVE  HandInv'
  BY <1>12 DEF YieldActor, PostEvent, LeaveExecute, enqVars
<1>13. ASSUME NEW t \in Threads, KeepActor(t)
      PROVE  HandInv'
  BY <1>13 DEF KeepActor, actorVars, enqVars
<1>14. CASE UNCHANGED vars
  BY <1>14 DEF vars, actorVars, enqVars, exeVars
<1> QED
  BY <1>1, <1>2, <1>3, <1>4, <1>5, <1>6, <1>7,
     <1>8, <1>9, <1>10, <1>11, <1>12, <1>13, <1>14, [Next]_vars
     DEF Next, Enqueue, Execute

(* No step changes what a counter counts behind the back of the counter:   *)
(* only a flush and a fetch_sub move the difference that CountInv tracks.  *)
LEMMA CountStep ==
  ASSUME ConstantsAssumption, TypeOK, HandInv, CountInv, [Next]_vars
  PROVE  CountInv'
<1> USE ConstantsAssumption
<1> DEFINE Settled(b) == /\ \A u \in Threads : Executing(u, b) => Uncounted(b) = flushed[u]
                         /\ (\A u \in Threads : ~ Executing(u, b)) => Uncounted(b) = 0
<1>a. ASSUME NEW b \in Actors
      PROVE  /\ Len(queue[b]) \in Nat /\ taskCount[b] \in Nat /\ Cardinality(Counting(b)) \in Nat
             /\ IsFiniteSet(Counting(b))
             /\ Uncounted(b) \in Int
  BY CountingIsFinite, TypeOK DEF TypeOK, ActorTypeOK, Uncounted
<1>b. ASSUME NEW b \in Actors PROVE Settled(b)
  BY CountInv DEF CountInv
<1>c. ASSUME NEW t \in Threads
      PROVE  /\ exePc[t] # "run" => flushed[t] = 0
             /\ exePc[t] = "idle" <=> curQueue[t] = NoActor
             /\ enqPc[t] = "idle" <=> enqActor[t] = NoActor
             /\ enqActor[t] \in Actors \cup {NoActor}
             /\ curQueue[t] \in Actors \cup {NoActor}
  BY TypeOK DEF TypeOK, EnqTypeOK, ExeTypeOK
<1>d. /\ enqPc \in [Threads -> {"idle", "counted", "swapped", "decide"}]
      /\ enqActor \in [Threads -> Actors \cup {NoActor}]
      /\ curQueue \in [Threads -> Actors \cup {NoActor}]
      /\ flushed \in [Threads -> Nat]
      /\ taskCount \in [Actors -> Nat]
      /\ queue \in [Actors -> Seq(TaskId)]
  BY TypeOK DEF TypeOK, ActorTypeOK, EnqTypeOK, ExeTypeOK
<1>e. ASSUME UNCHANGED <<taskCount, queue, curQueue, flushed>>,
             \A b \in Actors : Counting(b)' = Counting(b)
      PROVE  CountInv'
  BY <1>b, <1>e DEF CountInv, Uncounted, Executing
<1> HIDE DEF Settled
<1>1. ASSUME NEW t \in Threads, NEW a \in Actors, CountTask(t, a)
      PROVE  CountInv'
  <2>1. t \notin Counting(a) /\ Counting(a)' = Counting(a) \cup {t}
    BY <1>1, <1>d DEF CountTask, CanCall, Counting
  <2>2. Cardinality(Counting(a)') = Cardinality(Counting(a)) + 1
    BY <1>a, <2>1, FS_AddElement
  <2>3. \A b \in Actors \ {a} : Counting(b)' = Counting(b)
    BY <1>1, <1>c, <1>d DEF CountTask, CanCall, Counting
  <2>4. ASSUME NEW b \in Actors PROVE Uncounted(b)' = Uncounted(b)
    <3>1. CASE b = a
      <4>1. taskCount'[a] = taskCount[a] + 1 /\ UNCHANGED queue
        BY <1>1, <1>d DEF CountTask
      <4>2. Uncounted(a)' = taskCount'[a] - Len(queue'[a]) - Cardinality(Counting(a)')
        BY DEF Uncounted
      <4>3. Uncounted(a) = taskCount[a] - Len(queue[a]) - Cardinality(Counting(a))
        BY DEF Uncounted
      <4>4. taskCount[a] \in Nat /\ Len(queue[a]) \in Nat /\ Cardinality(Counting(a)) \in Nat
        BY <1>a
      <4> QED BY <2>2, <3>1, <4>1, <4>2, <4>3, <4>4
    <3>2. CASE b # a
      <4>1. taskCount'[b] = taskCount[b] /\ UNCHANGED queue
        BY <1>1, <1>d, <3>2 DEF CountTask
      <4> QED BY <2>3, <3>2, <4>1 DEF Uncounted
    <3> QED BY <3>1, <3>2
  <2> QED BY <1>1, <1>b, <2>4 DEF CountTask, exeVars, CountInv, Executing, Settled
<1>2. ASSUME NEW t \in Threads, SwapTail(t)
      PROVE  CountInv'
  <2> DEFINE a == enqActor[t]
  <2>1. a \in Actors /\ t \in Counting(a)
    BY <1>2, <1>c, <1>d DEF SwapTail, Counting
  <2>2. Counting(a)' = Counting(a) \ {t}
    BY <1>2, <1>d DEF SwapTail, Counting
  <2>3. Cardinality(Counting(a)') = Cardinality(Counting(a)) - 1
    <3>1. IsFiniteSet(Counting(a)) /\ t \in Counting(a)
      BY <1>a, <2>1
    <3> HIDE DEF a
    <3> QED BY <2>2, <3>1, FS_RemoveElement
  <2>4. \A b \in Actors \ {a} : Counting(b)' = Counting(b)
    BY <1>2, <1>d DEF SwapTail, Counting
  <2>5. Len(queue'[a]) = Len(queue[a]) + 1
    BY <1>2, <1>d, <2>1 DEF SwapTail
  <2>6. ASSUME NEW b \in Actors PROVE Uncounted(b)' = Uncounted(b)
    <3>1. CASE b = a
      BY SMTT(30), <1>2, <1>a, <2>3, <2>5, <3>1 DEF SwapTail, Uncounted
    <3>2. CASE b # a
      BY <1>2, <1>d, <2>1, <2>4, <3>2 DEF SwapTail, Uncounted
    <3> QED BY <3>1, <3>2
  <2> QED BY <1>2, <1>b, <2>6 DEF SwapTail, exeVars, CountInv, Executing, Settled
<1>3. ASSUME NEW t \in Threads, LinkNode(t)
      PROVE  CountInv'
  <2>1. \A b \in Actors : Counting(b)' = Counting(b)
    BY <1>3, <1>c, <1>d DEF LinkNode, ReturnFromEnqueue, Counting
  <2> QED BY <1>3, <1>e, <2>1 DEF LinkNode, actorVars, exeVars
<1>4. ASSUME NEW t \in Threads, ExecuteInline(t)
      PROVE  CountInv'
  <2> DEFINE a == enqActor[t]
  <2>1. a \in Actors /\ Held(a) /\ \A u \in Threads : ~ Executing(u, a)
    BY <1>4, <1>c, HandInv DEF ExecuteInline, HandInv, Held, WakingUp
  <2>2. curQueue' = [curQueue EXCEPT ![t] = a] /\ flushed[t] = 0 /\ curQueue[t] = NoActor
    BY <1>4, <1>c, <1>d DEF ExecuteInline, MayExecuteInline, EnterExecute
  <2>3. \A b \in Actors : Counting(b)' = Counting(b)
    BY <1>4, <1>c, <1>d DEF ExecuteInline, MayExecuteInline, EnterExecute, ReturnFromEnqueue, Counting
  <2>4. \A b \in Actors : Uncounted(b)' = Uncounted(b)
    BY <1>4, <2>3 DEF ExecuteInline, MayExecuteInline, EnterExecute, actorVars, Uncounted
  <2>5. UNCHANGED flushed
    BY <1>4 DEF ExecuteInline, MayExecuteInline, EnterExecute
  <2> QED BY <1>b, <1>d, <2>1, <2>2, <2>4, <2>5 DEF CountInv, Executing, Settled
<1>5. ASSUME NEW t \in Threads, PostTaskEvent(t)
      PROVE  CountInv'
  <2>1. \A b \in Actors : Counting(b)' = Counting(b)
    BY <1>5, <1>c, <1>d DEF PostTaskEvent, ReturnFromEnqueue, Counting
  <2> QED BY <1>5, <1>e, <2>1 DEF PostTaskEvent, exeVars
<1>6. ASSUME NEW t \in Threads, NEW a \in Actors, Dispatch(t, a)
      PROVE  CountInv'
  <2>1. \A u \in Threads : ~ Executing(u, a)
    BY <1>6, HandInv DEF Dispatch, HandInv
  <2>2. curQueue' = [curQueue EXCEPT ![t] = a] /\ flushed[t] = 0 /\ curQueue[t] = NoActor
    BY <1>6, <1>c, <1>d DEF Dispatch, EnterExecute
  <2>3. \A b \in Actors : Counting(b)' = Counting(b)
    BY <1>6 DEF Dispatch, enqVars, Counting
  <2>4. \A b \in Actors : Uncounted(b)' = Uncounted(b)
    BY <1>6, <2>3 DEF Dispatch, Uncounted
  <2>5. UNCHANGED flushed
    BY <1>6 DEF Dispatch, EnterExecute
  <2> QED BY <1>b, <1>d, <2>1, <2>2, <2>4, <2>5 DEF CountInv, Executing, Settled
<1>7. ASSUME NEW t \in Threads, Flush(t)
      PROVE  CountInv'
  <2>0. PICK a \in Actors : a = curQueue[t]
    BY <1>7, <1>c DEF Flush
  <2>1. Executing(t, a) /\ flushed[t] = 0
    BY <1>7, <1>c, <2>0 DEF Flush, Executing
  <2>2. PICK n \in 1..Len(queue[a]) :
          /\ queue' = [queue EXCEPT ![a] = SubSeq(@, n + 1, Len(@))]
          /\ flushed' = [flushed EXCEPT ![t] = n]
    BY <1>7, <2>0 DEF Flush
  <2>3. Len(queue'[a]) = Len(queue[a]) - n
    <3>1. queue[a] \in Seq(TaskId) /\ n \in 0..Len(queue[a])
      BY <1>d, <2>0, <2>1
    <3>2. Len(SubSeq(queue[a], n + 1, Len(queue[a]))) = Len(queue[a]) - n
      BY <3>1, FlushSplits
    <3> QED BY <1>d, <2>0, <2>1, <2>2, <3>2
  <2>4. \A b \in Actors : Counting(b)' = Counting(b)
    BY <1>7 DEF Flush, enqVars, Counting
  <2>5. Uncounted(a)' = n
    <3>1. Uncounted(a) = 0
      BY <1>b, <2>0, <2>1 DEF Settled
    <3>2. taskCount'[a] = taskCount[a] /\ n \in Nat
      BY <1>7, <1>a, <2>0, <2>1 DEF Flush
    <3>3. Uncounted(a)' = taskCount'[a] - Len(queue'[a]) - Cardinality(Counting(a))
      BY <2>4 DEF Uncounted
    <3>4. Uncounted(a) = taskCount[a] - Len(queue[a]) - Cardinality(Counting(a))
      BY DEF Uncounted
    <3>5. taskCount[a] \in Nat /\ Len(queue[a]) \in Nat /\ Cardinality(Counting(a)) \in Nat
      BY <1>a
    <3> QED BY SMTT(30), <2>3, <3>1, <3>2, <3>3, <3>4, <3>5
  <2>6. \A b \in Actors \ {a} : Uncounted(b)' = Uncounted(b)
    BY <1>7, <1>d, <2>0, <2>1, <2>2, <2>4 DEF Flush, Uncounted
  <2>7. \A u \in Threads : Executing(u, a) => u = t
    BY <2>0, <2>1, HandInv DEF HandInv
  <2>8. UNCHANGED curQueue
    BY <1>7 DEF Flush
  <2>9. ASSUME NEW b \in Actors PROVE Settled(b)'
    <3>1. CASE b = a
      BY <1>d, <2>0, <2>1, <2>2, <2>5, <2>7, <2>8, <3>1 DEF Settled, Executing
    <3>2. CASE b # a
      <4>1. \A u \in Threads : Executing(u, b) => flushed'[u] = flushed[u]
        BY <1>d, <2>0, <2>1, <2>2, <3>2 DEF Executing
      <4> QED BY <1>b, <2>6, <2>8, <3>2, <4>1 DEF Settled, Executing
    <3> QED BY <3>1, <3>2
  <2> QED BY <2>9 DEF Settled, CountInv
<1>8. ASSUME NEW t \in Threads, FlushNothing(t)
      PROVE  CountInv'
  <2>0. PICK a \in Actors : a = curQueue[t]
    BY <1>8, <1>c DEF FlushNothing
  <2>1. Executing(t, a) /\ flushed[t] = 0
    BY <1>8, <1>c, <2>0 DEF FlushNothing, Executing
  <2>2. Uncounted(a) = 0
    BY <1>b, <2>0, <2>1 DEF Settled
  <2>3. curQueue' = [curQueue EXCEPT ![t] = NoActor] /\ UNCHANGED flushed
    BY <1>8 DEF FlushNothing, LeaveExecute
  <2>4. \A b \in Actors : Uncounted(b)' = Uncounted(b)
    BY <1>8 DEF FlushNothing, enqVars, Uncounted, Counting
  <2>5. ASSUME NEW b \in Actors PROVE Settled(b)'
    <3>1. CASE b = a
      BY <1>b, <1>d, <2>0, <2>1, <2>2, <2>3, <2>4, <3>1 DEF Settled, Executing
    <3>2. CASE b # a
      BY <1>b, <1>d, <2>0, <2>3, <2>4, <3>2 DEF Settled, Executing
    <3> QED BY <3>1, <3>2
  <2> QED BY <2>5 DEF Settled, CountInv
<1>9. ASSUME NEW t \in Threads, BeginTask(t)
      PROVE  CountInv'
  <2>1. \A b \in Actors : Counting(b)' = Counting(b)
    BY <1>9 DEF BeginTask, enqVars, Counting
  <2> QED BY <1>9, <1>e, <2>1 DEF BeginTask, actorVars
<1>10. ASSUME NEW t \in Threads, EndTask(t)
      PROVE  CountInv'
  <2>1. \A b \in Actors : Counting(b)' = Counting(b)
    BY <1>10 DEF EndTask, enqVars, Counting
  <2> QED BY <1>10, <1>e, <2>1 DEF EndTask, actorVars
<1>11. ASSUME NEW t \in Threads, FinishBatch(t)
      PROVE  CountInv'
  <2>0. PICK a \in Actors : a = curQueue[t]
    BY <1>11, <1>c DEF FinishBatch
  <2>1. Executing(t, a)
    BY <1>11, <1>c, <2>0 DEF FinishBatch, Executing
  <2>2. Uncounted(a) = flushed[t] /\ flushed[t] \in Nat
    BY <1>b, <1>d, <2>0, <2>1 DEF Settled
  <2>3. \A b \in Actors : Counting(b)' = Counting(b)
    BY <1>11 DEF FinishBatch, enqVars, Counting
  <2>4. Uncounted(a)' = 0
    <3>1. taskCount'[a] = taskCount[a] - flushed[t] /\ UNCHANGED queue
      BY <1>11, <1>d, <2>0, <2>1 DEF FinishBatch
    <3> QED BY SMTT(30), <1>a, <2>0, <2>1, <2>2, <2>3, <3>1 DEF Uncounted
  <2>5. \A b \in Actors \ {a} : Uncounted(b)' = Uncounted(b)
    BY <1>11, <1>d, <2>0, <2>1, <2>3 DEF FinishBatch, Uncounted
  <2>6. flushed' = [flushed EXCEPT ![t] = 0]
        /\ (curQueue' = curQueue \/ curQueue' = [curQueue EXCEPT ![t] = NoActor])
    BY <1>11 DEF FinishBatch, LeaveExecute
  <2>7. \A u \in Threads : Executing(u, a) => u = t
    BY <2>0, <2>1, HandInv DEF HandInv
  <2>8. ASSUME NEW b \in Actors PROVE Settled(b)'
    <3>1. CASE b = a
      BY <1>d, <2>0, <2>1, <2>4, <2>6, <2>7, <3>1 DEF Settled, Executing
    <3>2. CASE b # a
      BY <1>b, <1>d, <2>0, <2>1, <2>5, <2>6, <3>2 DEF Settled, Executing
    <3> QED BY <3>1, <3>2
  <2> QED BY <2>8 DEF Settled, CountInv
<1>12. ASSUME NEW t \in Threads, YieldActor(t)
      PROVE  CountInv'
  <2>0. PICK a \in Actors : a = curQueue[t]
    BY <1>12, <1>c DEF YieldActor
  <2>1. Executing(t, a) /\ flushed[t] = 0
    BY <1>12, <1>c, <2>0 DEF YieldActor, Executing
  <2>2. Uncounted(a) = 0
    BY <1>b, <2>0, <2>1 DEF Settled
  <2>3. curQueue' = [curQueue EXCEPT ![t] = NoActor] /\ UNCHANGED flushed
    BY <1>12 DEF YieldActor, LeaveExecute
  <2>4. \A b \in Actors : Uncounted(b)' = Uncounted(b)
    BY <1>12 DEF YieldActor, enqVars, Uncounted, Counting
  <2>5. ASSUME NEW b \in Actors PROVE Settled(b)'
    <3>1. CASE b = a
      BY <1>b, <1>d, <2>0, <2>1, <2>2, <2>3, <2>4, <3>1 DEF Settled, Executing
    <3>2. CASE b # a
      BY <1>b, <1>d, <2>0, <2>3, <2>4, <3>2 DEF Settled, Executing
    <3> QED BY <3>1, <3>2
  <2> QED BY <2>5 DEF Settled, CountInv
<1>13. ASSUME NEW t \in Threads, KeepActor(t)
      PROVE  CountInv'
  <2>1. \A b \in Actors : Counting(b)' = Counting(b)
    BY <1>13 DEF KeepActor, enqVars, Counting
  <2> QED BY <1>13, <1>e, <2>1 DEF KeepActor, actorVars
<1>14. CASE UNCHANGED vars
  <2>1. \A b \in Actors : Counting(b)' = Counting(b)
    BY <1>14 DEF vars, enqVars, Counting
  <2> QED BY <1>14, <1>e, <2>1 DEF vars, actorVars, exeVars
<1> QED
  BY <1>1, <1>2, <1>3, <1>4, <1>5, <1>6, <1>7,
     <1>8, <1>9, <1>10, <1>11, <1>12, <1>13, <1>14, [Next]_vars
     DEF Next, Enqueue, Execute

-----------------------------------------------------------------------------
LEMMA InitIsInductive ==
  ASSUME ConstantsAssumption, Init
  PROVE  IInv
<1>1. TypeOK
  BY ConstantsAssumption DEF Init, TypeOK, ActorTypeOK, EnqTypeOK, ExeTypeOK, NoTask, TaskId
<1>2. HandInv
  BY ConstantsAssumption DEF Init, HandInv, Held, Executing, WakingUp
<1>3. CountInv
  <2>1. \A a \in Actors : Counting(a) = {}
    BY DEF Init, Counting
  <2>2. \A a \in Actors : Uncounted(a) = 0 /\ \A t \in Threads : flushed[t] = 0
    <3>1. Cardinality({}) = 0
      BY FS_EmptySet
    <3>2. \A a \in Actors : taskCount[a] = 0 /\ Len(queue[a]) = 0
      BY DEF Init
    <3>3. \A t \in Threads : flushed[t] = 0
      BY DEF Init
    <3>4. \A a \in Actors : Uncounted(a) = 0 - 0 - 0
      BY <2>1, <3>1, <3>2 DEF Uncounted
    <3> QED BY <3>3, <3>4
  <2> QED BY <2>2 DEF CountInv
<1> QED BY <1>1, <1>2, <1>3 DEF IInv

(* The invariant holds in every reachable state.                           *)
THEOREM Invariance == SafetySpec => []IInv
<1>1. Init => IInv
  BY ConstantsAssumption, InitIsInductive
<1>2. IInv /\ [Next]_vars => IInv'
  <2> SUFFICES ASSUME IInv, [Next]_vars PROVE IInv'
    OBVIOUS
  <2>1. TypeOK'
    BY ConstantsAssumption, IInv, TypeStep DEF IInv
  <2>2. HandTypes
    BY DEF IInv, HandTypes, TypeOK, ActorTypeOK, EnqTypeOK, ExeTypeOK
  <2>3. HandInv'
    BY ConstantsAssumption, <2>1, <2>2, HandStep DEF IInv, TypeOK, ActorTypeOK
  <2>4. CountInv'
    BY ConstantsAssumption, CountStep DEF IInv
  <2> QED BY <2>1, <2>3, <2>4 DEF IInv
<1> QED BY <1>1, <1>2, PTL DEF SafetySpec

(* Every variable keeps its type; in particular no counter ever goes below *)
(* zero.                                                                   *)
THEOREM TypeCorrect == SafetySpec => []TypeOK
<1>1. IInv => TypeOK
  BY DEF IInv
<1> QED BY <1>1, Invariance, PTL

(* No two threads ever execute the same actor: what lets the contents layer *)
(* touch a sector's lists from its tasks without a lock (Execute).         *)
SingleExecutor ==
  \A a \in Actors : \A t, u \in Executors(a) : t = u

(* One hand at most leaves room for one executor.                          *)
THEOREM MutualExclusion == SafetySpec => []SingleExecutor
<1>1. IInv => SingleExecutor
  BY DEF IInv, HandInv, SingleExecutor, Executors, Executing
<1> QED BY <1>1, Invariance, PTL

(* A busy actor is in exactly one pair of hands, an idle one in none.      *)
THEOREM ExactlyOneHand == SafetySpec => []OneHandPerBusyActor
<1>1. IInv => OneHandPerBusyActor
  <2> SUFFICES ASSUME IInv, NEW a \in Actors
               PROVE  Hands(a) = IF taskCount[a] > 0 THEN 1 ELSE 0
    BY DEF OneHandPerBusyActor
  <2>1. posted[a] \in Nat /\ posted[a] <= 1 /\ (taskCount[a] > 0 <=> Held(a))
    BY DEF IInv, TypeOK, ActorTypeOK, HandInv
  <2>2. CASE \E t \in Threads : Executing(t, a)
    <3>1. PICK t \in Threads : Executing(t, a)
      BY <2>2
    <3>2. Executors(a) = {t} /\ Waking(a) = {} /\ posted[a] = 0 /\ taskCount[a] > 0
      BY <3>1 DEF IInv, HandInv, Held, Executors, Waking, Executing, WakingUp
    <3>3. Cardinality(Executors(a)) = 1 /\ Cardinality(Waking(a)) = 0
      BY <3>2, FS_Singleton, FS_EmptySet
    <3> QED BY <3>2, <3>3 DEF Hands
  <2>3. CASE \E t \in Threads : WakingUp(t, a)
    <3>1. PICK t \in Threads : WakingUp(t, a)
      BY <2>3
    <3>2. Waking(a) = {t} /\ Executors(a) = {} /\ posted[a] = 0 /\ taskCount[a] > 0
      BY <3>1 DEF IInv, HandInv, Held, Executors, Waking, Executing, WakingUp
    <3>3. Cardinality(Executors(a)) = 0 /\ Cardinality(Waking(a)) = 1
      BY <3>2, FS_Singleton, FS_EmptySet
    <3> QED BY <3>2, <3>3 DEF Hands
  <2>4. CASE \A t \in Threads : ~ Executing(t, a) /\ ~ WakingUp(t, a)
    <3>1. Executors(a) = {} /\ Waking(a) = {}
      BY <2>4 DEF Executors, Waking, Executing, WakingUp
    <3>2. Cardinality(Executors(a)) = 0 /\ Cardinality(Waking(a)) = 0
      BY <3>1, FS_EmptySet
    <3>3. taskCount[a] > 0 <=> posted[a] = 1
      BY <2>1, <2>4 DEF Held
    <3> QED BY <2>1, <3>2, <3>3 DEF Hands
  <2> QED BY <2>2, <2>3, <2>4
<1> QED BY <1>1, Invariance, PTL

(* m_taskCount counts exactly the tasks that still have to be run.         *)
THEOREM ExactCount == SafetySpec => []CountIsExact
<1>1. IInv => CountIsExact
  <2> SUFFICES ASSUME IInv, NEW a \in Actors
               PROVE  taskCount[a] = InFlight(a)
    BY DEF CountIsExact
  <2>1. /\ taskCount[a] \in Nat /\ Len(queue[a]) \in Nat
        /\ Cardinality(Counting(a)) \in Nat
    BY ConstantsAssumption, CountingIsFinite DEF IInv, TypeOK, ActorTypeOK
  <2>2. CASE \E t \in Threads : Executing(t, a)
    <3>1. PICK t \in Threads : Executing(t, a)
      BY <2>2
    <3>2. Executors(a) = {t}
      BY <3>1 DEF IInv, HandInv, Executors, Executing
    <3>3. {flushed[u] : u \in Executors(a)} = {flushed[t]}
      BY <3>2
    <3>4. (CHOOSE n \in {flushed[u] : u \in Executors(a)} : TRUE) = flushed[t]
      BY <3>3
    <3>5. InFlight(a) = Len(queue[a]) + Cardinality(Counting(a)) + flushed[t]
      BY <3>3, <3>4 DEF InFlight
    <3>6. Uncounted(a) = flushed[t] /\ flushed[t] \in Nat
      BY <3>1 DEF IInv, CountInv, TypeOK, ExeTypeOK
    <3> QED BY <2>1, <3>5, <3>6 DEF Uncounted
  <2>3. CASE \A t \in Threads : ~ Executing(t, a)
    <3>1. Executors(a) = {}
      BY <2>3 DEF Executors, Executing
    <3>2. InFlight(a) = Len(queue[a]) + Cardinality(Counting(a)) + 0
      BY <3>1 DEF InFlight
    <3>3. Uncounted(a) = 0
      BY <2>3 DEF IInv, CountInv
    <3> QED BY <2>1, <3>2, <3>3 DEF Uncounted
  <2> QED BY <2>2, <2>3
<1> QED BY <1>1, Invariance, PTL

-----------------------------------------------------------------------------
(* The refinement of SerialMailbox.  Beyond the hands of the actor it needs *)
(* that no two calls in progress carry the same task and that their tasks  *)
(* are numbers already issued: then the swap of a tail submits a task that *)
(* was not submitted before.                                               *)
NumberInv ==
  /\ \A t \in Threads : enqTask[t] <= issued
  /\ \A t, u \in Threads : enqTask[t] = enqTask[u] /\ enqTask[t] # NoTask => t = u

LEMMA NumberInvariance == SafetySpec => []NumberInv
<1>1. Init => NumberInv
  BY DEF Init, NumberInv, NoTask
<1>2. TypeOK /\ NumberInv /\ [Next]_vars => NumberInv'
  <2> SUFFICES ASSUME TypeOK, NumberInv, [Next]_vars PROVE NumberInv'
    OBVIOUS
  <2> DEFINE Fresh(t) == enqTask' = [enqTask EXCEPT ![t] = issued + 1] /\ issued' = issued + 1
             Freed(t) == enqTask' = [enqTask EXCEPT ![t] = NoTask] /\ issued' = issued
             Same     == enqTask' = enqTask /\ issued' = issued
  <2>1. (\E t \in Threads : Fresh(t) \/ Freed(t)) \/ Same
    <3>1. ASSUME NEW t \in Threads, Enqueue(t) PROVE Freed(t) \/ Same
      BY <3>1 DEF Enqueue, SwapTail, LinkNode, ReturnFromEnqueue, ExecuteInline, PostTaskEvent,
                  actorVars
    <3>2. ASSUME NEW t \in Threads, Execute(t) PROVE Same
      BY <3>2 DEF Execute, Flush, FlushNothing, BeginTask, EndTask, FinishBatch, YieldActor,
                  KeepActor, actorVars, enqVars
    <3>3. ASSUME NEW t \in Threads, NEW a \in Actors, CountTask(t, a) PROVE Fresh(t)
      BY <3>3 DEF CountTask
    <3>4. ASSUME NEW t \in Threads, NEW a \in Actors, Dispatch(t, a) PROVE Same
      BY <3>4 DEF Dispatch, enqVars
    <3>5. CASE UNCHANGED vars
      BY <3>5 DEF vars, actorVars, enqVars
    <3> QED BY <3>1, <3>2, <3>3, <3>4, <3>5, [Next]_vars DEF Next
  <2>2. issued \in Nat /\ \A t \in Threads : enqTask[t] \in Nat
    BY ConstantsAssumption DEF TypeOK, ActorTypeOK, EnqTypeOK, TaskId, NoTask
  <2>3. DOMAIN enqTask = Threads
    BY DEF TypeOK, EnqTypeOK
  <2>4. ASSUME NEW t \in Threads, Fresh(t) PROVE NumberInv'
    <3>1. \A u \in Threads : enqTask[u] < issued + 1
      BY <2>2 DEF NumberInv
    <3>2. \A u \in Threads : enqTask'[u] = IF u = t THEN issued + 1 ELSE enqTask[u]
      BY <2>3, <2>4
    <3>3. (\A u \in Threads : enqTask[u] <= issued)'
      BY <2>2, <2>4, <3>1, <3>2
    <3>4. \A u, v \in Threads : enqTask'[u] = enqTask'[v] /\ enqTask'[u] # NoTask => u = v
      BY <2>2, <3>1, <3>2 DEF NumberInv
    <3> QED BY <3>3, <3>4 DEF NumberInv, NoTask
  <2>5. ASSUME NEW t \in Threads, Freed(t) PROVE NumberInv'
    BY <2>2, <2>3, <2>5 DEF NumberInv, NoTask
  <2>6. ASSUME Same PROVE NumberInv'
    BY <2>6 DEF NumberInv, NoTask
  <2> QED BY <2>1, <2>4, <2>5, <2>6
<1>3. IInv => TypeOK
  BY DEF IInv
<1> QED BY <1>1, <1>2, <1>3, Invariance, PTL DEF SafetySpec

(* What Flush took and what it left are the queue again, and the head of a *)
(* non-empty batch is the head of the mailbox.                             *)
LEMMA FlushedThenRest ==
  ASSUME NEW S, NEW q \in Seq(S), NEW n \in 0..Len(q)
  PROVE  SubSeq(q, 1, n) \o SubSeq(q, n + 1, Len(q)) = q
<1>1. 1 \in 1..(Len(q) + 1) /\ n \in (1 - 1)..Len(q) /\ Len(q) \in n..Len(q)
  OBVIOUS
<1>2. SubSeq(q, 1, n) \o SubSeq(q, n + 1, Len(q)) = SubSeq(q, 1, Len(q))
  BY <1>1, ConcatAdjacentSubSeq
<1> QED BY <1>2, SubSeqFull

LEMMA HeadOfBatch ==
  ASSUME NEW S, NEW vec \in Seq(S), NEW q \in Seq(S), vec # <<>>
  PROVE  /\ vec \o q # <<>>
         /\ Head(vec \o q) = Head(vec)
         /\ Tail(vec \o q) = Tail(vec) \o q
OBVIOUS

(* The mailbox of an actor, seen through the thread that executes it, and  *)
(* of an actor none of whose executors has a task in hand.                 *)
Resting(t) == taskVec[t] = <<>> /\ current[t] = NoTask
MailboxView ==
  \A a \in Actors :
    /\ \A t \in Threads : Executing(t, a) =>
         /\ Pending(a) = taskVec[t] \o queue[a]
         /\ Started(a) = {current[t]} \ {NoTask}
    /\ (\A t \in Threads : Executing(t, a) => Resting(t)) =>
         /\ Pending(a) = queue[a]
         /\ Started(a) = {}

LEMMA MailboxOfActor == IInv => MailboxView
<1> SUFFICES ASSUME IInv, NEW a \in Actors
             PROVE  /\ \A t \in Threads : Executing(t, a) =>
                         /\ Pending(a) = taskVec[t] \o queue[a]
                         /\ Started(a) = {current[t]} \ {NoTask}
                    /\ (\A t \in Threads : Executing(t, a) => Resting(t)) =>
                         /\ Pending(a) = queue[a]
                         /\ Started(a) = {}
  BY DEF MailboxView
<1>1. ASSUME NEW t \in Threads, Executing(t, a)
      PROVE  Pending(a) = taskVec[t] \o queue[a] /\ Started(a) = {current[t]} \ {NoTask}
  <2>1. Executors(a) = {t}
    BY <1>1 DEF IInv, HandInv, Executors, Executing
  <2> QED BY <2>1 DEF Pending, Started
<1>2. ASSUME \A t \in Threads : Executing(t, a) => Resting(t)
      PROVE  Pending(a) = queue[a] /\ Started(a) = {}
  <2>1. queue[a] \in Seq(TaskId)
    BY DEF IInv, TypeOK, ActorTypeOK
  <2>2. <<>> \o queue[a] = queue[a]
    BY <2>1
  <2>3. CASE \E t \in Threads : Executing(t, a)
    BY <1>1, <1>2, <2>2, <2>3 DEF Resting
  <2>4. CASE \A t \in Threads : ~ Executing(t, a)
    <3>1. Executors(a) = {}
      BY <2>4 DEF Executors, Executing
    <3> QED BY <2>2, <3>1 DEF Pending, Started
  <2> QED BY <2>3, <2>4
<1> QED BY <1>1, <1>2

(* An actor whose executor, batch and queue a step leaves alone keeps its  *)
(* mailbox, and so does one that only changes hands between tasks.         *)
SameMailbox(a) == UNCHANGED <<Pending(a), Started(a)>>

LEMMA UntouchedActor ==
  ASSUME MailboxView, MailboxView', NEW a \in Actors,
         UNCHANGED queue[a],
         \A t \in Threads : curQueue'[t] = a <=> curQueue[t] = a,
         \A t \in Threads : curQueue[t] = a => UNCHANGED <<taskVec[t], current[t]>>
  PROVE  SameMailbox(a)
<1>1. CASE \E t \in Threads : Executing(t, a)
  <2>1. PICK t \in Threads : Executing(t, a)
    BY <1>1
  <2>2. /\ Pending(a) = taskVec[t] \o queue[a]
        /\ Started(a) = {current[t]} \ {NoTask}
    BY <2>1 DEF MailboxView
  <2>3. /\ Pending(a)' = taskVec'[t] \o queue'[a]
        /\ Started(a)' = {current'[t]} \ {NoTask}
    BY <2>1 DEF MailboxView, Executing, NoTask
  <2>4. taskVec'[t] = taskVec[t] /\ current'[t] = current[t] /\ queue'[a] = queue[a]
    BY <2>1 DEF Executing
  <2> QED BY <2>2, <2>3, <2>4 DEF SameMailbox
<1>2. CASE \A t \in Threads : ~ Executing(t, a)
  <2>1. Pending(a) = queue[a] /\ Started(a) = {}
    BY <1>2 DEF MailboxView
  <2>2. Pending(a)' = queue'[a] /\ Started(a)' = {}
    BY <1>2 DEF MailboxView, Executing
  <2> QED BY <2>1, <2>2 DEF SameMailbox
<1> QED BY <1>1, <1>2

LEMMA RestingActor ==
  ASSUME MailboxView, MailboxView', NEW a \in Actors,
         UNCHANGED queue[a],
         \A t \in Threads : curQueue[t] = a => Resting(t),
         \A t \in Threads : curQueue'[t] = a => Resting(t)'
  PROVE  SameMailbox(a)
<1>1. Pending(a) = queue[a] /\ Started(a) = {}
  BY DEF MailboxView, Executing
<1>2. Pending(a)' = queue'[a] /\ Started(a)' = {}
  BY DEF MailboxView, Executing
<1> QED BY <1>1, <1>2 DEF SameMailbox

(* The tasks whose node is in a queue or has been.                         *)
Submitted == (1..issued) \ {enqTask[t] : t \in {u \in Threads : enqPc[u] = "counted"}}

LEMMA StutteringStep ==
  ASSUME UNCHANGED Submitted, \A a \in Actors : SameMailbox(a)
  PROVE  UNCHANGED Mailbox!mailboxVars
<1>1. [a \in Actors |-> Pending(a)]' = [a \in Actors |-> Pending(a)]
  BY DEF SameMailbox
<1>2. [a \in Actors |-> Started(a)]' = [a \in Actors |-> Started(a)]
  BY DEF SameMailbox
<1> QED BY <1>1, <1>2 DEF Mailbox!mailboxVars, Submitted

(* Between the count and the swap a task is issued but not submitted, so   *)
(* counting submits nothing, and neither does any step after the swap.     *)
LEMMA NothingSubmitted ==
  ASSUME TypeOK, NumberInv,
         NEW t \in Threads,
         \/ /\ enqPc[t] # "counted"
            /\ issued' = issued + 1
            /\ enqPc' = [enqPc EXCEPT ![t] = "counted"]
            /\ enqTask' = [enqTask EXCEPT ![t] = issued + 1]
         \/ /\ enqPc[t] # "counted" /\ enqPc'[t] # "counted"
            /\ issued' = issued
            /\ \A u \in Threads \ {t} : UNCHANGED <<enqPc[u], enqTask[u]>>
         \/ UNCHANGED <<issued, enqPc, enqTask>>
  PROVE  UNCHANGED Submitted
<1> DEFINE counted == {u \in Threads : enqPc[u] = "counted"}
<1>1. issued \in Nat /\ \A u \in Threads : enqTask[u] \in Nat /\ enqTask[u] <= issued
  BY ConstantsAssumption DEF TypeOK, ActorTypeOK, EnqTypeOK, TaskId, NoTask, NumberInv
<1>2. DOMAIN enqPc = Threads /\ DOMAIN enqTask = Threads
  BY DEF TypeOK, EnqTypeOK
<1>3. CASE /\ enqPc[t] # "counted"
           /\ issued' = issued + 1
           /\ enqPc' = [enqPc EXCEPT ![t] = "counted"]
           /\ enqTask' = [enqTask EXCEPT ![t] = issued + 1]
  <2>1. counted' = counted \cup {t}
    BY <1>2, <1>3
  <2>2. \A u \in Threads : enqTask'[u] = IF u = t THEN issued + 1 ELSE enqTask[u]
    BY <1>2, <1>3
  <2>3. {enqTask[u] : u \in counted}' = {enqTask[u] : u \in counted} \cup {issued + 1}
    <3>1. {enqTask[u] : u \in counted}' = {enqTask'[u] : u \in counted \cup {t}}
      BY <2>1
    <3>2. t \notin counted
      BY <1>3
    <3> QED BY <2>2, <3>1, <3>2
  <2>4. (1..issued)' = (1..issued) \cup {issued + 1} /\ issued + 1 \notin 1..issued
    BY <1>1, <1>3
  <2> QED BY <2>3, <2>4 DEF Submitted
<1>4. CASE /\ enqPc[t] # "counted" /\ enqPc'[t] # "counted"
           /\ issued' = issued
           /\ \A u \in Threads \ {t} : UNCHANGED <<enqPc[u], enqTask[u]>>
  <2>1. counted' = counted /\ t \notin counted
    BY <1>4
  <2>2. \A u \in counted : enqTask'[u] = enqTask[u]
    BY <1>4, <2>1
  <2> QED BY <1>4, <2>1, <2>2 DEF Submitted
<1>5. CASE UNCHANGED <<issued, enqPc, enqTask>>
  BY <1>5 DEF Submitted
<1> QED BY <1>3, <1>4, <1>5

(* Every step of the actors is a step of the mailbox or leaves it alone.   *)
LEMMA MailboxStep ==
  ASSUME IInv, IInv', NumberInv, MailboxView, MailboxView', [Next]_vars
  PROVE  [Mailbox!Next]_Mailbox!mailboxVars
<1>t. TypeOK /\ TypeOK'
  BY DEF IInv
<1>q. /\ queue \in [Actors -> Seq(TaskId)]
      /\ queue' \in [Actors -> Seq(TaskId)]
      /\ taskVec \in [Threads -> Seq(TaskId)]
      /\ current \in [Threads -> TaskId \cup {NoTask}]
      /\ curQueue \in [Threads -> Actors \cup {NoActor}]
      /\ NoActor \notin Actors
  BY <1>t, ConstantsAssumption DEF TypeOK, ActorTypeOK, ExeTypeOK
<1>r. /\ \A t \in Threads : exePc[t] # "run" => Resting(t)
      /\ \A t \in Threads : exePc'[t] # "run" => Resting(t)'
  BY <1>t DEF TypeOK, ExeTypeOK, Resting, NoTask
<1>o. \A a \in Actors : \A t, u \in Threads : curQueue[t] = a /\ curQueue[u] = a => t = u
  BY DEF IInv, HandInv, Executing
<1>p. \A a \in Actors : \A t, u \in Threads : curQueue'[t] = a /\ curQueue'[u] = a => t = u
  BY DEF IInv, HandInv, Executing
<1>s. ASSUME UNCHANGED Submitted, \A a \in Actors : SameMailbox(a)
      PROVE  [Mailbox!Next]_Mailbox!mailboxVars
  BY <1>s, StutteringStep
<1>e. ASSUME UNCHANGED <<queue, exeVars>>
      PROVE  \A a \in Actors : SameMailbox(a)
  BY <1>e, UntouchedActor DEF exeVars
<1>n. ASSUME UNCHANGED <<issued, enqVars>>
      PROVE  UNCHANGED Submitted
  BY <1>n DEF Submitted, enqVars
<1>1. ASSUME NEW t \in Threads, NEW a \in Actors, CountTask(t, a)
      PROVE  [Mailbox!Next]_Mailbox!mailboxVars
  <2>1. \A b \in Actors : SameMailbox(b)
    BY <1>1, <1>e DEF CountTask
  <2>2. UNCHANGED Submitted
    BY <1>1, <1>t, NothingSubmitted DEF CountTask, CanCall
  <2> QED BY <2>1, <2>2, <1>s
<1>2. ASSUME NEW t \in Threads, SwapTail(t)
      PROVE  [Mailbox!Next]_Mailbox!mailboxVars
  <2>1. PICK a \in Actors, k \in TaskId : a = enqActor[t] /\ k = enqTask[t] /\ k # NoTask
    BY <1>2, <1>t DEF SwapTail, TypeOK, EnqTypeOK
  <2>2. k \in 1..issued
    BY <2>1, <1>t DEF NumberInv, TypeOK, ActorTypeOK, TaskId
  <2> DEFINE counted == {u \in Threads : enqPc[u] = "counted"}
  <2>3. counted' = counted \ {t} /\ t \in counted /\ UNCHANGED <<issued, enqTask>>
    BY <1>2, <1>t DEF SwapTail, TypeOK, EnqTypeOK
  <2>4. k \notin Submitted
    BY <2>1, <2>3 DEF Submitted
  <2>5. Submitted' = Submitted \cup {k}
    <3>1. {enqTask[u] : u \in counted}' = {enqTask[u] : u \in counted} \ {k}
      <4>1. \A u \in counted : enqTask[u] = k => u = t
        BY <2>1 DEF NumberInv
      <4> QED BY <2>1, <2>3, <4>1
    <3> QED BY <2>2, <2>3, <3>1 DEF Submitted
  <2>6. \A b \in Actors \ {a} : SameMailbox(b)
    <3>1. \A b \in Actors \ {a} : UNCHANGED queue[b]
      BY <1>2, <1>q, <2>1 DEF SwapTail
    <3> QED BY <1>2, <3>1, UntouchedActor DEF SwapTail, exeVars
  <2>7. Pending(a)' = Append(Pending(a), k) /\ Started(a)' = Started(a)
    <3>1. queue'[a] = Append(queue[a], k) /\ UNCHANGED <<curQueue, taskVec, current>>
      BY <1>2, <1>q, <2>1 DEF SwapTail, exeVars
    <3>2. CASE \E u \in Threads : Executing(u, a)
      <4>1. PICK u \in Threads : Executing(u, a)
        BY <3>2
      <4>2. Pending(a) = taskVec[u] \o queue[a] /\ Started(a) = {current[u]} \ {NoTask}
        BY <2>1, <4>1 DEF MailboxView
      <4>3. Pending(a)' = taskVec[u] \o queue'[a] /\ Started(a)' = {current[u]} \ {NoTask}
        BY <2>1, <3>1, <4>1 DEF MailboxView, Executing, NoTask
      <4>4. taskVec[u] \o Append(queue[a], k) = Append(taskVec[u] \o queue[a], k)
        BY <1>q, <2>1
      <4> QED BY <3>1, <4>2, <4>3, <4>4
    <3>3. CASE \A u \in Threads : ~ Executing(u, a)
      <4>1. Pending(a) = queue[a] /\ Started(a) = {}
        BY <2>1, <3>3 DEF MailboxView
      <4>2. Pending(a)' = queue'[a] /\ Started(a)' = {}
        BY <2>1, <3>1, <3>3 DEF MailboxView, Executing
      <4> QED BY <3>1, <4>1, <4>2
    <3> QED BY <3>2, <3>3
  <2>8. Mailbox!Submit(a, k)
    <3>1. [b \in Actors |-> Pending(b)]'
            = [[b \in Actors |-> Pending(b)] EXCEPT ![a] = Append(@, k)]
      BY <2>1, <2>6, <2>7 DEF SameMailbox
    <3>2. [b \in Actors |-> Started(b)]' = [b \in Actors |-> Started(b)]
      BY <2>6, <2>7 DEF SameMailbox
    <3> QED BY <2>4, <2>5, <3>1, <3>2 DEF Mailbox!Submit, Submitted
  <2> QED BY <2>1, <2>8 DEF Mailbox!Next
<1>3. ASSUME NEW t \in Threads, LinkNode(t)
      PROVE  [Mailbox!Next]_Mailbox!mailboxVars
  <2>1. \A b \in Actors : SameMailbox(b)
    BY <1>3, <1>e DEF LinkNode, actorVars
  <2>2. UNCHANGED Submitted
    <3>1. enqPc[t] # "counted" /\ enqPc'[t] # "counted" /\ issued' = issued
      BY <1>3, <1>t DEF LinkNode, ReturnFromEnqueue, actorVars, TypeOK, EnqTypeOK
    <3>2. \A u \in Threads \ {t} : UNCHANGED <<enqPc[u], enqTask[u]>>
      BY <1>3, <1>t DEF LinkNode, ReturnFromEnqueue, TypeOK, EnqTypeOK
    <3> QED BY <1>t, <3>1, <3>2, NothingSubmitted
  <2> QED BY <2>1, <2>2, <1>s
<1>4. ASSUME NEW t \in Threads, ExecuteInline(t)
      PROVE  [Mailbox!Next]_Mailbox!mailboxVars
  <2>1. /\ exePc' = [exePc EXCEPT ![t] = "flush"]
        /\ curQueue' = [curQueue EXCEPT ![t] = enqActor[t]]
        /\ curQueue[t] = NoActor
        /\ UNCHANGED <<queue, taskVec, current>>
    BY <1>4 DEF ExecuteInline, EnterExecute, MayExecuteInline, actorVars
  <2>2. ASSUME NEW b \in Actors PROVE SameMailbox(b)
    <3>1. CASE b = enqActor[t]
      <4>1. enqActor[t] \in Actors /\ taskCount[b] > 0 /\ WakingUp(t, b)
        BY <1>4, <1>t, <3>1 DEF ExecuteInline, IInv, HandInv, Held, WakingUp, TypeOK, EnqTypeOK
      <4>2. \A u \in Threads : curQueue[u] # b
        BY <4>1 DEF IInv, HandInv, Executing
      <4>3. \A u \in Threads : curQueue'[u] = b => u = t
        BY <1>q, <2>1, <4>2
      <4>4. Resting(t)'
        BY <1>r, <1>t, <2>1 DEF TypeOK, ExeTypeOK
      <4> QED BY <2>1, <4>2, <4>3, <4>4, RestingActor
    <3>2. CASE b # enqActor[t]
      BY <1>q, <2>1, <3>2, UntouchedActor
    <3> QED BY <3>1, <3>2
  <2>3. UNCHANGED Submitted
    <3>1. enqPc[t] # "counted" /\ enqPc'[t] # "counted" /\ issued' = issued
      BY <1>4, <1>t DEF ExecuteInline, ReturnFromEnqueue, actorVars, TypeOK, EnqTypeOK
    <3>2. \A u \in Threads \ {t} : UNCHANGED <<enqPc[u], enqTask[u]>>
      BY <1>4, <1>t DEF ExecuteInline, ReturnFromEnqueue, TypeOK, EnqTypeOK
    <3> QED BY <1>t, <3>1, <3>2, NothingSubmitted
  <2> QED BY <2>2, <2>3, <1>s
<1>5. ASSUME NEW t \in Threads, PostTaskEvent(t)
      PROVE  [Mailbox!Next]_Mailbox!mailboxVars
  <2>1. \A b \in Actors : SameMailbox(b)
    BY <1>5, <1>e DEF PostTaskEvent
  <2>2. UNCHANGED Submitted
    <3>1. enqPc[t] # "counted" /\ enqPc'[t] # "counted" /\ issued' = issued
      BY <1>5, <1>t DEF PostTaskEvent, ReturnFromEnqueue, TypeOK, EnqTypeOK
    <3>2. \A u \in Threads \ {t} : UNCHANGED <<enqPc[u], enqTask[u]>>
      BY <1>5, <1>t DEF PostTaskEvent, ReturnFromEnqueue, TypeOK, EnqTypeOK
    <3> QED BY <1>t, <3>1, <3>2, NothingSubmitted
  <2> QED BY <2>1, <2>2, <1>s
<1>6. ASSUME NEW t \in Threads, NEW a \in Actors, Dispatch(t, a)
      PROVE  [Mailbox!Next]_Mailbox!mailboxVars
  <2>1. /\ exePc' = [exePc EXCEPT ![t] = "flush"]
        /\ curQueue' = [curQueue EXCEPT ![t] = a]
        /\ curQueue[t] = NoActor
        /\ UNCHANGED <<queue, taskVec, current>>
    BY <1>6, <1>t DEF Dispatch, EnterExecute, TypeOK, ExeTypeOK
  <2>2. ASSUME NEW b \in Actors PROVE SameMailbox(b)
    <3>1. CASE b = a
      <4>1. posted[a] # 0
        BY <1>6, <1>t DEF Dispatch, TypeOK, ActorTypeOK
      <4>2. \A u \in Threads : curQueue[u] # b
        BY <3>1, <4>1 DEF IInv, HandInv, Executing
      <4>3. \A u \in Threads : curQueue'[u] = b => u = t
        BY <1>q, <2>1, <4>2
      <4>4. Resting(t)'
        BY <1>r, <1>t, <2>1 DEF TypeOK, ExeTypeOK
      <4> QED BY <2>1, <4>2, <4>3, <4>4, RestingActor
    <3>2. CASE b # a
      BY <1>q, <2>1, <3>2, UntouchedActor
    <3> QED BY <3>1, <3>2
  <2>3. UNCHANGED Submitted
    BY <1>6, <1>n DEF Dispatch
  <2> QED BY <2>2, <2>3, <1>s
<1>7. ASSUME NEW t \in Threads, Flush(t)
      PROVE  [Mailbox!Next]_Mailbox!mailboxVars
  <2>a. PICK a \in Actors : a = curQueue[t]
    BY <1>7, <1>q, <1>t DEF Flush, TypeOK, ExeTypeOK
  <2> DEFINE q == queue[a]
  <2>1. a \in Actors /\ q \in Seq(TaskId) /\ Resting(t)
    BY <1>7, <1>q, <1>r, <2>a DEF Flush
  <2>2. PICK n \in 1..Len(q) :
          /\ queue' = [queue EXCEPT ![a] = SubSeq(@, n + 1, Len(@))]
          /\ taskVec' = [taskVec EXCEPT ![t] = ExecutionOrder(SubSeq(q, 1, n))]
    BY <1>7, <2>a DEF Flush
  <2>3. UNCHANGED <<curQueue, current>>
    BY <1>7 DEF Flush
  <2> HIDE DEF q
  <2>4. n \in 0..Len(q) /\ SubSeq(q, 1, n) \in Seq(TaskId)
    BY <2>1, FlushSplits
  <2>5. taskVec'[t] = SubSeq(q, 1, n) /\ queue'[a] = SubSeq(q, n + 1, Len(q))
    <3>1. ExecutionOrder(SubSeq(q, 1, n)) = SubSeq(q, 1, n)
      BY <2>4, ExecutionOrderIsFifo
    <3> QED BY <1>q, <2>1, <2>2, <3>1 DEF q
  <2>6. SubSeq(q, 1, n) \o SubSeq(q, n + 1, Len(q)) = q
    BY <2>1, <2>4, FlushedThenRest
  <2>7. SameMailbox(a)
    <3>1. Executing(t, a) /\ Executing(t, a)'
      BY <2>a, <2>3 DEF Executing
    <3>2. /\ Pending(a) = taskVec[t] \o q
          /\ Started(a) = {current[t]} \ {NoTask}
      BY <2>1, <3>1 DEF MailboxView, q
    <3>3. /\ Pending(a)' = taskVec'[t] \o queue'[a]
          /\ Started(a)' = {current'[t]} \ {NoTask}
      BY <2>1, <3>1 DEF MailboxView, Executing, NoTask
    <3>4. <<>> \o q = q
      BY <2>1
    <3>5. taskVec[t] = <<>>
      BY <2>1 DEF Resting
    <3> QED BY <2>3, <2>5, <2>6, <3>2, <3>3, <3>4, <3>5 DEF SameMailbox
  <2>8. ASSUME NEW b \in Actors \ {a} PROVE SameMailbox(b)
    <3>1. UNCHANGED queue[b] /\ \A u \in Threads : curQueue[u] = b => UNCHANGED taskVec[u]
      BY <1>q, <2>a, <2>2
    <3> QED BY <2>3, <3>1, UntouchedActor
  <2>9. UNCHANGED Submitted
    BY <1>7, <1>n DEF Flush
  <2> QED BY <2>7, <2>8, <2>9, <1>s
<1>8. ASSUME NEW t \in Threads,
             exePc[t] # "run" \/ Resting(t),
             exePc'[t] # "run",
             UNCHANGED <<issued, queue, enqVars, taskVec, current>>,
             curQueue' = curQueue \/ curQueue' = [curQueue EXCEPT ![t] = NoActor]
      PROVE  [Mailbox!Next]_Mailbox!mailboxVars
  <2>1. ASSUME NEW b \in Actors PROVE SameMailbox(b)
    <3>1. CASE curQueue[t] = b
      <4>1. \A u \in Threads : curQueue[u] = b => Resting(u)
        BY <1>8, <1>o, <1>r, <3>1
      <4>2. \A u \in Threads : curQueue'[u] = b => u = t
        BY <1>8, <1>o, <1>q, <3>1
      <4> QED BY <1>8, <1>r, <4>1, <4>2, RestingActor
    <3>2. CASE curQueue[t] # b
      BY <1>8, <1>q, <3>2, UntouchedActor
    <3> QED BY <3>1, <3>2
  <2>2. UNCHANGED Submitted
    BY <1>8, <1>n
  <2> QED BY <2>1, <2>2, <1>s
<1>9. ASSUME NEW t \in Threads, FlushNothing(t) \/ YieldActor(t) \/ FinishBatch(t) \/ KeepActor(t)
      PROVE  [Mailbox!Next]_Mailbox!mailboxVars
  <2>1. exePc[t] # "run" \/ Resting(t)
    BY <1>9 DEF FlushNothing, YieldActor, FinishBatch, KeepActor, Resting
  <2>2. exePc'[t] # "run"
    BY <1>9, <1>t DEF FlushNothing, YieldActor, FinishBatch, KeepActor, LeaveExecute, TypeOK, ExeTypeOK
  <2>3. UNCHANGED <<issued, queue, enqVars, taskVec, current>>
    BY <1>9 DEF FlushNothing, YieldActor, FinishBatch, KeepActor, actorVars
  <2>4. curQueue' = curQueue \/ curQueue' = [curQueue EXCEPT ![t] = NoActor]
    BY <1>9 DEF FlushNothing, YieldActor, FinishBatch, KeepActor, LeaveExecute
  <2> QED BY <1>8, <2>1, <2>2, <2>3, <2>4
<1>10. ASSUME NEW t \in Threads, BeginTask(t)
       PROVE  [Mailbox!Next]_Mailbox!mailboxVars
  <2>a. PICK a \in Actors : a = curQueue[t]
    BY <1>10, <1>q, <1>t DEF BeginTask, TypeOK, ExeTypeOK
  <2>1. a \in Actors /\ taskVec[t] \in Seq(TaskId) /\ taskVec[t] # <<>> /\ current[t] = NoTask
    BY <1>10, <1>q, <1>t DEF BeginTask, TypeOK, ExeTypeOK
  <2>2. Head(taskVec[t]) \in TaskId /\ Tail(taskVec[t]) \in Seq(TaskId)
    BY <2>1, HeadTailProperties
  <2>3. /\ current' = [current EXCEPT ![t] = Head(taskVec[t])]
        /\ taskVec' = [taskVec EXCEPT ![t] = Tail(@)]
        /\ UNCHANGED <<queue, curQueue>>
    BY <1>10 DEF BeginTask, actorVars
  <2>4. Pending(a) = taskVec[t] \o queue[a] /\ Started(a) = {}
    BY <2>a, <2>1 DEF MailboxView, Executing
  <2>5. Pending(a)' = Tail(taskVec[t]) \o queue[a] /\ Started(a)' = {Head(taskVec[t])}
    <3>1. Executing(t, a)'
      BY <2>a, <2>3 DEF Executing
    <3>2. /\ Pending(a)' = taskVec'[t] \o queue'[a]
          /\ Started(a)' = {current'[t]} \ {NoTask}
      BY <3>1 DEF MailboxView, NoTask
    <3>3. taskVec'[t] = Tail(taskVec[t]) /\ current'[t] = Head(taskVec[t])
      BY <1>q, <2>3
    <3>4. Head(taskVec[t]) # NoTask
      BY <2>2, ConstantsAssumption DEF TaskId, NoTask
    <3> QED BY <2>3, <3>2, <3>3, <3>4
  <2>6. ASSUME NEW b \in Actors \ {a} PROVE SameMailbox(b)
    <3>1. \A u \in Threads : curQueue[u] = b => UNCHANGED <<taskVec[u], current[u]>>
      BY <1>q, <2>a, <2>3
    <3> QED BY <2>3, <3>1, UntouchedActor
  <2>7. /\ taskVec[t] \o queue[a] # <<>>
        /\ Head(taskVec[t] \o queue[a]) = Head(taskVec[t])
        /\ Tail(taskVec[t] \o queue[a]) = Tail(taskVec[t]) \o queue[a]
    BY <1>q, <2>1, HeadOfBatch
  <2>8. Mailbox!Start(a)
    <3>1. [b \in Actors |-> Pending(b)]'
            = [[b \in Actors |-> Pending(b)] EXCEPT ![a] = Tail(@)]
      BY <2>1, <2>4, <2>5, <2>6, <2>7 DEF SameMailbox
    <3>2. [b \in Actors |-> Started(b)]'
            = [[b \in Actors |-> Started(b)] EXCEPT ![a] = {Head(Pending(a))}]
      BY <2>1, <2>4, <2>5, <2>6, <2>7 DEF SameMailbox
    <3>3. UNCHANGED Submitted
      BY <1>10, <1>n DEF BeginTask, actorVars
    <3> QED BY <2>1, <2>4, <2>7, <3>1, <3>2, <3>3 DEF Mailbox!Start, Submitted
  <2> QED BY <2>1, <2>8 DEF Mailbox!Next
<1>11. ASSUME NEW t \in Threads, EndTask(t)
       PROVE  [Mailbox!Next]_Mailbox!mailboxVars
  <2>1. PICK a \in Actors : a = curQueue[t] /\ current[t] # NoTask
    BY <1>11, <1>q, <1>t DEF EndTask, TypeOK, ExeTypeOK
  <2>2. /\ current' = [current EXCEPT ![t] = NoTask]
        /\ UNCHANGED <<queue, curQueue, taskVec>>
    BY <1>11 DEF EndTask, actorVars
  <2>3. Pending(a) = taskVec[t] \o queue[a] /\ Started(a) = {current[t]}
    BY <2>1 DEF MailboxView, Executing
  <2>4. Pending(a)' = taskVec[t] \o queue[a] /\ Started(a)' = {}
    <3>1. /\ Pending(a)' = taskVec'[t] \o queue'[a]
          /\ Started(a)' = {current'[t]} \ {NoTask}
      BY <2>1, <2>2 DEF MailboxView, Executing, NoTask
    <3>2. current'[t] = NoTask
      BY <1>q, <2>2
    <3> QED BY <2>2, <3>1, <3>2
  <2>5. ASSUME NEW b \in Actors \ {a} PROVE SameMailbox(b)
    <3>1. \A u \in Threads : curQueue[u] = b => UNCHANGED <<taskVec[u], current[u]>>
      BY <1>q, <2>1, <2>2
    <3> QED BY <2>2, <3>1, UntouchedActor
  <2>6. Mailbox!Finish(a)
    <3>1. [b \in Actors |-> Pending(b)]' = [b \in Actors |-> Pending(b)]
      BY <2>1, <2>3, <2>4, <2>5 DEF SameMailbox
    <3>2. [b \in Actors |-> Started(b)]' = [[b \in Actors |-> Started(b)] EXCEPT ![a] = {}]
      BY <2>1, <2>4, <2>5 DEF SameMailbox
    <3>3. UNCHANGED Submitted
      BY <1>11, <1>n DEF EndTask, actorVars
    <3> QED BY <2>1, <2>3, <3>1, <3>2, <3>3 DEF Mailbox!Finish, Submitted
  <2> QED BY <2>1, <2>6 DEF Mailbox!Next
<1>12. CASE UNCHANGED vars
  BY <1>12, <1>e, <1>n, <1>s DEF vars, actorVars
<1> QED
  BY <1>1, <1>2, <1>3, <1>4, <1>5, <1>6, <1>7, <1>9, <1>10, <1>11, <1>12, [Next]_vars
     DEF Next, Enqueue, Execute

(* Every task counted on an actor is started at most once, in the order of *)
(* the tail swaps and never while another task of the actor is running,    *)
(* for any number of threads, actors and tasks.                            *)
THEOREM Refinement == SafetySpec => ImplementsMailbox
<1>1. Init => Mailbox!Init
  <2> SUFFICES ASSUME Init PROVE Mailbox!Init
    OBVIOUS
  <2>1. Submitted = {}
    BY DEF Init, Submitted
  <2>2. \A a \in Actors : Executors(a) = {}
    BY ConstantsAssumption DEF Init, Executors
  <2>3. \A a \in Actors : Pending(a) = <<>> /\ Started(a) = {}
    <3>1. <<>> \o <<>> = <<>>
      OBVIOUS
    <3> QED BY <2>2, <3>1 DEF Init, Pending, Started
  <2> QED BY <2>1, <2>3 DEF Mailbox!Init, Submitted
<1>2. IInv' => MailboxView'
  BY MailboxOfActor, PTL
<1>3. IInv /\ IInv' /\ NumberInv /\ [Next]_vars => [Mailbox!Next]_Mailbox!mailboxVars
  BY <1>2, MailboxOfActor, MailboxStep
<1> QED
  BY <1>1, <1>3, Invariance, NumberInvariance, PTL
     DEF SafetySpec, ImplementsMailbox, Mailbox!Safety
=============================================================================
