------------------------------- MODULE DBQueue -------------------------------
(***************************************************************************)
(* The query thread (ServerCore/DBMgr): handlers put an event into an      *)
(* MPSCQueue and notify a condition variable, and the one thread that      *)
(* waits for it executes the queries and posts the events to the           *)
(* completion port, where any worker dispatches them.                      *)
(*                                                                         *)
(* The only events are the logins of sessions (RequestQuery has one        *)
(* caller), so an event is the session it belongs to.                      *)
(***************************************************************************)
EXTENDS Naturals, Sequences

CONSTANT Events

VARIABLES
  queue,    (* m_dbEventQueue, in the order of the tail                    *)
  linked,   (* events whose node can be reached from the one before        *)
  query,    (* where the query thread is                                   *)
  batch,    (* dbEvents that are not executed yet                          *)
  port,     (* events posted and not dispatched                            *)
  missed    (* history: a notification found the thread about to sleep     *)

queueVars == <<queue, linked>>
queryVars == <<query, batch, missed>>
dbVars    == <<queueVars, queryVars, port>>

InitDB ==
  /\ queue = <<>> /\ linked = {}
  /\ query = "test" /\ batch = <<>> /\ missed = FALSE
  /\ port = {}

-----------------------------------------------------------------------------
(* EnqueueDBEvent, in three steps: emplace swaps the tail and links the    *)
(* node, and notify_one wakes the thread if it sleeps. The mutex is not    *)
(* taken.                                                                  *)
SwapTail(e) ==
  /\ queue' = Append(queue, e)
  /\ UNCHANGED <<linked, queryVars, port>>

LinkNode(e) ==
  /\ linked' = linked \cup {e}
  /\ UNCHANGED <<queue, queryVars, port>>

NotifyOne ==
  /\ query' = IF query = "asleep" THEN "test" ELSE query
  /\ missed' = (query = "drowsy" \/ (missed /\ query # "asleep"))
  /\ UNCHANGED <<queueVars, batch, port>>

-----------------------------------------------------------------------------
(* Mutant: wait is called without a predicate.                             *)
WaitBlindly ==
  /\ query = "test"
  /\ query' = "drowsy"
  /\ UNCHANGED <<queueVars, batch, missed, port>>

(* The predicate of wait: the tail is the head.                            *)
TestEmpty ==
  /\ query = "test"
  /\ query' = IF queue = <<>> THEN "drowsy" ELSE "flush"
  /\ UNCHANGED <<queueVars, batch, missed, port>>

FallAsleep ==
  /\ query = "drowsy"
  /\ query' = "asleep"
  /\ UNCHANGED <<queueVars, batch, missed, port>>

(* A condition variable may return without having been notified.           *)
WakeSpuriously ==
  /\ query = "asleep"
  /\ query' = "test" /\ missed' = FALSE
  /\ UNCHANGED <<queueVars, batch, port>>

(* The first event that cannot be reached stops the flush.                 *)
Reachable == {k \in 0..Len(queue) : \A i \in 1..k : queue[i] \in linked}

(* Mutant: the flush goes on to the tail.                                  *)
FlushToTail(k) ==
  /\ batch' = queue
  /\ queue' = <<>>

Flush(k) ==
  /\ batch' = SubSeq(queue, 1, k)
  /\ queue' = SubSeq(queue, k + 1, Len(queue))

TryFlush ==
  /\ query = "flush"
  /\ \E k \in Reachable :
       /\ k + 1 \notin Reachable
       /\ Flush(k)
       /\ query' = IF k = 0 THEN "test" ELSE "execute"
  /\ UNCHANGED <<linked, missed, port>>

(* ExecuteQuery of one event, and its completion is posted.                *)
ExecuteQuery(e) ==
  /\ query = "execute" /\ Head(batch) = e
  /\ batch' = Tail(batch)
  /\ query' = IF Tail(batch) = <<>> THEN "test" ELSE "execute"
  /\ port' = port \cup {e}
  /\ UNCHANGED <<queueVars, missed>>

Dispatch(e) ==
  /\ e \in port
  /\ port' = port \ {e}
  /\ UNCHANGED <<queueVars, queryVars>>

QueryThread == TestEmpty \/ FallAsleep \/ TryFlush \/ \E e \in Events : ExecuteQuery(e)

TypeOKDB ==
  /\ linked \subseteq Events
  /\ queue \in Seq(Events) /\ batch \in Seq(linked)
  /\ query \in {"test", "drowsy", "asleep", "flush", "execute"}
  /\ query = "execute" <=> batch # <<>>
  /\ port \subseteq linked
  /\ missed \in BOOLEAN
=============================================================================
