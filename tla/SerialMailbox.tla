---------------------------- MODULE SerialMailbox ----------------------------
(***************************************************************************)
(* What an actor (ServerCore::TaskQueueable) promises to the code that     *)
(* enqueues tasks on it: every task submitted to an actor is started once, *)
(* in submission order, never while another task of that actor is still    *)
(* running, and it does get its turn.  The handlers of the contents layer  *)
(* (TRWorldRoom, Sector, DBEvent) take no lock on the state they touch     *)
(* because of exactly this promise.                                        *)
(***************************************************************************)
EXTENDS Naturals, Sequences

CONSTANTS
  Actors,     (* the TaskQueueable objects                                 *)
  Tasks       (* identities of tasks                                       *)

VARIABLES
  submitted,  (* tasks handed to some actor so far                         *)
  pending,    (* per actor, the submitted tasks that have not started      *)
  running     (* per actor, the tasks being executed                       *)

mailboxVars == <<submitted, pending, running>>

Init ==
  /\ submitted = {}
  /\ pending = [a \in Actors |-> <<>>]
  /\ running = [a \in Actors |-> {}]

Submit(a, k) ==
  /\ k \notin submitted
  /\ submitted' = submitted \cup {k}
  /\ pending' = [pending EXCEPT ![a] = Append(@, k)]
  /\ UNCHANGED running

Start(a) ==
  /\ running[a] = {}
  /\ pending[a] # <<>>
  /\ running' = [running EXCEPT ![a] = {Head(pending[a])}]
  /\ pending' = [pending EXCEPT ![a] = Tail(@)]
  /\ UNCHANGED submitted

Finish(a) ==
  /\ running[a] # {}
  /\ running' = [running EXCEPT ![a] = {}]
  /\ UNCHANGED <<submitted, pending>>

Next ==
  \E a \in Actors :
    \/ \E k \in Tasks : Submit(a, k)
    \/ Start(a)
    \/ Finish(a)

Fairness == \A a \in Actors : WF_mailboxVars(Start(a)) /\ WF_mailboxVars(Finish(a))

Safety == Init /\ [][Next]_mailboxVars

Spec == Safety /\ Fairness
==============================================================================
