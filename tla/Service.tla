-------------------------------- MODULE Service --------------------------------
(***************************************************************************)
(* The sessions of the server (ServerCore/Service.cpp) between the         *)
(* listener that adds them (Listener.cpp), the workers that release them,  *)
(* the threads that look one up by its number, and the console thread that *)
(* closes the service. A slot of m_vecSession is reused by many sessions;  *)
(* the numbers of the sessions are never reused, and neither is an entry   *)
(* of m_id2Index removed.                                                  *)
(*                                                                         *)
(* One action per shared step. There is one AcceptEvent, so one session    *)
(* at a time is being accepted.                                            *)
(***************************************************************************)
EXTENDS Integers, Sequences, FiniteSets

CONSTANTS
  Sessions,      (* the sessions of a behaviour; a session is its number   *)
  NoSession,     (* nullptr                                                *)
  MaxSessions,   (* m_maxSessionCount                                      *)
  Readers        (* threads that call GetSession                           *)

(* m_id2Index stores an index in 16 bits.                                   *)
LargestIndex == 65535

ASSUME ServiceAssumption ==
  /\ IsFiniteSet(Sessions)
  /\ NoSession \notin Sessions
  /\ MaxSessions \in Nat /\ 1 <= MaxSessions
  /\ MaxSessions <= LargestIndex

VARIABLES
  idxQueue,     (* m_idxQueue, the free slots                              *)
  id2Index,     (* m_id2Index; NoIndex where there is no entry             *)
  slot,         (* m_vecSession                                            *)
  serviceIdx,   (* per session, m_serviceIdx                               *)
  stage,        (* per session, how far it has come                        *)
  idx,          (* per session, the local idx of AddSession, ReleaseSession *)
  canAccept,    (* Listener::m_bCanAccept                                  *)
  acceptPc,     (* what the thread that accepts does next                  *)
  accepting,    (* the session of the AcceptEvent                          *)
  closePc,      (* what the thread that closes the service does next       *)
  closeAt,      (* the slot it visits                                      *)
  upAtClose,    (* history: the sessions connected when it began           *)
  lookUp        (* per reader, its call of GetSession                      *)

tableVars  == <<idxQueue, id2Index, slot>>
acceptVars == <<acceptPc, accepting>>
closeVars  == <<closePc, closeAt, upAtClose>>
vars == <<tableVars, serviceIdx, stage, idx, canAccept, acceptVars, closeVars, lookUp>>

NoIndex == -1
Slots   == 0..MaxSessions       (* slot 0 is never handed out              *)

Connected(s) == stage[s] = "connected"    (* m_bConnected                  *)

NotLooking == [pc |-> "idle", id |-> NoSession, idx |-> NoIndex,
               upAtStart |-> FALSE, result |-> NoSession]

(* After Start, with the first RegisterAccept ahead.                       *)
Init ==
  /\ idxQueue = [i \in 1..MaxSessions |-> i]
  /\ id2Index = [s \in Sessions |-> NoIndex]
  /\ slot = [i \in Slots |-> NoSession]
  /\ serviceIdx = [s \in Sessions |-> NoIndex]
  /\ stage = [s \in Sessions |-> "fresh"]
  /\ idx = [s \in Sessions |-> NoIndex]
  /\ canAccept = TRUE
  /\ acceptPc = "registerAccept" /\ accepting = NoSession
  /\ closePc = "open" /\ closeAt = 0 /\ upAtClose = {}
  /\ lookUp = [r \in Readers |-> NotLooking]

-----------------------------------------------------------------------------
(* Mutant: the listener does not ask whether it may still accept.          *)
CheckNothing ==
  /\ acceptPc = "registerAccept"
  /\ acceptPc' = "acceptEx"
  /\ UNCHANGED <<tableVars, serviceIdx, stage, idx, canAccept, accepting, closeVars, lookUp>>

(* Listener::RegisterAccept.                                               *)
CheckCanAccept ==
  /\ acceptPc = "registerAccept"
  /\ acceptPc' = IF canAccept THEN "acceptEx" ELSE "stopped"
  /\ UNCHANGED <<tableVars, serviceIdx, stage, idx, canAccept, accepting, closeVars, lookUp>>

(* A new session waits for a client.                                       *)
AcceptEx(s) ==
  /\ acceptPc = "acceptEx"
  /\ stage[s] = "fresh"
  /\ stage' = [stage EXCEPT ![s] = "accepting"]
  /\ accepting' = s
  /\ acceptPc' = "waiting"
  /\ UNCHANGED <<tableVars, serviceIdx, idx, canAccept, closeVars, lookUp>>

(* The session is dropped, and the next accept registered: AcceptEx fails, *)
(* the accepted socket is unusable, or all slots are taken.                *)
DropSession(s) ==
  /\ s = accepting
  /\ \/ acceptPc = "waiting"
     \/ acceptPc = "popIndex" /\ idxQueue = <<>>
  /\ stage' = [stage EXCEPT ![s] = "dropped"]
  /\ accepting' = NoSession
  /\ acceptPc' = "registerAccept"
  /\ UNCHANGED <<tableVars, serviceIdx, idx, canAccept, closeVars, lookUp>>

(* A client connects: Listener::ProcessAccept calls Session::ProcessConnect. *)
ProcessAccept ==
  /\ acceptPc = "waiting"
  /\ acceptPc' = "popIndex"
  /\ UNCHANGED <<tableVars, serviceIdx, stage, idx, canAccept, accepting, closeVars, lookUp>>

(* Service::AddSession, step by step.                                      *)
PopIndex(s) ==
  /\ acceptPc = "popIndex" /\ s = accepting
  /\ idxQueue # <<>>
  /\ idx' = [idx EXCEPT ![s] = Head(idxQueue)]
  /\ idxQueue' = Tail(idxQueue)
  /\ acceptPc' = "emplaceId"
  /\ UNCHANGED <<id2Index, slot, serviceIdx, stage, canAccept, accepting, closeVars, lookUp>>

(* emplace leaves an entry that is already there.                          *)
EmplaceId(s) ==
  /\ acceptPc = "emplaceId" /\ s = accepting
  /\ id2Index' = [id2Index EXCEPT ![s] = IF @ = NoIndex THEN idx[s] ELSE @]
  /\ acceptPc' = "storeIndex"
  /\ UNCHANGED <<idxQueue, slot, serviceIdx, stage, idx, canAccept, accepting, closeVars, lookUp>>

StoreIndex(s) ==
  /\ acceptPc = "storeIndex" /\ s = accepting
  /\ serviceIdx' = [serviceIdx EXCEPT ![s] = idx[s]]
  /\ acceptPc' = "storeSlot"
  /\ UNCHANGED <<tableVars, stage, idx, canAccept, accepting, closeVars, lookUp>>

StoreSlot(s) ==
  /\ acceptPc = "storeSlot" /\ s = accepting
  /\ slot' = [slot EXCEPT ![idx[s]] = s]
  /\ idx' = [idx EXCEPT ![s] = NoIndex]
  /\ acceptPc' = "connect"
  /\ UNCHANGED <<idxQueue, id2Index, serviceIdx, stage, canAccept, accepting, closeVars, lookUp>>

(* Session::ProcessConnect raises m_bConnected; the next accept follows.   *)
Connect(s) ==
  /\ acceptPc = "connect" /\ s = accepting
  /\ stage' = [stage EXCEPT ![s] = "connected"]
  /\ accepting' = NoSession
  /\ acceptPc' = "registerAccept"
  /\ UNCHANGED <<tableVars, serviceIdx, idx, canAccept, closeVars, lookUp>>

-----------------------------------------------------------------------------
(* Session::Disconnect by whoever finds m_bConnected raised.               *)
Disconnect(s) ==
  /\ Connected(s)
  /\ stage' = [stage EXCEPT ![s] = "disconnected"]
  /\ UNCHANGED <<tableVars, serviceIdx, idx, canAccept, acceptVars, closeVars, lookUp>>

(* Mutant: m_serviceIdx is loaded and not exchanged.                       *)
LoadServiceIdx(s) ==
  /\ stage[s] = "disconnected"
  /\ idx' = [idx EXCEPT ![s] = serviceIdx[s]]
  /\ stage' = [stage EXCEPT ![s] = "unindexed"]
  /\ UNCHANGED <<tableVars, serviceIdx, canAccept, acceptVars, closeVars, lookUp>>

(* Service::ReleaseSession, once the socket is disconnected.               *)
ExchangeIndex(s) ==
  /\ stage[s] = "disconnected"
  /\ idx' = [idx EXCEPT ![s] = serviceIdx[s]]
  /\ serviceIdx' = [serviceIdx EXCEPT ![s] = NoIndex]
  /\ stage' = [stage EXCEPT ![s] = IF serviceIdx[s] = NoIndex THEN "released" ELSE "unindexed"]
  /\ UNCHANGED <<tableVars, canAccept, acceptVars, closeVars, lookUp>>

ResetSlot(s) ==
  /\ stage[s] = "unindexed"
  /\ slot' = [slot EXCEPT ![idx[s]] = NoSession]
  /\ stage' = [stage EXCEPT ![s] = "emptied"]
  /\ UNCHANGED <<idxQueue, id2Index, serviceIdx, idx, canAccept, acceptVars, closeVars, lookUp>>

(* Mutant: m_serviceIdx is pushed, which is already -1.                     *)
PushServiceIdx(s) ==
  /\ stage[s] = "emptied"
  /\ idxQueue' = Append(idxQueue, serviceIdx[s])
  /\ idx' = [idx EXCEPT ![s] = NoIndex]
  /\ stage' = [stage EXCEPT ![s] = "released"]
  /\ UNCHANGED <<id2Index, slot, serviceIdx, canAccept, acceptVars, closeVars, lookUp>>

PushIndex(s) ==
  /\ stage[s] = "emptied"
  /\ idxQueue' = Append(idxQueue, idx[s])
  /\ idx' = [idx EXCEPT ![s] = NoIndex]
  /\ stage' = [stage EXCEPT ![s] = "released"]
  /\ UNCHANGED <<id2Index, slot, serviceIdx, canAccept, acceptVars, closeVars, lookUp>>

-----------------------------------------------------------------------------
(* Service::GetSession: operator[] adds the entry 0 where there is none.   *)
ReadIndex(r, s) ==
  /\ lookUp[r].pc = "idle"
  /\ id2Index' = [id2Index EXCEPT ![s] = IF @ = NoIndex THEN 0 ELSE @]
  /\ lookUp' = [lookUp EXCEPT ![r] =
       [pc |-> "loadSlot", id |-> s, idx |-> id2Index'[s],
        upAtStart |-> Connected(s), result |-> NoSession]]
  /\ UNCHANGED <<idxQueue, slot, serviceIdx, stage, idx, canAccept, acceptVars, closeVars>>

LoadSlot(r) ==
  LET target == slot[lookUp[r].idx] IN
  /\ lookUp[r].pc = "loadSlot"
  /\ lookUp' = [lookUp EXCEPT ![r].pc = "answered",
                              ![r].result = IF target = lookUp[r].id THEN target ELSE NoSession]
  /\ UNCHANGED <<tableVars, serviceIdx, stage, idx, canAccept, acceptVars, closeVars>>

EndLookUp(r) ==
  /\ lookUp[r].pc = "answered"
  /\ lookUp' = [lookUp EXCEPT ![r] = NotLooking]
  /\ UNCHANGED <<tableVars, serviceIdx, stage, idx, canAccept, acceptVars, closeVars>>

-----------------------------------------------------------------------------
(* ServerService::CloseService: no more accepts, then everyone who is in a *)
(* slot is disconnected.                                                   *)
CloseAccept ==
  /\ closePc = "open"
  /\ canAccept' = FALSE
  /\ closePc' = "iterating"
  /\ upAtClose' = {s \in Sessions : Connected(s)}
  /\ UNCHANGED <<tableVars, serviceIdx, stage, idx, acceptVars, closeAt, lookUp>>

(* Mutant: the walk over the slots ends before the last.                     *)
VisitSlotButLast ==
  LET target == slot[closeAt] IN
  /\ closePc = "iterating"
  /\ stage' = [s \in Sessions |-> IF s = target /\ Connected(s) THEN "disconnected" ELSE stage[s]]
  /\ closeAt' = closeAt + 1
  /\ closePc' = IF closeAt + 1 = MaxSessions THEN "closed" ELSE "iterating"
  /\ UNCHANGED <<tableVars, serviceIdx, idx, canAccept, acceptVars, upAtClose, lookUp>>

(* Service::IterateSession loads a slot and calls Disconnect, in one step: *)
(* when the session connects in between, that is a visit a moment later.   *)
VisitSlot ==
  LET target == slot[closeAt] IN
  /\ closePc = "iterating"
  /\ stage' = [s \in Sessions |-> IF s = target /\ Connected(s) THEN "disconnected" ELSE stage[s]]
  /\ closeAt' = IF closeAt = MaxSessions THEN closeAt ELSE closeAt + 1
  /\ closePc' = IF closeAt = MaxSessions THEN "closed" ELSE "iterating"
  /\ UNCHANGED <<tableVars, serviceIdx, idx, canAccept, acceptVars, upAtClose, lookUp>>

-----------------------------------------------------------------------------
Accept(s) ==
  \/ AcceptEx(s) \/ DropSession(s)
  \/ PopIndex(s) \/ EmplaceId(s) \/ StoreIndex(s) \/ StoreSlot(s) \/ Connect(s)

(* Mutant: the index is free before the slot is empty.                     *)
ReleaseIndexFirst(s) ==
  \/ ExchangeIndex(s)
  \/ /\ stage[s] = "unindexed"
     /\ idxQueue' = Append(idxQueue, idx[s])
     /\ idx' = [idx EXCEPT ![s] = NoIndex]
     /\ stage' = [stage EXCEPT ![s] = "emptied"]
     /\ UNCHANGED <<id2Index, slot, serviceIdx, canAccept, acceptVars, closeVars, lookUp>>
  \/ /\ stage[s] = "emptied"
     /\ slot' = [slot EXCEPT ![id2Index[s]] = NoSession]
     /\ stage' = [stage EXCEPT ![s] = "released"]
     /\ UNCHANGED <<idxQueue, id2Index, serviceIdx, idx, canAccept, acceptVars, closeVars, lookUp>>

ReleaseSession(s) == ExchangeIndex(s) \/ ResetSlot(s) \/ PushIndex(s)

Next ==
  \/ CheckCanAccept \/ ProcessAccept
  \/ \E s \in Sessions : Accept(s) \/ Disconnect(s) \/ ReleaseSession(s)
  \/ \E r \in Readers : \/ \E s \in Sessions : ReadIndex(r, s)
                        \/ LoadSlot(r) \/ EndLookUp(r)
  \/ CloseAccept \/ VisitSlot

Spec == Init /\ [][Next]_vars

-----------------------------------------------------------------------------
Stages == {"fresh", "accepting", "dropped", "connected", "disconnected",
           "unindexed", "emptied", "released"}
LookUps ==
  [pc : {"idle", "loadSlot", "answered"}, id : Sessions \cup {NoSession},
   idx : Slots \cup {NoIndex}, upAtStart : BOOLEAN, result : Sessions \cup {NoSession}]

TypeOK ==
  /\ idxQueue \in Seq(1..MaxSessions)
  /\ id2Index \in [Sessions -> Slots \cup {NoIndex}]
  /\ slot \in [Slots -> Sessions \cup {NoSession}]
  /\ serviceIdx \in [Sessions -> (1..MaxSessions) \cup {NoIndex}]
  /\ stage \in [Sessions -> Stages]
  /\ idx \in [Sessions -> (1..MaxSessions) \cup {NoIndex}]
  /\ canAccept \in BOOLEAN
  /\ acceptPc \in {"registerAccept", "acceptEx", "waiting", "popIndex", "emplaceId",
                   "storeIndex", "storeSlot", "connect", "stopped"}
  /\ accepting \in Sessions \cup {NoSession}
  /\ closePc \in {"open", "iterating", "closed"}
  /\ closeAt \in Slots
  /\ upAtClose \in SUBSET Sessions
  /\ lookUp \in [Readers -> LookUps]

(* The sessions that answer for slot i: one has its number in a local      *)
(* variable of AddSession or ReleaseSession, or in m_serviceIdx.           *)
Owners(i) == {s \in Sessions : idx[s] = i \/ serviceIdx[s] = i}

(* No slot is lost or handed out twice: its number is either once in       *)
(* m_idxQueue or with exactly one session, through every interleaving of   *)
(* AddSession and ReleaseSession of different sessions.                    *)
SlotsArePartitioned ==
  \A i \in 1..MaxSessions :
    Cardinality({k \in DOMAIN idxQueue : idxQueue[k] = i}) + Cardinality(Owners(i)) = 1

(* A session that is connected throughout a call of GetSession is found,   *)
(* however often its slot was used before. A number that somebody looked   *)
(* up before AddSession has the entry 0 for good and is never found.       *)
LookUpFindsLiveSession ==
  \A r \in Readers :
    LET l == lookUp[r] IN
    l.pc = "answered" /\ l.upAtStart /\ Connected(l.id) /\ id2Index[l.id] # 0
      => l.result = l.id

(* CloseService disconnects every session that was connected when it       *)
(* began, although slots are emptied and filled while it walks over them.  *)
CloseReachesTheConnected ==
  closePc = "closed" => \A s \in upAtClose : ~ Connected(s)

(* After CloseService at most one session is connected: the one whose      *)
(* accept was under way and whose flag was not yet up when its slot was    *)
(* visited, or whose RegisterAccept had already asked CanAccept.           *)
AtMostOneOutlivesClose ==
  closePc = "closed" => Cardinality({s \in Sessions : Connected(s)}) <= 1
=============================================================================
