------------------------------- MODULE Session -------------------------------
(***************************************************************************)
(* The life of one connection (ServerCore/Session.{h,cpp}, with the parts  *)
(* of Listener.cpp and Service.cpp that begin and end it): overlapped      *)
(* receives, the batched send path, disconnection, and the intrusive       *)
(* reference count that keeps the object alive meanwhile.                  *)
(*                                                                         *)
(* Workers dispatch the completions of the session from the port.          *)
(* Borrowers are threads that run code of other objects and found the      *)
(* session with Service::GetSession: they send to it and disconnect it.    *)
(* The sends of the session's own handlers are those of a borrower, too.   *)
(*                                                                         *)
(* Whoever turns m_bIsSendRegistered from false to true owns the send      *)
(* token: the right to use m_pSendEvent until the flag is cleared.         *)
(***************************************************************************)
EXTENDS Naturals, Sequences, FiniteSets

CONSTANTS
  Workers,       (* threads in IocpCore::Dispatch                          *)
  Borrowers,     (* threads that reach the session through GetSession      *)
  MaxSends,      (* bound on the packets queued in a behaviour             *)
  FoundEarly     (* may GetSession find the session before it is connected *)

ASSUME SessionAssumption ==
  /\ Workers \cap Borrowers = {}
  /\ IsFiniteSet(Workers \cup Borrowers)
  /\ MaxSends \in Nat
  /\ FoundEarly \in BOOLEAN

VARIABLES
  connected,      (* m_bConnected                                          *)
  connectedFast,  (* m_bConnectedNonAtomic and m_bConnectedNonAtomicForRecv *)
  socketOpen,     (* m_sessionSocket has not been closed                   *)
  inService,      (* m_serviceIdx # -1: a slot of m_vecSession refers to us *)
  onDisconnected, (* calls of OnDisconnected                               *)
  accepted,       (* packets whose node has entered m_sendQueue            *)
  sendQueue,      (* m_sendQueue; a packet is its place in the tail order  *)
  sendRegistered, (* m_bIsSendRegistered                                   *)
  sendBuffer,     (* m_pSendEvent->m_sendBuffer                            *)
  wire,           (* packets given to successful WSASend calls             *)
  pending,        (* per kind, events and operations that hold the session *)
  refs,           (* the reference count                                   *)
  borrowed,       (* borrowers that hold a reference                       *)
  pc, io,         (* per thread, where it is, and the completion it serves *)
  packet          (* per borrower, the packet it is queueing               *)

connVars   == <<connected, connectedFast, socketOpen, inService, onDisconnected>>
queueVars  == <<accepted, sendQueue>>
sendVars   == <<sendRegistered, sendBuffer, wire>>
refVars    == <<refs, borrowed>>
threadVars == <<pc, io, packet>>
vars == <<connVars, queueVars, sendVars, pending, refVars, threadVars>>

Threads == Workers \cup Borrowers
Kinds   == {"accept", "registerSend", "send", "recv", "disconnect"}

(* The session as RegisterAccept leaves it, its AcceptEx under way.        *)
Init ==
  /\ connected = FALSE /\ connectedFast = FALSE /\ socketOpen = TRUE
  /\ inService = FALSE /\ onDisconnected = 0
  /\ accepted = 0 /\ sendQueue = <<>>
  /\ sendRegistered = FALSE /\ sendBuffer = <<>> /\ wire = <<>>
  /\ pending = [k \in Kinds |-> IF k = "accept" THEN 1 ELSE 0]
  /\ refs = 1 /\ borrowed = {}
  /\ pc = [t \in Threads |-> "idle"]
  /\ io = [t \in Threads |-> "none"]
  /\ packet = [t \in Threads |-> 0]

Goto(t, label) == pc' = [pc EXCEPT ![t] = label] /\ UNCHANGED <<io, packet>>

(* Mutant: a caller that brought no reference of its own loses one.        *)
ReturnAndRelease(t) ==
  /\ pc' = [pc EXCEPT ![t] = "idle"]
  /\ io' = [io EXCEPT ![t] = "none"]
  /\ refs' = refs - 1
  /\ UNCHANGED <<packet, borrowed>>

(* The handler returns and the reference it took over dies with it.        *)
Return(t) ==
  /\ pc' = [pc EXCEPT ![t] = "idle"]
  /\ io' = [io EXCEPT ![t] = "none"]
  /\ refs' = IF io[t] = "none" THEN refs ELSE refs - 1
  /\ UNCHANGED <<packet, borrowed>>

(* The reference moves into the event of a started operation.              *)
Hand(t, kind) ==
  /\ pending' = [pending EXCEPT ![kind] = @ + 1]
  /\ pc' = [pc EXCEPT ![t] = "idle"]
  /\ io' = [io EXCEPT ![t] = "none"]
  /\ UNCHANGED <<packet, refVars>>

-----------------------------------------------------------------------------
(* g_sessionLookupTable, and Listener::Dispatch for the accept.            *)
EntryOf ==
  [accept |-> "addSession", recv |-> "processRecv", disconnect |-> "processDisconnect",
   send |-> "processSend", registerSend |-> "registerSend"]

(* A completion is taken from the port; PassIocpObject moves its reference *)
(* to the thread.                                                          *)
Dispatch(t, kind) ==
  /\ t \in Workers
  /\ pc[t] = "idle"
  /\ pending[kind] > 0
  /\ pending' = [pending EXCEPT ![kind] = @ - 1]
  /\ io' = [io EXCEPT ![t] = kind]
  /\ pc' = [pc EXCEPT ![t] = EntryOf[kind]]
  /\ UNCHANGED <<connVars, queueVars, sendVars, refVars, packet>>

(* Listener::ProcessAccept: the socket may be unusable or the service full. *)
RefuseConnection(t) ==
  /\ pc[t] = "addSession"
  /\ Return(t)
  /\ UNCHANGED <<connVars, queueVars, sendVars, pending>>

AddSession(t) ==
  /\ pc[t] = "addSession"
  /\ inService' = TRUE
  /\ refs' = refs + 1
  /\ Goto(t, "connecting")
  /\ UNCHANGED <<connected, connectedFast, socketOpen, onDisconnected,
                 queueVars, sendVars, pending, borrowed>>

RaiseFastFlags(t) ==
  /\ pc[t] = "connecting"
  /\ connectedFast' = TRUE
  /\ Goto(t, "connected")
  /\ UNCHANGED <<connected, socketOpen, inService, onDisconnected,
                 queueVars, sendVars, pending, refVars>>

Connected(t) ==
  /\ pc[t] = "connected"
  /\ connected' = TRUE
  /\ Goto(t, "registerRecv")
  /\ UNCHANGED <<connectedFast, socketOpen, inService, onDisconnected,
                 queueVars, sendVars, pending, refVars>>

-----------------------------------------------------------------------------
(* Mutant: the next receive is started before this one is handled.         *)
ProcessRecvEagerly(t) ==
  /\ pc[t] = "processRecv"
  /\ refs' = refs + 1
  /\ pending' = [pending EXCEPT !["recv"] = @ + 1]
  /\ Goto(t, "registerRecv")
  /\ UNCHANGED <<connVars, queueVars, sendVars, borrowed>>

(* Receiving.  A receive of nothing, a full buffer or a packet that the    *)
(* handler rejects ends the session.                                       *)
ProcessRecv(t) ==
  /\ pc[t] = "processRecv"
  /\ \E label \in {"registerRecv", "disconnect"} : Goto(t, label)
  /\ UNCHANGED <<connVars, queueVars, sendVars, pending, refVars>>

RegisterRecv(t) ==
  /\ pc[t] = "registerRecv"
  /\ Goto(t, IF connectedFast THEN "wsaRecv" ELSE "disconnect")
  /\ UNCHANGED <<connVars, queueVars, sendVars, pending, refVars>>

StartRecv(t) ==
  /\ pc[t] = "wsaRecv"
  /\ socketOpen
  /\ Hand(t, "recv")
  /\ UNCHANGED <<connVars, queueVars, sendVars>>

(* Mutant: the failed receive keeps the reference of its event.            *)
FailRecvKeepingReference(t) ==
  /\ pc[t] = "wsaRecv"
  /\ pc' = [pc EXCEPT ![t] = "disconnect"]
  /\ io' = [io EXCEPT ![t] = "none"]
  /\ UNCHANGED <<connVars, queueVars, sendVars, pending, refVars, packet>>

(* HandleError disconnects first; the reference, in the event by then, is  *)
(* released after that.                                                    *)
FailRecv(t) ==
  /\ pc[t] = "wsaRecv"
  /\ Goto(t, "disconnect")
  /\ UNCHANGED <<connVars, queueVars, sendVars, pending, refVars>>

-----------------------------------------------------------------------------
(* SendAsync and SendOnlyEnqueue, then TrySend.                            *)
CanCall(t) == t \in borrowed /\ pc[t] = "idle"

SwapTail(t) ==
  /\ CanCall(t)
  /\ accepted < MaxSends
  /\ accepted' = accepted + 1
  /\ sendQueue' = Append(sendQueue, accepted + 1)
  /\ packet' = [packet EXCEPT ![t] = accepted + 1]
  /\ pc' = [pc EXCEPT ![t] = "swapped"]
  /\ UNCHANGED <<connVars, sendVars, pending, refVars, io>>

LinkNode(t) ==
  /\ pc[t] = "swapped"
  /\ packet' = [packet EXCEPT ![t] = 0]
  /\ \E label \in {"trySend", "idle"} : pc' = [pc EXCEPT ![t] = label]
  /\ UNCHANGED <<connVars, queueVars, sendVars, pending, refVars, io>>

(* The exchange; its winner posts the register event with a new reference. *)
TrySend(t) ==
  /\ CanCall(t) \/ pc[t] = "trySend"
  /\ sendRegistered' = TRUE
  /\ \/ /\ ~ sendRegistered
        /\ refs' = refs + 1
        /\ pending' = [pending EXCEPT !["registerSend"] = @ + 1]
     \/ /\ sendRegistered
        /\ UNCHANGED <<refs, pending>>
  /\ Goto(t, "idle")
  /\ UNCHANGED <<connVars, queueVars, sendBuffer, wire, borrowed>>

(* RegisterSend.  A session that is not connected keeps its token.         *)
RegisterSend(t) ==
  /\ pc[t] = "registerSend"
  /\ Goto(t, IF connectedFast THEN "flush" ELSE "disconnect")
  /\ UNCHANGED <<connVars, queueVars, sendVars, pending, refVars>>

Unlinked == {packet[t] : t \in {u \in Threads : pc[u] = "swapped"}}

(* Mutant: stops at the node whose next pointer is null, one too early.    *)
FlushAllButLast(t) ==
  /\ pc[t] = "flush"
  /\ \E n \in 0..Len(sendQueue) :
       /\ \A i \in 1..n : sendQueue[i] \notin Unlinked
       /\ n < Len(sendQueue) => sendQueue[n + 1] \in Unlinked
       /\ sendBuffer' = sendBuffer \o SubSeq(sendQueue, 1, n - 1)
       /\ sendQueue' = IF n = 0 THEN sendQueue ELSE SubSeq(sendQueue, n, Len(sendQueue))
  /\ Goto(t, IF sendBuffer' = <<>> THEN "nothingToSend" ELSE "wsaSend")
  /\ UNCHANGED <<connVars, accepted, sendRegistered, wire, pending, refVars>>

FlushSendQueue(t) ==
  /\ pc[t] = "flush"
  /\ \E n \in 0..Len(sendQueue) :
       /\ \A i \in 1..n : sendQueue[i] \notin Unlinked
       /\ n < Len(sendQueue) => sendQueue[n + 1] \in Unlinked
       /\ sendBuffer' = sendBuffer \o SubSeq(sendQueue, 1, n)
       /\ sendQueue' = SubSeq(sendQueue, n + 1, Len(sendQueue))
  /\ Goto(t, IF sendBuffer' = <<>> THEN "nothingToSend" ELSE "wsaSend")
  /\ UNCHANGED <<connVars, accepted, sendRegistered, wire, pending, refVars>>

ReleaseEmptyHanded(t) ==
  /\ pc[t] = "nothingToSend"
  /\ sendRegistered' = FALSE
  /\ Return(t)
  /\ UNCHANGED <<connVars, queueVars, sendBuffer, wire, pending>>

StartSend(t) ==
  /\ pc[t] = "wsaSend"
  /\ socketOpen
  /\ wire' = wire \o sendBuffer
  /\ Hand(t, "send")
  /\ UNCHANGED <<connVars, queueVars, sendRegistered, sendBuffer>>

FailSend(t) ==
  /\ pc[t] = "wsaSend"
  /\ Goto(t, "disconnect")
  /\ UNCHANGED <<connVars, queueVars, sendVars, pending, refVars>>

(* Mutant: the buffers of the completed send are not moved out.            *)
ProcessSendKeepingBuffers(t) ==
  /\ pc[t] = "processSend"
  /\ \E label \in {"sent", "disconnect"} : Goto(t, label)
  /\ UNCHANGED <<connVars, queueVars, sendVars, pending, refVars>>

ProcessSend(t) ==
  /\ pc[t] = "processSend"
  /\ sendBuffer' = <<>>
  /\ \E label \in {"sent", "disconnect"} : Goto(t, label)
  /\ UNCHANGED <<connVars, queueVars, sendRegistered, wire, pending, refVars>>

(* The store that clears the flag and the load of the tail after it may    *)
(* pass each other: nothing between them orders a store before a load.     *)
PeekQueueEarly(t) ==
  /\ pc[t] = "sent"
  /\ Goto(t, IF sendQueue = <<>> THEN "releaseAndLeave" ELSE "releaseAndRetake")
  /\ UNCHANGED <<connVars, queueVars, sendVars, pending, refVars>>

ReleaseToken(t) ==
  /\ sendRegistered' = FALSE
  /\ \/ pc[t] = "sent" /\ Goto(t, "recheck") /\ UNCHANGED refVars
     \/ pc[t] = "releaseAndRetake" /\ Goto(t, "retake") /\ UNCHANGED refVars
     \/ pc[t] = "releaseAndLeave" /\ Return(t)
  /\ UNCHANGED <<connVars, queueVars, sendBuffer, wire, pending>>

RecheckQueue(t) ==
  /\ pc[t] = "recheck"
  /\ \/ sendQueue = <<>> /\ Return(t)
     \/ sendQueue # <<>> /\ Goto(t, "retake") /\ UNCHANGED refVars
  /\ UNCHANGED <<connVars, queueVars, sendVars, pending>>

(* Mutant: the flag is set without looking at what it was.                 *)
RetakeTokenBlindly(t) ==
  /\ pc[t] = "retake"
  /\ sendRegistered' = TRUE
  /\ Goto(t, "registerSend")
  /\ UNCHANGED <<connVars, queueVars, sendBuffer, wire, pending, refVars>>

RetakeToken(t) ==
  /\ pc[t] = "retake"
  /\ sendRegistered' = TRUE
  /\ \/ ~ sendRegistered /\ Goto(t, "registerSend") /\ UNCHANGED refVars
     \/ sendRegistered /\ Return(t)
  /\ UNCHANGED <<connVars, queueVars, sendBuffer, wire, pending>>

-----------------------------------------------------------------------------
(* Disconnect, from any of the above or called by a borrower.              *)
CallDisconnect(t) ==
  /\ CanCall(t)
  /\ Goto(t, "disconnect")
  /\ UNCHANGED <<connVars, queueVars, sendVars, pending, refVars>>

(* Mutant: m_bConnected is stored, not exchanged.                          *)
DisconnectUnconditionally(t) ==
  /\ pc[t] = "disconnect"
  /\ connected' = FALSE
  /\ Goto(t, "lowerFastFlags")
  /\ UNCHANGED <<connectedFast, socketOpen, inService, onDisconnected,
                 queueVars, sendVars, pending, refVars>>

Disconnect(t) ==
  /\ pc[t] = "disconnect"
  /\ connected' = FALSE
  /\ \/ connected /\ Goto(t, "lowerFastFlags") /\ UNCHANGED refVars
     \/ ~ connected /\ Return(t)
  /\ UNCHANGED <<connectedFast, socketOpen, inService, onDisconnected,
                 queueVars, sendVars, pending>>

LowerFastFlags(t) ==
  /\ pc[t] = "lowerFastFlags"
  /\ connectedFast' = FALSE
  /\ Goto(t, "registerDisconnect")
  /\ UNCHANGED <<connected, socketOpen, inService, onDisconnected,
                 queueVars, sendVars, pending, refVars>>

(* DisconnectEx takes a reference of its own; the thread's dies on return. *)
RegisterDisconnect(t) ==
  /\ pc[t] = "registerDisconnect"
  /\ pending' = [pending EXCEPT !["disconnect"] = @ + 1]
  /\ pc' = [pc EXCEPT ![t] = "idle"]
  /\ io' = [io EXCEPT ![t] = "none"]
  /\ refs' = IF io[t] = "none" THEN refs + 1 ELSE refs
  /\ UNCHANGED <<connVars, queueVars, sendVars, borrowed, packet>>

(* The end: at the completion of DisconnectEx, or at once when it fails.   *)
CloseSocket(t) ==
  /\ pc[t] \in {"processDisconnect", "registerDisconnect"}
  /\ socketOpen' = FALSE
  /\ Goto(t, "releaseSession")
  /\ UNCHANGED <<connected, connectedFast, inService, onDisconnected,
                 queueVars, sendVars, pending, refVars>>

(* Mutant: the session is not taken out of its slot.                       *)
KeepSession(t) ==
  /\ pc[t] = "releaseSession"
  /\ Goto(t, "onDisconnected")
  /\ UNCHANGED <<connVars, queueVars, sendVars, pending, refVars>>

ReleaseSession(t) ==
  /\ pc[t] = "releaseSession"
  /\ inService' = FALSE
  /\ refs' = refs - (IF inService THEN 1 ELSE 0)
  /\ Goto(t, "onDisconnected")
  /\ UNCHANGED <<connected, connectedFast, socketOpen, onDisconnected,
                 queueVars, sendVars, pending, borrowed>>

OnDisconnected(t) ==
  /\ pc[t] = "onDisconnected"
  /\ onDisconnected' = onDisconnected + 1
  /\ Return(t)
  /\ UNCHANGED <<connected, connectedFast, socketOpen, inService,
                 queueVars, sendVars, pending>>

-----------------------------------------------------------------------------
(* Service::GetSession, and the end of the borrower's reference.           *)
GetSession(t) ==
  /\ t \in Borrowers \ borrowed
  /\ inService
  /\ FoundEarly \/ \A u \in Workers : pc[u] \notin {"connecting", "connected"}
  /\ borrowed' = borrowed \cup {t}
  /\ refs' = refs + 1
  /\ UNCHANGED <<connVars, queueVars, sendVars, pending, threadVars>>

DropSession(t) ==
  /\ CanCall(t)
  /\ borrowed' = borrowed \ {t}
  /\ refs' = refs - 1
  /\ UNCHANGED <<connVars, queueVars, sendVars, pending, threadVars>>

-----------------------------------------------------------------------------
Receive(t) == ProcessRecv(t) \/ RegisterRecv(t) \/ StartRecv(t) \/ FailRecv(t)

Send(t) ==
  \/ RegisterSend(t) \/ FlushSendQueue(t) \/ ReleaseEmptyHanded(t)
  \/ StartSend(t) \/ FailSend(t) \/ ProcessSend(t) \/ PeekQueueEarly(t)
  \/ ReleaseToken(t) \/ RecheckQueue(t) \/ RetakeToken(t)

Close(t) ==
  \/ Disconnect(t) \/ LowerFastFlags(t) \/ RegisterDisconnect(t)
  \/ CloseSocket(t) \/ ReleaseSession(t) \/ OnDisconnected(t)

Accept(t) ==
  RefuseConnection(t) \/ AddSession(t) \/ RaiseFastFlags(t) \/ Connected(t)

Borrow(t) ==
  \/ GetSession(t) \/ DropSession(t) \/ SwapTail(t)
  \/ LinkNode(t) \/ TrySend(t) \/ CallDisconnect(t)

Next ==
  \E t \in Threads :
    \/ \E kind \in Kinds : Dispatch(t, kind)
    \/ Accept(t) \/ Receive(t) \/ Send(t) \/ Close(t) \/ Borrow(t)

(* A thread inside a call goes on; the port hands out every packet; the    *)
(* receive and the send under way on a closed socket complete; a borrower  *)
(* does not keep its reference forever.                                    *)
Fairness ==
  /\ \A t \in Threads : WF_vars(Accept(t) \/ Receive(t) \/ Send(t) \/ Close(t) \/ LinkNode(t))
  /\ \A t \in Threads : WF_vars(pc[t] = "trySend" /\ TrySend(t))
  /\ \A kind \in Kinds \ {"accept", "recv"} : SF_vars(\E t \in Workers : Dispatch(t, kind))
  /\ SF_vars(~ socketOpen /\ \E t \in Workers : Dispatch(t, "recv"))
  /\ \A t \in Borrowers : SF_vars(DropSession(t))

SafetySpec == Init /\ [][Next]_vars

Spec == SafetySpec /\ Fairness

-----------------------------------------------------------------------------
Labels ==
  {"idle", "addSession", "connecting", "connected", "processRecv", "registerRecv",
   "wsaRecv", "swapped", "trySend", "registerSend", "flush", "nothingToSend",
   "wsaSend", "processSend", "sent", "releaseAndLeave", "releaseAndRetake",
   "recheck", "retake", "disconnect", "lowerFastFlags", "registerDisconnect",
   "processDisconnect", "releaseSession", "onDisconnected"}

TypeOK ==
  /\ {connected, connectedFast, socketOpen, inService, sendRegistered} \subseteq BOOLEAN
  /\ onDisconnected \in Nat /\ refs \in Nat
  /\ accepted \in 0..MaxSends
  /\ {sendQueue, sendBuffer, wire} \subseteq Seq(1..MaxSends)
  /\ pending \in [Kinds -> Nat]
  /\ borrowed \subseteq Borrowers
  /\ pc \in [Threads -> Labels]
  /\ io \in [Threads -> Kinds \cup {"none"}]
  /\ packet \in [Threads -> 0..MaxSends]
  /\ \A t \in Borrowers : io[t] = "none" /\ (t \notin borrowed => pc[t] = "idle")

(* The send token is never in two places, never out while the flag is down *)
(* and, unless the session was found before it was connected, never lost   *)
(* by a connected session.  With two tokens two threads would fill         *)
(* m_sendBuffer and reuse one OVERLAPPED; with none the session would stay *)
(* mute for good (TrySend, RegisterSend, ProcessSend).                     *)
HoldingToken ==
  {t \in Threads :
     /\ io[t] \in {"registerSend", "send"}
     /\ pc[t] \in {"registerSend", "flush", "nothingToSend", "wsaSend", "processSend",
                   "sent", "releaseAndLeave", "releaseAndRetake", "disconnect"}}
Tokens == pending["registerSend"] + pending["send"] + Cardinality(HoldingToken)
SendTokenDiscipline ==
  /\ Tokens <= 1
  /\ ~ sendRegistered => Tokens = 0
  /\ sendRegistered /\ connected /\ ~ FoundEarly => Tokens = 1

(* What goes to the socket is a prefix of what was queued: no batch is     *)
(* lost, repeated or overtaken, although any thread may send any batch and *)
(* a failed send leaves its batch behind (RegisterSend).                   *)
WireIsPrefix == wire = [i \in 1..Len(wire) |-> i]

(* The reference count is the number of events, operations, slots and      *)
(* threads that hold the session; so it is never freed with an operation   *)
(* under way, and no path of error forgets or repeats a release            *)
(* (SetIocpObject, PassIocpObject, ReleaseIocpObject).                     *)
Holders ==
  pending["accept"] + pending["recv"] + pending["send"] + pending["registerSend"]
    + pending["disconnect"] + Cardinality({t \in Threads : io[t] # "none"})
    + Cardinality(borrowed) + (IF inService THEN 1 ELSE 0)
RefsAreExact == refs = Holders

(* Packet handlers of one session never run concurrently, although any     *)
(* worker may run them: the next receive is started by the thread that     *)
(* finished with the last one.                                             *)
HandlersAreSerial ==
  pending["accept"] + pending["recv"]
    + Cardinality({t \in Threads : io[t] \in {"accept", "recv"}}) <= 1

(* However many threads disconnect the session, the contents layer hears   *)
(* of it once, and the slot is free by then.                               *)
DisconnectedOnce ==
  /\ onDisconnected <= 1
  /\ onDisconnected = 1 => ~ connected /\ ~ connectedFast /\ ~ inService

(* A disconnected session is torn down, and is freed once the operations   *)
(* on its socket have come back.                                           *)
DisconnectCompletes ==
  (\E t \in Threads : pc[t] = "lowerFastFlags") ~> (onDisconnected = 1 /\ refs = 0)

(* What is queued and linked while the register event of a connected       *)
(* session waits at the port is sent, unless the session is disconnected   *)
(* and OnDisconnected tells so. Three kinds of packet are not on the left  *)
(* side and may stay: those of a borrower that came before the session was *)
(* connected, when RegisterSend keeps the token for good; what a flush     *)
(* that stopped at an unlinked node left, until the next TrySend; and what *)
(* was queued after a check that passed the release, until then.           *)
Flushable(m) ==
  \E n \in 1..Len(sendQueue) :
    sendQueue[n] = m /\ \A i \in 1..n : sendQueue[i] \notin Unlinked
PostedSendIsFlushed ==
  \A m \in 1..MaxSends :
    (connected /\ pending["registerSend"] > 0 /\ Flushable(m))
      ~> (onDisconnected = 1 \/ \E i \in 1..Len(wire) : wire[i] = m)
=============================================================================
