---------------------------- MODULE SessionProofs ----------------------------
(***************************************************************************)
(* The safety invariants of Session, for any number of workers, borrowers  *)
(* and packets, and at the end those of RecvBuffer, in which a             *)
(* PacketSession receives, for every buffer and packet size.               *)
(*                                                                         *)
(* The sums and cardinalities of the invariants are restated with          *)
(* quantifiers: at most one of the events and threads of a kind is there   *)
(* (ChainInv for the receives, EndInv for the teardown, TokenInv for the   *)
(* sends). OrderInv then needs the token, since only its holder may touch  *)
(* sendBuffer and wire, and the token needs Quiet: before the session is   *)
(* connected nobody has tried to send.                                     *)
(***************************************************************************)
EXTENDS Session, RecvBuffer, Integers, FiniteSetTheorems, SequenceTheorems, TLAPS

Types ==
  /\ connected \in BOOLEAN /\ connectedFast \in BOOLEAN /\ socketOpen \in BOOLEAN
  /\ inService \in BOOLEAN /\ sendRegistered \in BOOLEAN
  /\ onDisconnected \in Nat /\ refs \in Int
  /\ accepted \in 0..MaxSends
  /\ sendQueue \in Seq(1..MaxSends) /\ sendBuffer \in Seq(1..MaxSends)
  /\ wire \in Seq(1..MaxSends)
  /\ pending \in [Kinds -> Nat]
  /\ borrowed \subseteq Borrowers
  /\ pc \in [Threads -> Labels]
  /\ io \in [Threads -> Kinds \cup {"none"}]
  /\ packet \in [Threads -> 0..MaxSends]

(* The completion a thread serves, by where it is.                         *)
Serves(t, labels, kinds) == pc[t] \in labels => io[t] \in kinds

Served ==
  /\ \A t \in Threads :
       /\ Serves(t, {"idle", "swapped", "trySend"}, {"none"})
       /\ Serves(t, {"addSession", "connecting", "connected"}, {"accept"})
       /\ Serves(t, {"processRecv"}, {"recv"})
       /\ Serves(t, {"registerRecv", "wsaRecv"}, {"accept", "recv"})
       /\ Serves(t, {"registerSend", "flush", "nothingToSend", "wsaSend"}, {"registerSend", "send"})
       /\ Serves(t, {"processSend", "sent", "releaseAndLeave", "releaseAndRetake",
                     "recheck", "retake"}, {"send"})
       /\ Serves(t, {"disconnect", "lowerFastFlags", "registerDisconnect"},
                 {"accept", "recv", "registerSend", "send", "none"})
       /\ Serves(t, {"processDisconnect"}, {"disconnect"})
  /\ \A t \in Borrowers : io[t] = "none" /\ (t \notin borrowed => pc[t] = "idle")
  /\ \A t \in Threads : pc[t] \in {"swapped", "trySend"} => t \in borrowed

(* The one chain of receives.                                              *)
Receiving(t) == io[t] \in {"accept", "recv"}

ChainInv ==
  /\ pending["accept"] + pending["recv"] <= 1
  /\ \A t \in Threads : Receiving(t) => pending["accept"] = 0 /\ pending["recv"] = 0
  /\ \A t, u \in Threads : Receiving(t) /\ Receiving(u) => t = u

(* The session is not connected yet, or is on its way out.                 *)
Arriving(t) == pc[t] \in {"addSession", "connecting", "connected"}
Ending(t) == pc[t] \in {"lowerFastFlags", "registerDisconnect", "processDisconnect",
                       "releaseSession", "onDisconnected"}

NotEnded ==
  pending["disconnect"] = 0 /\ onDisconnected = 0 /\ \A t \in Threads : ~ Ending(t)

EndInv ==
  /\ pending["disconnect"] + onDisconnected <= 1
  /\ \A t \in Threads : Ending(t) => pending["disconnect"] = 0 /\ onDisconnected = 0
  /\ \A t, u \in Threads : Ending(t) /\ Ending(u) => t = u
  /\ connected => pending["accept"] = 0 /\ NotEnded
  /\ pending["accept"] = 1 => NotEnded
  /\ \A t \in Threads : Arriving(t) => ~ connected /\ NotEnded

(* The flags go down, and the slot is given up, before OnDisconnected.     *)
FlagInv ==
  /\ onDisconnected = 1 => ~ inService
  /\ pending["disconnect"] + onDisconnected = 1 => ~ connectedFast
  /\ \A t \in Threads : pc[t] \in {"registerDisconnect", "processDisconnect", "releaseSession",
                                  "onDisconnected"} => ~ connectedFast
  /\ \A t \in Threads : pc[t] = "onDisconnected" => ~ inService

(* Nobody has the session before it is connected.                          *)
Untouched ==
  borrowed = {} /\ ~ sendRegistered /\ \A t \in Threads : pc[t] \notin {"recheck", "retake"}

Quiet ==
  /\ pending["accept"] = 1 => ~ inService
  /\ \A t \in Threads : pc[t] = "addSession" => ~ inService
  /\ ~ FoundEarly =>
       /\ pending["accept"] = 1 => Untouched
       /\ \A t \in Threads : Arriving(t) => Untouched

Holds(t) ==
  /\ io[t] \in {"registerSend", "send"}
  /\ pc[t] \in {"registerSend", "flush", "nothingToSend", "wsaSend", "processSend",
                "sent", "releaseAndLeave", "releaseAndRetake", "disconnect"}

TokenInv ==
  /\ pending["registerSend"] + pending["send"] <= 1
  /\ \A t \in Threads : Holds(t) =>
       sendRegistered /\ pending["registerSend"] = 0 /\ pending["send"] = 0
  /\ \A t, u \in Threads : Holds(t) /\ Holds(u) => t = u
  /\ ~ sendRegistered => pending["registerSend"] = 0 /\ pending["send"] = 0
  /\ sendRegistered /\ connected /\ ~ FoundEarly =>
       \/ pending["registerSend"] + pending["send"] = 1
       \/ \E t \in Threads : Holds(t)

(* The buffers of a send under way are on the wire already.                *)
Sending == pending["send"] = 1 \/ \E t \in Threads : pc[t] = "processSend"
Left == IF Sending THEN 0 ELSE Len(sendBuffer)

OrderInv ==
  /\ Len(wire) + Left + Len(sendQueue) = accepted
  /\ \A i \in 1..Len(wire) : wire[i] = i
  /\ \A i \in 1..Left : sendBuffer[i] = Len(wire) + i
  /\ \A i \in 1..Len(sendQueue) : sendQueue[i] = Len(wire) + Left + i

IInv ==
  /\ Types /\ Served /\ ChainInv /\ EndInv /\ FlagInv /\ Quiet
  /\ TokenInv /\ OrderInv /\ RefsAreExact

USE SessionAssumption
-----------------------------------------------------------------------------
(* Cutting a sequence in two.                                              *)
LEMMA Cut ==
  ASSUME NEW S, NEW s \in Seq(S), NEW n \in 0..Len(s)
  PROVE  /\ SubSeq(s, 1, n) \in Seq(S) /\ Len(SubSeq(s, 1, n)) = n
         /\ \A i \in 1..n : SubSeq(s, 1, n)[i] = s[i]
         /\ SubSeq(s, n + 1, Len(s)) \in Seq(S) /\ Len(SubSeq(s, n + 1, Len(s))) = Len(s) - n
         /\ \A i \in 1..(Len(s) - n) : SubSeq(s, n + 1, Len(s))[i] = s[n + i]
<1>1. Len(s) \in Nat /\ \A i \in 1..Len(s) : s[i] \in S
  OBVIOUS
<1>2. /\ SubSeq(s, 1, n) \in Seq(S)
      /\ Len(SubSeq(s, 1, n)) = IF 1 <= n THEN n - 1 + 1 ELSE 0
      /\ \A i \in 1..(n - 1 + 1) : SubSeq(s, 1, n)[i] = s[1 + i - 1]
  <2>1. \A i \in 1..n : s[i] \in S
    BY <1>1
  <2> QED
    BY <2>1, SubSeqProperties
<1>3. /\ SubSeq(s, n + 1, Len(s)) \in Seq(S)
      /\ Len(SubSeq(s, n + 1, Len(s))) = IF n + 1 <= Len(s) THEN Len(s) - (n + 1) + 1 ELSE 0
      /\ \A i \in 1..(Len(s) - (n + 1) + 1) : SubSeq(s, n + 1, Len(s))[i] = s[n + 1 + i - 1]
  <2>1. \A i \in (n + 1)..Len(s) : s[i] \in S
    BY <1>1
  <2>2. n + 1 \in Int /\ Len(s) \in Int
    BY <1>1
  <2> QED
    BY <2>1, <2>2, SubSeqProperties
<1> QED
  BY <1>1, <1>2, <1>3

(* What the sums say of an ending session, and of an accept.               *)
LEMMA EndFacts ==
  ASSUME IInv
  PROVE  /\ pending["accept"] \in {0, 1}
         /\ pending["accept"] > 0 => ~ connected /\ NotEnded
         /\ pending["disconnect"] \in {0, 1}
         /\ pending["disconnect"] > 0 =>
              /\ ~ connected /\ pending["accept"] = 0 /\ onDisconnected = 0
              /\ \A u \in Threads : ~ Ending(u) /\ ~ Arriving(u)
         /\ \A t \in Threads : Ending(t) =>
              /\ ~ connected /\ pending["accept"] = 0 /\ onDisconnected = 0
              /\ pending["disconnect"] = 0
<1>1. /\ pending["accept"] \in Nat /\ pending["recv"] \in Nat
      /\ pending["disconnect"] \in Nat /\ onDisconnected \in Nat
  BY DEF IInv, Types, Kinds
<1>2. pending["accept"] \in {0, 1}
  BY <1>1 DEF IInv, ChainInv
<1>3. pending["disconnect"] \in {0, 1}
  BY <1>1 DEF IInv, EndInv
<1>4. pending["accept"] # 0 => ~ connected /\ NotEnded
  BY <1>2 DEF IInv, EndInv
<1>5. /\ pending["disconnect"] # 0 => onDisconnected = 0
      /\ \A t \in Threads : Ending(t) => onDisconnected = 0 /\ pending["disconnect"] = 0
  BY <1>1, <1>3 DEF IInv, EndInv
<1>6. (\E t \in Threads : Ending(t)) \/ pending["disconnect"] # 0 => ~ connected /\ ~ NotEnded
  BY DEF IInv, EndInv, NotEnded
<1>7. pending["disconnect"] # 0 => \A u \in Threads : ~ Ending(u) /\ ~ Arriving(u)
  BY DEF IInv, EndInv, NotEnded
<1> QED
  BY <1>1, <1>2, <1>3, <1>4, <1>5, <1>6, <1>7

(* What the sums say of the send token.                                    *)
LEMMA TokenFacts ==
  ASSUME IInv
  PROVE  /\ pending["registerSend"] \in {0, 1} /\ pending["send"] \in {0, 1}
         /\ pending["registerSend"] = 0 \/ pending["send"] = 0
         /\ pending["registerSend"] # 0 \/ pending["send"] # 0 =>
              sendRegistered /\ \A u \in Threads : ~ Holds(u)
         /\ \A t \in Threads : Holds(t) =>
              sendRegistered /\ pending["registerSend"] = 0 /\ pending["send"] = 0
<1>1. pending["registerSend"] \in Nat /\ pending["send"] \in Nat
  BY DEF IInv, Types, Kinds
<1>2. /\ pending["registerSend"] + pending["send"] <= 1
      /\ ~ sendRegistered => pending["registerSend"] = 0 /\ pending["send"] = 0
      /\ \A t \in Threads : Holds(t) =>
           sendRegistered /\ pending["registerSend"] = 0 /\ pending["send"] = 0
  BY DEF IInv, TokenInv
<1> QED
  BY <1>1, <1>2

LEMMA LeftNat == ASSUME Types PROVE Left \in Nat
  BY DEF Types, Left

(* Who holds the token is the only one that can be sending.                *)
LEMMA OneSender ==
  ASSUME IInv, NEW t \in Threads, Holds(t)
  PROVE  pending["send"] = 0 /\ \A u \in Threads : pc[u] = "processSend" => u = t
<1>1. \A u \in Threads : pc[u] = "processSend" => Holds(u)
  BY DEF IInv, Served, Serves, Holds
<1> QED
  BY <1>1 DEF IInv, TokenInv

LEMMA OrderKept ==
  ASSUME OrderInv, UNCHANGED <<accepted, sendQueue, sendBuffer, wire>>, Sending' <=> Sending
  PROVE  OrderInv'
<1>1. Left' = Left
  BY DEF Left
<1> QED
  BY <1>1 DEF OrderInv

-----------------------------------------------------------------------------
(* The references, by who holds them.                                      *)
Held == pending["accept"] + pending["recv"] + pending["send"]
          + pending["registerSend"] + pending["disconnect"]
Busy == {t \in Threads : io[t] # "none"}
Slot == IF inService THEN 1 ELSE 0

LEMMA Sum ==
  /\ Holders = Held + Cardinality(Busy) + Cardinality(borrowed) + Slot
  /\ Holders' = Held' + Cardinality(Busy)' + Cardinality(borrowed)' + Slot'
  BY DEF Holders, Held, Busy, Slot

LEMMA HeldChanges ==
  ASSUME IInv, NEW k \in Kinds
  PROVE  /\ Held \in Nat /\ pending[k] \in Nat
         /\ pending' = [pending EXCEPT ![k] = pending[k] + 1] => Held' = Held + 1
         /\ pending' = [pending EXCEPT ![k] = pending[k] - 1] => Held' = Held - 1
<1>1. pending \in [Kinds -> Nat]
  BY DEF IInv, Types
<1>2. CASE k = "accept"
  BY <1>1, <1>2 DEF Held, Kinds
<1>3. CASE k = "recv"
  BY <1>1, <1>3 DEF Held, Kinds
<1>4. CASE k = "send"
  BY <1>1, <1>4 DEF Held, Kinds
<1>5. CASE k = "registerSend"
  BY <1>1, <1>5 DEF Held, Kinds
<1>6. CASE k = "disconnect"
  BY <1>1, <1>6 DEF Held, Kinds
<1> QED
  BY <1>2, <1>3, <1>4, <1>5, <1>6 DEF Kinds

LEMMA FiniteParts ==
  ASSUME IInv
  PROVE  /\ IsFiniteSet(Busy) /\ Cardinality(Busy) \in Nat
         /\ IsFiniteSet(borrowed) /\ Cardinality(borrowed) \in Nat
<1>1. Busy \subseteq Workers \cup Borrowers /\ borrowed \subseteq Workers \cup Borrowers
  BY DEF Busy, Threads, IInv, Types
<1> QED
  BY <1>1, FS_Subset, FS_CardinalityType

LEMMA BusyChanges ==
  ASSUME IInv, NEW t \in Threads
  PROVE  /\ io' = [io EXCEPT ![t] = "none"] =>
              Cardinality(Busy)' = Cardinality(Busy) - (IF io[t] = "none" THEN 0 ELSE 1)
         /\ \A k \in Kinds : io[t] = "none" /\ io' = [io EXCEPT ![t] = k] =>
              Cardinality(Busy)' = Cardinality(Busy) + 1
<1>1. io \in [Threads -> Kinds \cup {"none"}]
  BY DEF IInv, Types
<1>2. ASSUME io' = [io EXCEPT ![t] = "none"]
      PROVE  Cardinality(Busy)' = Cardinality(Busy) - (IF io[t] = "none" THEN 0 ELSE 1)
  <2>1. Busy' = Busy \ {t} /\ (t \in Busy <=> io[t] # "none")
    BY <1>1, <1>2 DEF Busy
  <2>2. Cardinality(Busy \ {t}) = IF t \in Busy THEN Cardinality(Busy) - 1 ELSE Cardinality(Busy)
    BY FiniteParts, FS_RemoveElement
  <2> QED
    BY <2>1, <2>2, FiniteParts
<1>3. ASSUME NEW k \in Kinds, io[t] = "none", io' = [io EXCEPT ![t] = k]
      PROVE  Cardinality(Busy)' = Cardinality(Busy) + 1
  <2>1. Busy' = Busy \cup {t} /\ t \notin Busy
    BY <1>1, <1>3 DEF Busy, Kinds
  <2>2. Cardinality(Busy \cup {t}) = Cardinality(Busy) + 1
    BY <2>1, FiniteParts, FS_AddElement
  <2> QED
    BY <2>1, <2>2
<1> QED
  BY <1>2, <1>3

LEMMA RefsKept ==
  ASSUME IInv, UNCHANGED <<io, refs, borrowed, pending, inService>>
  PROVE  RefsAreExact'
<1>1. Holders' = Holders
  BY DEF Holders
<1> QED
  BY <1>1 DEF IInv, RefsAreExact

(* A thread that returns gives up the reference it has, if it has one.     *)
LEMMA ReturnKeepsRefs ==
  ASSUME IInv, NEW t \in Threads, Return(t), UNCHANGED <<pending, inService>>
  PROVE  RefsAreExact'
<1>1. /\ io' = [io EXCEPT ![t] = "none"] /\ borrowed' = borrowed
      /\ refs' = IF io[t] = "none" THEN refs ELSE refs - 1
  BY DEF Return
<1>2. Held' = Held /\ Slot' = Slot /\ Cardinality(borrowed)' = Cardinality(borrowed)
  BY <1>1 DEF Held, Slot
<1>3. Cardinality(Busy)' = Cardinality(Busy) - (IF io[t] = "none" THEN 0 ELSE 1)
  BY <1>1, BusyChanges
<1>4. Held \in Nat /\ Slot \in Nat
  BY HeldChanges DEF Kinds, Slot
<1> QED
  BY <1>1, <1>2, <1>3, <1>4, Sum, FiniteParts DEF IInv, RefsAreExact

(* A thread that starts an operation leaves its reference to it.           *)
LEMMA HandKeepsRefs ==
  ASSUME IInv, NEW t \in Threads, NEW k \in Kinds, Hand(t, k), io[t] # "none",
         inService' = inService
  PROVE  RefsAreExact'
<1>1. /\ io' = [io EXCEPT ![t] = "none"] /\ borrowed' = borrowed /\ refs' = refs
      /\ pending' = [pending EXCEPT ![k] = pending[k] + 1]
  BY DEF Hand, refVars
<1>2. Held' = Held + 1 /\ Slot' = Slot /\ Cardinality(borrowed)' = Cardinality(borrowed)
  BY <1>1, HeldChanges DEF Slot
<1>3. Cardinality(Busy)' = Cardinality(Busy) - 1
  BY <1>1, BusyChanges
<1>4. Held \in Nat /\ Slot \in Nat
  BY HeldChanges DEF Slot
<1> QED
  BY <1>1, <1>2, <1>3, <1>4, Sum, FiniteParts DEF IInv, RefsAreExact

LEMMA TypesStep == IInv /\ [Next]_vars => Types'
<1> SUFFICES ASSUME IInv, [Next]_vars PROVE Types'
  OBVIOUS
<1>0. Types
  BY DEF IInv, Types
<1> USE <1>0 DEF Types, Labels, Kinds
<1>1. CASE UNCHANGED vars
  BY <1>1 DEF vars, connVars, queueVars, sendVars, refVars, threadVars
<1>2. ASSUME NEW t \in Threads, NEW kind \in Kinds, Dispatch(t, kind) PROVE Types'
  BY SMTT(30), <1>2 DEF Dispatch, EntryOf, connVars, queueVars, sendVars, refVars
<1>3. ASSUME NEW t \in Threads, RefuseConnection(t) PROVE Types'
  BY <1>3 DEF RefuseConnection, Return, connVars, queueVars, sendVars
<1>4. ASSUME NEW t \in Threads, AddSession(t) PROVE Types'
  BY <1>4 DEF AddSession, Goto, queueVars, sendVars
<1>5. ASSUME NEW t \in Threads, RaiseFastFlags(t) PROVE Types'
  BY <1>5 DEF RaiseFastFlags, Goto, queueVars, sendVars, refVars
<1>6. ASSUME NEW t \in Threads, Connected(t) PROVE Types'
  BY <1>6 DEF Connected, Goto, queueVars, sendVars, refVars
<1>7. ASSUME NEW t \in Threads, ProcessRecv(t) PROVE Types'
  BY <1>7 DEF ProcessRecv, Goto, connVars, queueVars, sendVars, refVars
<1>8. ASSUME NEW t \in Threads, RegisterRecv(t) PROVE Types'
  BY <1>8 DEF RegisterRecv, Goto, connVars, queueVars, sendVars, refVars
<1>9. ASSUME NEW t \in Threads, StartRecv(t) PROVE Types'
  BY <1>9 DEF StartRecv, Hand, connVars, queueVars, sendVars, refVars
<1>10. ASSUME NEW t \in Threads, FailRecv(t) PROVE Types'
  BY <1>10 DEF FailRecv, Goto, connVars, queueVars, sendVars, refVars
<1>11. ASSUME NEW t \in Threads, RegisterSend(t) PROVE Types'
  BY <1>11 DEF RegisterSend, Goto, connVars, queueVars, sendVars, refVars
<1>12. ASSUME NEW t \in Threads, FlushSendQueue(t) PROVE Types'
  <2>1. PICK n \in 0..Len(sendQueue) :
          /\ sendBuffer' = sendBuffer \o SubSeq(sendQueue, 1, n)
          /\ sendQueue' = SubSeq(sendQueue, n + 1, Len(sendQueue))
    BY <1>12 DEF FlushSendQueue
  <2>2. SubSeq(sendQueue, 1, n) \in Seq(1..MaxSends) /\ sendQueue' \in Seq(1..MaxSends)
    BY <2>1, Cut
  <2>3. sendBuffer' \in Seq(1..MaxSends)
    BY <2>1, <2>2, ConcatProperties
  <2> QED
    BY <1>12, <2>2, <2>3 DEF FlushSendQueue, Goto, connVars, refVars
<1>13. ASSUME NEW t \in Threads, ReleaseEmptyHanded(t) PROVE Types'
  <2>1. refs' \in Int
    BY <1>13 DEF ReleaseEmptyHanded, Return
  <2> QED
    BY <1>13, <2>1 DEF ReleaseEmptyHanded, Return, connVars, queueVars
<1>14. ASSUME NEW t \in Threads, StartSend(t) PROVE Types'
  BY <1>14 DEF StartSend, Hand, connVars, queueVars, refVars
<1>15. ASSUME NEW t \in Threads, FailSend(t) PROVE Types'
  BY <1>15 DEF FailSend, Goto, connVars, queueVars, sendVars, refVars
<1>16. ASSUME NEW t \in Threads, ProcessSend(t) PROVE Types'
  BY <1>16 DEF ProcessSend, Goto, connVars, queueVars, refVars
<1>17. ASSUME NEW t \in Threads, PeekQueueEarly(t) PROVE Types'
  BY <1>17 DEF PeekQueueEarly, Goto, connVars, queueVars, sendVars, refVars
<1>18. ASSUME NEW t \in Threads, ReleaseToken(t) PROVE Types'
  <2>0. refs' \in Int
    BY <1>18 DEF ReleaseToken, Goto, Return, refVars
  <2>1. CASE pc[t] = "sent" /\ Goto(t, "recheck") /\ UNCHANGED refVars
    BY <1>18, <2>0, <2>1 DEF ReleaseToken, Goto, Return, connVars, queueVars, refVars
  <2>2. CASE pc[t] = "releaseAndRetake" /\ Goto(t, "retake") /\ UNCHANGED refVars
    BY <1>18, <2>0, <2>2 DEF ReleaseToken, Goto, Return, connVars, queueVars, refVars
  <2>3. CASE pc[t] = "releaseAndLeave" /\ Return(t)
    BY <1>18, <2>0, <2>3 DEF ReleaseToken, Goto, Return, connVars, queueVars, refVars
  <2> QED
    BY <1>18, <2>1, <2>2, <2>3 DEF ReleaseToken
<1>19. ASSUME NEW t \in Threads, RecheckQueue(t) PROVE Types'
  <2>0. refs' \in Int
    BY <1>19 DEF RecheckQueue, Goto, Return, refVars
  <2>1. CASE Return(t)
    BY <1>19, <2>0, <2>1 DEF RecheckQueue, Goto, Return, connVars, queueVars, sendVars, refVars
  <2>2. CASE Goto(t, "retake") /\ UNCHANGED refVars
    BY <1>19, <2>0, <2>2 DEF RecheckQueue, Goto, Return, connVars, queueVars, sendVars, refVars
  <2> QED
    BY <1>19, <2>1, <2>2 DEF RecheckQueue
<1>20. ASSUME NEW t \in Threads, RetakeToken(t) PROVE Types'
  <2>0. refs' \in Int
    BY <1>20 DEF RetakeToken, Goto, Return, refVars
  <2>1. CASE ~ sendRegistered /\ Goto(t, "registerSend") /\ UNCHANGED refVars
    BY <1>20, <2>0, <2>1 DEF RetakeToken, Goto, Return, connVars, queueVars, refVars
  <2>2. CASE sendRegistered /\ Return(t)
    BY <1>20, <2>0, <2>2 DEF RetakeToken, Goto, Return, connVars, queueVars, refVars
  <2> QED
    BY <1>20, <2>1, <2>2 DEF RetakeToken
<1>21. ASSUME NEW t \in Threads, Disconnect(t) PROVE Types'
  <2>0. refs' \in Int
    BY <1>21 DEF Disconnect, Goto, Return, refVars
  <2>1. CASE connected /\ Goto(t, "lowerFastFlags") /\ UNCHANGED refVars
    BY <1>21, <2>0, <2>1 DEF Disconnect, Goto, Return, queueVars, sendVars, refVars
  <2>2. CASE ~ connected /\ Return(t)
    BY <1>21, <2>0, <2>2 DEF Disconnect, Goto, Return, queueVars, sendVars, refVars
  <2> QED
    BY <1>21, <2>1, <2>2 DEF Disconnect
<1>22. ASSUME NEW t \in Threads, LowerFastFlags(t) PROVE Types'
  BY <1>22 DEF LowerFastFlags, Goto, queueVars, sendVars, refVars
<1>23. ASSUME NEW t \in Threads, RegisterDisconnect(t) PROVE Types'
  BY <1>23 DEF RegisterDisconnect, connVars, queueVars, sendVars
<1>24. ASSUME NEW t \in Threads, CloseSocket(t) \/ ReleaseSession(t) \/ OnDisconnected(t)
       PROVE  Types'
  <2>1. CASE CloseSocket(t)
    BY <2>1 DEF CloseSocket, Goto, queueVars, sendVars, refVars
  <2>2. CASE ReleaseSession(t)
    <3>1. refs' \in Int
      BY <2>2 DEF ReleaseSession
    <3>2. /\ inService' = FALSE /\ Goto(t, "onDisconnected")
          /\ UNCHANGED <<connected, connectedFast, socketOpen, onDisconnected,
                         queueVars, sendVars, pending, borrowed>>
      BY <2>2 DEF ReleaseSession
    <3> QED
      BY <3>1, <3>2 DEF Goto, queueVars, sendVars
  <2>3. CASE OnDisconnected(t)
    BY <2>3 DEF OnDisconnected, Return, queueVars, sendVars
  <2> QED
    BY <1>24, <2>1, <2>2, <2>3
<1>25. ASSUME NEW t \in Threads, GetSession(t) PROVE Types'
  BY <1>25 DEF GetSession, connVars, queueVars, sendVars, threadVars
<1>26. ASSUME NEW t \in Threads, DropSession(t) PROVE Types'
  BY <1>26 DEF DropSession, CanCall, connVars, queueVars, sendVars, threadVars
<1>27. ASSUME NEW t \in Threads, SwapTail(t) PROVE Types'
  BY <1>27 DEF SwapTail, CanCall, connVars, sendVars, refVars
<1>28. ASSUME NEW t \in Threads, LinkNode(t) PROVE Types'
  BY <1>28 DEF LinkNode, connVars, queueVars, sendVars, refVars
<1>29. ASSUME NEW t \in Threads, TrySend(t) PROVE Types'
  BY SMTT(30), <1>29 DEF TrySend, Goto, CanCall, connVars, queueVars
<1>30. ASSUME NEW t \in Threads, CallDisconnect(t) PROVE Types'
  BY <1>30 DEF CallDisconnect, Goto, CanCall, connVars, queueVars, sendVars, refVars
<1> QED
  BY <1>1, <1>2, <1>3, <1>4, <1>5, <1>6, <1>7, <1>8, <1>9, <1>10, <1>11, <1>12, <1>13, <1>14,
     <1>15, <1>16, <1>17, <1>18, <1>19, <1>20, <1>21, <1>22, <1>23, <1>24, <1>25, <1>26,
     <1>27, <1>28, <1>29, <1>30 DEF Next, Accept, Receive, Send, Close, Borrow

LEMMA ServedStep == IInv /\ [Next]_vars => Served'
<1> SUFFICES ASSUME IInv, [Next]_vars PROVE Served'
  OBVIOUS
<1>0. /\ pc \in [Threads -> Labels]
      /\ io \in [Threads -> Kinds \cup {"none"}] /\ borrowed \subseteq Borrowers /\ Served
  BY DEF IInv, Types
<1> USE <1>0 DEF Served, Serves, Labels, Kinds, Threads
<1>1. CASE UNCHANGED vars
  BY <1>1 DEF vars, connVars, queueVars, sendVars, refVars, threadVars
<1>2. ASSUME NEW t \in Threads,
             RefuseConnection(t) \/ AddSession(t) \/ RaiseFastFlags(t) \/ Connected(t)
             \/ ProcessRecv(t)
      PROVE  Served'
  BY <1>2 DEF RefuseConnection, AddSession, RaiseFastFlags, Connected, ProcessRecv, Return,
     connVars, queueVars, sendVars, Goto, refVars
<1>3. ASSUME NEW t \in Threads,
             RegisterRecv(t) \/ StartRecv(t) \/ FailRecv(t) \/ RegisterSend(t)
             \/ FlushSendQueue(t)
      PROVE  Served'
  BY <1>3 DEF RegisterRecv, StartRecv, FailRecv, RegisterSend, FlushSendQueue, Goto,
     connVars, queueVars, sendVars, refVars, Hand, Unlinked
<1>4. ASSUME NEW t \in Threads,
             ReleaseEmptyHanded(t) \/ StartSend(t) \/ FailSend(t) \/ ProcessSend(t)
             \/ PeekQueueEarly(t)
      PROVE  Served'
  BY <1>4 DEF ReleaseEmptyHanded, StartSend, FailSend, ProcessSend, PeekQueueEarly, Return,
     connVars, queueVars, Hand, refVars, Goto, sendVars
<1>5. ASSUME NEW t \in Threads,
             LowerFastFlags(t) \/ RegisterDisconnect(t) \/ GetSession(t) \/ DropSession(t)
      PROVE  Served'
  BY <1>5 DEF LowerFastFlags, RegisterDisconnect, GetSession, DropSession, Goto,
     queueVars, sendVars, refVars, connVars, threadVars, CanCall
<1>e. ASSUME NEW t \in Threads, CloseSocket(t) \/ ReleaseSession(t) \/ OnDisconnected(t)
      PROVE  Served'
  BY <1>e DEF CloseSocket, ReleaseSession, OnDisconnected, Goto, Return, refVars
<1>6. ASSUME NEW t \in Threads,
             SwapTail(t) \/ LinkNode(t) \/ TrySend(t) \/ CallDisconnect(t)
      PROVE  Served'
  BY <1>6 DEF SwapTail, LinkNode, TrySend, CallDisconnect, CanCall, connVars, sendVars,
     refVars, queueVars, Goto
<1>7. ASSUME NEW t \in Threads, NEW kind \in Kinds, Dispatch(t, kind) PROVE Served'
  BY <1>7 DEF Dispatch, EntryOf, connVars, queueVars, sendVars, refVars
<1>8. ASSUME NEW t \in Threads, ReleaseToken(t) PROVE Served'
  <2>1. CASE pc[t] = "sent" /\ Goto(t, "recheck") /\ UNCHANGED refVars
    BY <1>8, <2>1 DEF ReleaseToken, Goto, Return, connVars, queueVars, refVars
  <2>2. CASE pc[t] = "releaseAndRetake" /\ Goto(t, "retake") /\ UNCHANGED refVars
    BY <1>8, <2>2 DEF ReleaseToken, Goto, Return, connVars, queueVars, refVars
  <2>3. CASE pc[t] = "releaseAndLeave" /\ Return(t)
    BY <1>8, <2>3 DEF ReleaseToken, Goto, Return, connVars, queueVars, refVars
  <2> QED
    BY <1>8, <2>1, <2>2, <2>3 DEF ReleaseToken
<1>9. ASSUME NEW t \in Threads, RecheckQueue(t) PROVE Served'
  <2>1. CASE Return(t)
    BY <1>9, <2>1 DEF RecheckQueue, Goto, Return, connVars, queueVars, sendVars, refVars
  <2>2. CASE Goto(t, "retake") /\ UNCHANGED refVars
    BY <1>9, <2>2 DEF RecheckQueue, Goto, Return, connVars, queueVars, sendVars, refVars
  <2> QED
    BY <1>9, <2>1, <2>2 DEF RecheckQueue
<1>10. ASSUME NEW t \in Threads, RetakeToken(t) PROVE Served'
  <2>1. CASE ~ sendRegistered /\ Goto(t, "registerSend") /\ UNCHANGED refVars
    BY <1>10, <2>1 DEF RetakeToken, Goto, Return, connVars, queueVars, refVars
  <2>2. CASE sendRegistered /\ Return(t)
    BY <1>10, <2>2 DEF RetakeToken, Goto, Return, connVars, queueVars, refVars
  <2> QED
    BY <1>10, <2>1, <2>2 DEF RetakeToken
<1>11. ASSUME NEW t \in Threads, Disconnect(t) PROVE Served'
  <2>1. CASE connected /\ Goto(t, "lowerFastFlags") /\ UNCHANGED refVars
    BY <1>11, <2>1 DEF Disconnect, Goto, Return, queueVars, sendVars, refVars
  <2>2. CASE ~ connected /\ Return(t)
    BY <1>11, <2>2 DEF Disconnect, Goto, Return, queueVars, sendVars, refVars
  <2> QED
    BY <1>11, <2>1, <2>2 DEF Disconnect
<1> QED
  BY <1>1, <1>e, <1>2, <1>3, <1>4, <1>5, <1>6, <1>7, <1>8, <1>9, <1>10, <1>11 DEF Next, Accept,
     Receive, Send, Close, Borrow

LEMMA ChainStep == IInv /\ [Next]_vars => ChainInv'
<1> SUFFICES ASSUME IInv, [Next]_vars PROVE ChainInv'
  OBVIOUS
<1>0. /\ pc \in [Threads -> Labels]
      /\ io \in [Threads -> Kinds \cup {"none"}] /\ pending \in [Kinds -> Nat] /\ Served
      /\ ChainInv
  BY DEF IInv, Types
<1> USE <1>0 DEF Served, Serves, Kinds, Threads, ChainInv, Receiving
<1>1. CASE UNCHANGED vars
  BY <1>1 DEF vars, connVars, queueVars, sendVars, refVars, threadVars
<1>2. ASSUME NEW t \in Threads,
             RefuseConnection(t) \/ AddSession(t) \/ RaiseFastFlags(t) \/ Connected(t)
             \/ ProcessRecv(t) \/ RegisterRecv(t)
      PROVE  ChainInv'
  BY <1>2 DEF RefuseConnection, AddSession, RaiseFastFlags, Connected, ProcessRecv,
     RegisterRecv, Return, connVars, queueVars, sendVars, Goto, refVars
<1>3. ASSUME NEW t \in Threads,
             FailRecv(t) \/ RegisterSend(t) \/ FlushSendQueue(t)
             \/ ReleaseEmptyHanded(t) \/ StartSend(t) \/ FailSend(t)
      PROVE  ChainInv'
  BY <1>3 DEF FailRecv, RegisterSend, FlushSendQueue, ReleaseEmptyHanded, StartSend,
     FailSend, Goto, connVars, queueVars, sendVars, refVars, Unlinked, Return, Hand
<1>4. ASSUME NEW t \in Threads,
             ProcessSend(t) \/ PeekQueueEarly(t) \/ ReleaseToken(t) \/ RecheckQueue(t)
             \/ RetakeToken(t) \/ Disconnect(t)
      PROVE  ChainInv'
  BY <1>4 DEF ProcessSend, PeekQueueEarly, ReleaseToken, RecheckQueue, RetakeToken,
     Disconnect, Goto, connVars, queueVars, refVars, sendVars, Return
<1>5. ASSUME NEW t \in Threads,
             LowerFastFlags(t) \/ RegisterDisconnect(t) \/ GetSession(t)
             \/ DropSession(t) \/ SwapTail(t)
      PROVE  ChainInv'
  BY <1>5 DEF LowerFastFlags, RegisterDisconnect, GetSession, DropSession,
     SwapTail, Goto, queueVars, sendVars, refVars, connVars, threadVars, CanCall
<1>e. ASSUME NEW t \in Threads, CloseSocket(t) \/ ReleaseSession(t) \/ OnDisconnected(t)
      PROVE  ChainInv'
  BY <1>e DEF CloseSocket, ReleaseSession, OnDisconnected, Goto, Return, refVars
<1>6. ASSUME NEW t \in Threads,
             LinkNode(t) \/ TrySend(t) \/ CallDisconnect(t)
      PROVE  ChainInv'
  BY <1>6 DEF LinkNode, TrySend, CallDisconnect, connVars, queueVars, sendVars, refVars,
     Goto, CanCall
<1>7. ASSUME NEW t \in Threads, NEW kind \in Kinds, Dispatch(t, kind) PROVE ChainInv'
  <2> USE <1>7 DEF Dispatch, EntryOf, connVars, queueVars, sendVars, refVars
  <2>1. CASE kind = "accept"
    BY <2>1
  <2>2. CASE kind = "recv"
    BY <2>2
  <2>3. CASE kind = "disconnect"
    BY <2>3
  <2>4. CASE kind = "send"
    BY <2>4
  <2>5. CASE kind = "registerSend"
    BY <2>5
  <2> QED
    BY <2>1, <2>2, <2>3, <2>4, <2>5
<1>8. ASSUME NEW t \in Threads, StartRecv(t) PROVE ChainInv'
  <2>1. Receiving(t)
    BY <1>8 DEF StartRecv
  <2>2. \A u \in Threads : ~ Receiving(u)'
    BY <1>8, <2>1 DEF StartRecv, Hand
  <2>3. pending'["recv"] = 1 /\ pending'["accept"] = 0
    BY <1>8, <2>1 DEF StartRecv, Hand
  <2> QED
    BY <2>2, <2>3
<1> QED
  BY <1>1, <1>e, <1>2, <1>3, <1>4, <1>5, <1>6, <1>7, <1>8 DEF Next, Accept, Receive, Send, Close,
     Borrow

LEMMA EndStep == IInv /\ [Next]_vars => EndInv'
<1> SUFFICES ASSUME IInv, [Next]_vars PROVE EndInv'
  OBVIOUS
<1>0. /\ pc \in [Threads -> Labels]
      /\ io \in [Threads -> Kinds \cup {"none"}] /\ pending \in [Kinds -> Nat]
      /\ onDisconnected \in Nat /\ connected \in BOOLEAN /\ connectedFast \in BOOLEAN
      /\ Served /\ ChainInv /\ EndInv
  BY DEF IInv, Types
<1>1. ASSUME NEW t \in Threads, NEW kind \in Kinds, Dispatch(t, kind) PROVE EndInv'
  <2>1. /\ \A u \in Threads : Ending(u)' => IF u = t THEN kind = "disconnect" ELSE Ending(u)
        /\ \A u \in Threads : Arriving(u)' => IF u = t THEN kind = "accept" ELSE Arriving(u)
    BY <1>0, <1>1 DEF Dispatch, EntryOf, Ending, Arriving, Kinds
  <2>2. pending[kind] > 0 /\ pending' = [pending EXCEPT ![kind] = pending[kind] - 1]
    BY <1>1 DEF Dispatch
  <2>. connected' = connected /\ onDisconnected' = onDisconnected
    BY <1>1 DEF Dispatch, connVars
  <2>3. CASE kind = "accept"
    <3>1. ~ connected /\ NotEnded /\ pending'["accept"] = 0 /\ pending'["disconnect"] = 0
      BY <1>0, <2>2, <2>3, EndFacts DEF Kinds
    <3> QED
      BY <2>1, <2>2, <2>3, <3>1 DEF EndInv, NotEnded
  <2>4. CASE kind = "disconnect"
    <3>1. /\ ~ connected /\ pending["accept"] = 0 /\ onDisconnected = 0
          /\ \A u \in Threads : ~ Ending(u) /\ ~ Arriving(u)
      BY <1>0, <2>2, <2>4, EndFacts DEF EndInv, NotEnded
    <3>2. pending'["disconnect"] = 0 /\ pending'["accept"] = 0
      BY <1>0, <2>2, <2>4, <3>1, EndFacts DEF Kinds
    <3> QED
      BY <2>1, <2>2, <2>4, <3>1, <3>2 DEF EndInv, NotEnded
  <2>5. CASE kind \notin {"accept", "disconnect"}
    <3>1. pending'["accept"] = pending["accept"] /\ pending'["disconnect"] = pending["disconnect"]
      BY <1>0, <2>2, <2>5
    <3> QED
      BY <1>0, <2>1, <2>2, <2>5, <3>1 DEF EndInv, NotEnded
  <2> QED
    BY <2>3, <2>4, <2>5
<1>2. ASSUME NEW t \in Threads, FlushSendQueue(t) PROVE EndInv'
  <2>1. PICK label \in {"nothingToSend", "wsaSend"} : pc' = [pc EXCEPT ![t] = label]
    BY <1>2 DEF FlushSendQueue, Goto
  <2>2. \A u \in Threads : (Ending(u)' => Ending(u)) /\ (Arriving(u)' => Arriving(u))
    BY <1>0, <2>1 DEF Ending, Arriving
  <2>3. pending' = pending /\ onDisconnected' = onDisconnected /\ connected' = connected
    BY <1>2 DEF FlushSendQueue, connVars
  <2> QED
    BY <1>0, <2>2, <2>3 DEF EndInv, NotEnded
<1>3. ASSUME NEW t \in Threads, PeekQueueEarly(t) PROVE EndInv'
  <2>1. PICK label \in {"releaseAndLeave", "releaseAndRetake"} : pc' = [pc EXCEPT ![t] = label]
    BY <1>3 DEF PeekQueueEarly, Goto
  <2>2. \A u \in Threads : (Ending(u)' => Ending(u)) /\ (Arriving(u)' => Arriving(u))
    BY <1>0, <2>1 DEF Ending, Arriving
  <2>3. pending' = pending /\ onDisconnected' = onDisconnected /\ connected' = connected
    BY <1>3 DEF PeekQueueEarly, connVars
  <2> QED
    BY <1>0, <2>2, <2>3 DEF EndInv, NotEnded
<1>4. ASSUME NEW t \in Threads, Connected(t) PROVE EndInv'
  <2>1. Arriving(t) /\ Receiving(t)
    BY <1>0, <1>4 DEF Connected, Arriving, Served, Serves, Receiving
  <2>2. NotEnded /\ pending["accept"] = 0 /\ \A u \in Threads : Arriving(u) => u = t
    BY <1>0, <2>1 DEF EndInv, ChainInv, Arriving, Served, Serves, Receiving
  <2>3. NotEnded' /\ \A u \in Threads : ~ Arriving(u)' /\ ~ Ending(u)'
    BY <1>0, <1>4, <2>2 DEF Connected, Goto, NotEnded, Arriving, Ending
  <2>4. pending' = pending
    BY <1>4 DEF Connected
  <2> QED
    BY <2>2, <2>3, <2>4 DEF EndInv, NotEnded
<1>5. ASSUME NEW t \in Threads, Disconnect(t) PROVE EndInv'
  <2>1. CASE connected
    <3>1. pending["accept"] = 0 /\ NotEnded /\ \A u \in Threads : ~ Arriving(u)
      BY <1>0, <2>1 DEF EndInv
    <3>2. \A u \in Threads : ~ Arriving(u)' /\ (Ending(u)' => u = t)
      BY <1>0, <1>5, <2>1, <3>1 DEF Disconnect, Goto, Arriving, Ending, NotEnded
    <3>3. pending' = pending /\ onDisconnected' = onDisconnected /\ connected' = FALSE
      BY <1>5 DEF Disconnect
    <3> QED
      BY <3>1, <3>2, <3>3 DEF EndInv, NotEnded
  <2>2. CASE ~ connected
    <3>1. /\ pending' = pending /\ onDisconnected' = onDisconnected
          /\ connected' = FALSE /\ pc' = [pc EXCEPT ![t] = "idle"]
      BY <1>5, <2>2 DEF Disconnect, Return
    <3> QED
      BY <1>0, <2>2, <3>1 DEF EndInv, NotEnded, Ending, Arriving
  <2> QED
    BY <2>1, <2>2
<1>6. ASSUME NEW t \in Threads, RegisterDisconnect(t) PROVE EndInv'
  <2>1. Ending(t)
    BY <1>6 DEF RegisterDisconnect, Ending
  <2>2. pending["accept"] = 0 /\ pending["disconnect"] = 0 /\ onDisconnected = 0 /\ ~ connected
    BY <2>1, EndFacts
  <2>3. \A u \in Threads : ~ Ending(u)' /\ ~ Arriving(u)'
    BY <1>0, <1>6, <2>1 DEF RegisterDisconnect, EndInv, NotEnded, Ending, Arriving
  <2>4. /\ pending'["disconnect"] = 1 /\ pending'["accept"] = 0
        /\ onDisconnected' = onDisconnected /\ connected' = connected
    BY <1>0, <1>6, <2>2 DEF RegisterDisconnect, connVars, Kinds
  <2> QED
    BY <2>2, <2>3, <2>4 DEF EndInv
<1>7. ASSUME NEW t \in Threads, OnDisconnected(t) PROVE EndInv'
  <2>1. Ending(t)
    BY <1>7 DEF OnDisconnected, Ending
  <2>2. pending["accept"] = 0 /\ pending["disconnect"] = 0 /\ onDisconnected = 0 /\ ~ connected
    BY <2>1, EndFacts
  <2>3. \A u \in Threads : ~ Ending(u)' /\ ~ Arriving(u)'
    BY <1>0, <1>7, <2>1 DEF OnDisconnected, Return, EndInv, NotEnded, Ending, Arriving
  <2>4. pending' = pending /\ onDisconnected' = onDisconnected + 1 /\ connected' = connected
    BY <1>7 DEF OnDisconnected
  <2> QED
    BY <2>2, <2>3, <2>4 DEF EndInv
<1>e. ASSUME NEW t \in Threads, CloseSocket(t) \/ ReleaseSession(t) PROVE EndInv'
  <2>1. Ending(t)
    BY <1>e DEF CloseSocket, ReleaseSession, Ending
  <2>2. \A u \in Threads : (Ending(u)' => Ending(u)) /\ (Arriving(u)' => Arriving(u))
    BY <1>0, <1>e, <2>1 DEF CloseSocket, ReleaseSession, Goto, Ending, Arriving
  <2>3. UNCHANGED <<connected, onDisconnected, pending>>
    BY <1>e DEF CloseSocket, ReleaseSession
  <2> QED
    BY <1>0, <2>2, <2>3 DEF EndInv, NotEnded
<1>k. ASSUME NEW t \in Threads, UNCHANGED <<connected, onDisconnected, pending>>,
             \A u \in Threads : u # t => pc'[u] = pc[u], ~ Ending(t)', ~ Arriving(t)'
      PROVE  EndInv'
  BY <1>0, <1>k DEF EndInv, NotEnded, Ending, Arriving
<1>15. ASSUME NEW t \in Threads, ProcessSend(t) PROVE EndInv'
  <2>1. UNCHANGED <<connected, onDisconnected, pending>>
    BY <1>15 DEF ProcessSend, connVars
  <2>2. pc' = [pc EXCEPT ![t] = "sent"] \/ pc' = [pc EXCEPT ![t] = "disconnect"]
    BY <1>15 DEF ProcessSend, Goto
  <2>3. pc'[t] \in {"sent", "disconnect"} /\ \A u \in Threads : u # t => pc'[u] = pc[u]
    BY <1>0, <2>2
  <2> QED
    BY <1>k, <2>1, <2>3 DEF Ending, Arriving
<1>17. ASSUME NEW t \in Threads, RecheckQueue(t) PROVE EndInv'
  <2>1. UNCHANGED <<connected, onDisconnected, pending>>
    BY <1>17 DEF RecheckQueue, connVars
  <2>2. pc' = [pc EXCEPT ![t] = "idle"] \/ pc' = [pc EXCEPT ![t] = "retake"]
    BY <1>17 DEF RecheckQueue, Goto, Return
  <2>3. pc'[t] \in {"idle", "retake"} /\ \A u \in Threads : u # t => pc'[u] = pc[u]
    BY <1>0, <2>2
  <2> QED
    BY <1>k, <2>1, <2>3 DEF Ending, Arriving
<1>19. ASSUME NEW t \in Threads, SwapTail(t) PROVE EndInv'
  <2>1. UNCHANGED <<connected, onDisconnected, pending>>
    BY <1>19 DEF SwapTail, connVars
  <2>2. pc' = [pc EXCEPT ![t] = "swapped"]
    BY <1>19 DEF SwapTail
  <2>3. pc'[t] = "swapped" /\ \A u \in Threads : u # t => pc'[u] = pc[u]
    BY <1>0, <2>2
  <2> QED
    BY <1>k, <2>1, <2>3 DEF Ending, Arriving
<1> USE <1>0 DEF Served, Serves, Receiving, EndInv, Ending, Arriving, NotEnded, Kinds
<1>8. CASE UNCHANGED vars
  BY <1>8 DEF vars, connVars, queueVars, sendVars, refVars, threadVars
<1>9. ASSUME NEW t \in Threads,
             RefuseConnection(t) \/ AddSession(t) \/ RaiseFastFlags(t)
      PROVE  EndInv'
  BY <1>9 DEF RefuseConnection, AddSession, RaiseFastFlags, Return, connVars, queueVars,
     sendVars, Goto, refVars
<1>10. ASSUME NEW t \in Threads,
             ProcessRecv(t) \/ RegisterRecv(t) \/ StartRecv(t)
      PROVE  EndInv'
  BY <1>10 DEF ProcessRecv, RegisterRecv, StartRecv, Goto, connVars, queueVars, sendVars,
     refVars, Hand
<1>11. ASSUME NEW t \in Threads,
             FailRecv(t) \/ RegisterSend(t) \/ ReleaseEmptyHanded(t)
      PROVE  EndInv'
  BY <1>11 DEF FailRecv, RegisterSend, ReleaseEmptyHanded, Goto, connVars, queueVars,
     sendVars, refVars, Return
<1>12. ASSUME NEW t \in Threads,
             LowerFastFlags(t) \/ GetSession(t) \/ DropSession(t)
      PROVE  EndInv'
  BY <1>12 DEF LowerFastFlags, GetSession, DropSession, Goto, queueVars, sendVars, refVars,
     connVars, threadVars, CanCall
<1>13. ASSUME NEW t \in Threads, StartSend(t) PROVE EndInv'
  BY <1>13 DEF StartSend, Hand, connVars, queueVars, refVars
<1>14. ASSUME NEW t \in Threads, FailSend(t) PROVE EndInv'
  BY <1>14 DEF FailSend, Goto, connVars, queueVars, sendVars, refVars
<1>16. ASSUME NEW t \in Threads, ReleaseToken(t) PROVE EndInv'
  <2>1. CASE pc[t] = "sent" /\ Goto(t, "recheck") /\ UNCHANGED refVars
    BY <1>16, <2>1 DEF ReleaseToken, Goto, Return, connVars, queueVars, refVars
  <2>2. CASE pc[t] = "releaseAndRetake" /\ Goto(t, "retake") /\ UNCHANGED refVars
    BY <1>16, <2>2 DEF ReleaseToken, Goto, Return, connVars, queueVars, refVars
  <2>3. CASE pc[t] = "releaseAndLeave" /\ Return(t)
    BY <1>16, <2>3 DEF ReleaseToken, Goto, Return, connVars, queueVars, refVars
  <2> QED
    BY <1>16, <2>1, <2>2, <2>3 DEF ReleaseToken
<1>18. ASSUME NEW t \in Threads, RetakeToken(t) PROVE EndInv'
  <2>1. CASE ~ sendRegistered /\ Goto(t, "registerSend") /\ UNCHANGED refVars
    BY <1>18, <2>1 DEF RetakeToken, Goto, Return, connVars, queueVars, refVars
  <2>2. CASE sendRegistered /\ Return(t)
    BY <1>18, <2>2 DEF RetakeToken, Goto, Return, connVars, queueVars, refVars
  <2> QED
    BY <1>18, <2>1, <2>2 DEF RetakeToken
<1>20. ASSUME NEW t \in Threads, LinkNode(t) PROVE EndInv'
  BY <1>20 DEF LinkNode, connVars, queueVars, sendVars, refVars
<1>21. ASSUME NEW t \in Threads, TrySend(t) PROVE EndInv'
  BY <1>21 DEF TrySend, Goto, CanCall, connVars, queueVars
<1>22. ASSUME NEW t \in Threads, CallDisconnect(t) PROVE EndInv'
  BY <1>22 DEF CallDisconnect, Goto, CanCall, connVars, queueVars, sendVars, refVars
<1> QED
  BY <1>1, <1>e, <1>2, <1>3, <1>4, <1>5, <1>6, <1>7, <1>8, <1>9, <1>10, <1>11, <1>12, <1>13,
     <1>14,
     <1>15, <1>16, <1>17, <1>18, <1>19, <1>20, <1>21, <1>22
     DEF Next, Accept, Receive, Send, Close, Borrow

LEMMA FlagStep == IInv /\ [Next]_vars => FlagInv'
<1> SUFFICES ASSUME IInv, [Next]_vars PROVE FlagInv'
  OBVIOUS
<1>0. /\ pc \in [Threads -> Labels]
      /\ io \in [Threads -> Kinds \cup {"none"}] /\ pending \in [Kinds -> Nat]
      /\ onDisconnected \in Nat /\ FlagInv
  BY DEF IInv, Types
<1>1. ASSUME NEW t \in Threads, NEW kind \in Kinds, Dispatch(t, kind) PROVE FlagInv'
  <2>1. \A u \in Threads : pc'[u] = "processDisconnect" => \/ pc[u] = "processDisconnect"
                                                        \/ kind = "disconnect"
    BY <1>0, <1>1 DEF Dispatch, EntryOf, Kinds
  <2>2. \A u \in Threads : pc'[u] \in {"registerDisconnect", "releaseSession", "onDisconnected"}
                            => pc'[u] = pc[u]
    BY <1>0, <1>1 DEF Dispatch, EntryOf, Kinds
  <2>3. pending[kind] > 0 /\ pending' = [pending EXCEPT ![kind] = pending[kind] - 1]
    BY <1>1 DEF Dispatch
  <2>4. UNCHANGED <<onDisconnected, inService, connectedFast>>
    BY <1>1 DEF Dispatch, connVars
  <2>5. CASE kind = "disconnect"
    <3>1. pending["disconnect"] = 1 /\ onDisconnected = 0
      BY <2>3, <2>5, EndFacts
    <3> QED
      BY <1>0, <2>2, <2>4, <3>1 DEF FlagInv
  <2>6. CASE kind # "disconnect"
    <3>1. pending'["disconnect"] = pending["disconnect"]
      BY <1>0, <2>3, <2>6 DEF Kinds
    <3> QED
      BY <1>0, <2>1, <2>2, <2>4, <2>6, <3>1 DEF FlagInv
  <2> QED
    BY <2>5, <2>6
<1>2. ASSUME NEW t \in Threads, TrySend(t) PROVE FlagInv'
  <2>1. pending'["disconnect"] = pending["disconnect"]
    BY <1>0, <1>2 DEF TrySend, Kinds
  <2>2. pc' = [pc EXCEPT ![t] = "idle"]
    BY <1>2 DEF TrySend, Goto
  <2>3. UNCHANGED <<onDisconnected, inService, connectedFast>>
    BY <1>2 DEF TrySend, connVars
  <2> QED
    BY <1>0, <2>1, <2>2, <2>3 DEF FlagInv
<1>3. ASSUME NEW t \in Threads, AddSession(t) PROVE FlagInv'
  <2>1. onDisconnected = 0 /\ \A u \in Threads : pc[u] # "onDisconnected"
    BY <1>3 DEF AddSession, Arriving, Ending, IInv, EndInv, NotEnded
  <2> QED
    BY <1>0, <1>3, <2>1 DEF AddSession, Goto, FlagInv
<1>4. ASSUME NEW t \in Threads, RaiseFastFlags(t) PROVE FlagInv'
  <2>1. NotEnded
    BY <1>4 DEF RaiseFastFlags, Arriving, IInv, EndInv
  <2>2. NotEnded' /\ pending' = pending
    BY <1>0, <1>4, <2>1 DEF RaiseFastFlags, Goto, NotEnded, Ending
  <2> QED
    BY <2>2 DEF FlagInv, NotEnded, Ending
<1>5. ASSUME NEW t \in Threads, LowerFastFlags(t) PROVE FlagInv'
  <2>1. connectedFast' = FALSE
    BY <1>5 DEF LowerFastFlags
  <2>2. UNCHANGED <<onDisconnected, inService>>
    BY <1>5 DEF LowerFastFlags
  <2>3. \A u \in Threads : pc'[u] = "onDisconnected" => pc[u] = "onDisconnected"
    BY <1>0, <1>5 DEF LowerFastFlags, Goto
  <2> QED
    BY <1>0, <2>1, <2>2, <2>3 DEF FlagInv
<1>6. ASSUME NEW t \in Threads, RegisterDisconnect(t) PROVE FlagInv'
  <2>1. ~ connectedFast /\ connectedFast' = connectedFast
    BY <1>0, <1>6 DEF RegisterDisconnect, FlagInv, connVars
  <2>2. UNCHANGED <<onDisconnected, inService>>
    BY <1>6 DEF RegisterDisconnect, connVars
  <2>3. \A u \in Threads : pc'[u] = "onDisconnected" => pc[u] = "onDisconnected"
    BY <1>0, <1>6 DEF RegisterDisconnect
  <2> QED
    BY <1>0, <2>1, <2>2, <2>3 DEF FlagInv
<1>7. ASSUME NEW t \in Threads, CloseSocket(t) PROVE FlagInv'
  BY <1>0, <1>7 DEF CloseSocket, Goto, FlagInv
<1>e. ASSUME NEW t \in Threads, ReleaseSession(t) PROVE FlagInv'
  <2>1. ~ connectedFast /\ connectedFast' = connectedFast /\ inService' = FALSE
    BY <1>0, <1>e DEF ReleaseSession, FlagInv
  <2> QED
    BY <2>1 DEF FlagInv
<1>f. ASSUME NEW t \in Threads, OnDisconnected(t) PROVE FlagInv'
  <2>1. /\ ~ connectedFast /\ connectedFast' = connectedFast
        /\ ~ inService /\ inService' = inService
    BY <1>0, <1>f DEF OnDisconnected, FlagInv
  <2> QED
    BY <2>1 DEF FlagInv
<1> USE <1>0 DEF FlagInv
<1>8. CASE UNCHANGED vars
  BY <1>8 DEF vars, connVars, queueVars, sendVars, refVars, threadVars
<1>9. ASSUME NEW t \in Threads,
             RefuseConnection(t) \/ Connected(t) \/ ProcessRecv(t)
      PROVE  FlagInv'
  BY <1>9 DEF RefuseConnection, Connected, ProcessRecv, Return, connVars, queueVars,
     sendVars, Goto, refVars
<1>10. ASSUME NEW t \in Threads,
             RegisterSend(t) \/ FlushSendQueue(t) \/ ReleaseEmptyHanded(t)
      PROVE  FlagInv'
  BY <1>10 DEF RegisterSend, FlushSendQueue, ReleaseEmptyHanded, Goto, connVars, queueVars,
     sendVars, refVars, Unlinked, Return
<1>11. ASSUME NEW t \in Threads,
             PeekQueueEarly(t) \/ GetSession(t) \/ DropSession(t)
      PROVE  FlagInv'
  BY <1>11 DEF PeekQueueEarly, GetSession, DropSession, Goto, connVars, queueVars, sendVars,
     refVars, threadVars, CanCall
<1>12. ASSUME NEW t \in Threads,
             SwapTail(t) \/ LinkNode(t) \/ CallDisconnect(t)
      PROVE  FlagInv'
  BY <1>12 DEF SwapTail, LinkNode, CallDisconnect, CanCall, connVars, sendVars, refVars,
     queueVars, Goto
<1>13. ASSUME NEW t \in Threads, RegisterRecv(t) PROVE FlagInv'
  BY <1>13 DEF RegisterRecv, Goto, connVars, queueVars, sendVars, refVars
<1>14. ASSUME NEW t \in Threads, StartRecv(t) PROVE FlagInv'
  BY <1>14 DEF StartRecv, Hand, connVars, queueVars, sendVars, refVars
<1>15. ASSUME NEW t \in Threads, FailRecv(t) PROVE FlagInv'
  BY <1>15 DEF FailRecv, Goto, connVars, queueVars, sendVars, refVars
<1>16. ASSUME NEW t \in Threads, StartSend(t) PROVE FlagInv'
  BY <1>16 DEF StartSend, Hand, connVars, queueVars, refVars
<1>17. ASSUME NEW t \in Threads, FailSend(t) PROVE FlagInv'
  BY <1>17 DEF FailSend, Goto, connVars, queueVars, sendVars, refVars
<1>18. ASSUME NEW t \in Threads, ProcessSend(t) PROVE FlagInv'
  BY <1>18 DEF ProcessSend, Goto, connVars, queueVars, refVars
<1>19. ASSUME NEW t \in Threads, ReleaseToken(t) PROVE FlagInv'
  <2>1. CASE pc[t] = "sent" /\ Goto(t, "recheck") /\ UNCHANGED refVars
    BY <1>19, <2>1 DEF ReleaseToken, Goto, Return, connVars, queueVars, refVars
  <2>2. CASE pc[t] = "releaseAndRetake" /\ Goto(t, "retake") /\ UNCHANGED refVars
    BY <1>19, <2>2 DEF ReleaseToken, Goto, Return, connVars, queueVars, refVars
  <2>3. CASE pc[t] = "releaseAndLeave" /\ Return(t)
    BY <1>19, <2>3 DEF ReleaseToken, Goto, Return, connVars, queueVars, refVars
  <2> QED
    BY <1>19, <2>1, <2>2, <2>3 DEF ReleaseToken
<1>20. ASSUME NEW t \in Threads, RecheckQueue(t) PROVE FlagInv'
  <2>1. CASE Return(t)
    BY <1>20, <2>1 DEF RecheckQueue, Goto, Return, connVars, queueVars, sendVars, refVars
  <2>2. CASE Goto(t, "retake") /\ UNCHANGED refVars
    BY <1>20, <2>2 DEF RecheckQueue, Goto, Return, connVars, queueVars, sendVars, refVars
  <2> QED
    BY <1>20, <2>1, <2>2 DEF RecheckQueue
<1>21. ASSUME NEW t \in Threads, RetakeToken(t) PROVE FlagInv'
  <2>1. CASE ~ sendRegistered /\ Goto(t, "registerSend") /\ UNCHANGED refVars
    BY <1>21, <2>1 DEF RetakeToken, Goto, Return, connVars, queueVars, refVars
  <2>2. CASE sendRegistered /\ Return(t)
    BY <1>21, <2>2 DEF RetakeToken, Goto, Return, connVars, queueVars, refVars
  <2> QED
    BY <1>21, <2>1, <2>2 DEF RetakeToken
<1>22. ASSUME NEW t \in Threads, Disconnect(t) PROVE FlagInv'
  <2>1. CASE connected /\ Goto(t, "lowerFastFlags") /\ UNCHANGED refVars
    BY <1>22, <2>1 DEF Disconnect, Goto, Return, queueVars, sendVars, refVars
  <2>2. CASE ~ connected /\ Return(t)
    BY <1>22, <2>2 DEF Disconnect, Goto, Return, queueVars, sendVars, refVars
  <2> QED
    BY <1>22, <2>1, <2>2 DEF Disconnect
<1> QED
  BY <1>1, <1>e, <1>f, <1>2, <1>3, <1>4, <1>5, <1>6, <1>7, <1>8, <1>9, <1>10, <1>11, <1>12,
     <1>13, <1>14,
     <1>15, <1>16, <1>17, <1>18, <1>19, <1>20, <1>21, <1>22
     DEF Next, Accept, Receive, Send, Close, Borrow

LEMMA QuietStep == IInv /\ [Next]_vars => Quiet'
<1> SUFFICES ASSUME IInv, [Next]_vars PROVE Quiet'
  OBVIOUS
<1>0. /\ pc \in [Threads -> Labels]
      /\ io \in [Threads -> Kinds \cup {"none"}] /\ pending \in [Kinds -> Nat]
      /\ FoundEarly \in BOOLEAN /\ Quiet
  BY DEF IInv, Types
<1>1. ASSUME NEW t \in Threads, NEW kind \in Kinds, Dispatch(t, kind) PROVE Quiet'
  <2>1. \A u \in Threads : pc'[u] \in {"addSession", "connecting", "connected"}
          => \/ pc[u] \in {"addSession", "connecting", "connected"} /\ pc'[u] = pc[u]
             \/ kind = "accept"
    BY <1>0, <1>1 DEF Dispatch, EntryOf, Kinds
  <2>2. \A u \in Threads : pc'[u] \in {"recheck", "retake"} => pc[u] = pc'[u]
    BY <1>0, <1>1 DEF Dispatch, EntryOf, Kinds
  <2>3. pending[kind] > 0 /\ pending' = [pending EXCEPT ![kind] = pending[kind] - 1]
    BY <1>1 DEF Dispatch
  <2>4. UNCHANGED <<inService, sendRegistered, borrowed>>
    BY <1>1 DEF Dispatch, connVars, sendVars, refVars
  <2>5. CASE kind = "accept"
    <3>1. pending["accept"] = 1
      BY <2>3, <2>5, EndFacts
    <3> QED
      BY <1>0, <2>2, <2>4, <3>1 DEF Quiet, Untouched
  <2>6. CASE kind # "accept"
    <3>1. pending'["accept"] = pending["accept"]
      BY <1>0, <2>3, <2>6 DEF Kinds
    <3> QED
      BY <1>0, <2>1, <2>2, <2>4, <2>6, <3>1 DEF Quiet, Untouched, Arriving
  <2> QED
    BY <2>5, <2>6
<1>2. ASSUME NEW t \in Threads, AddSession(t) PROVE Quiet'
  <2>1. Receiving(t) /\ \A u \in Threads : pc[u] = "addSession" => Receiving(u)
    BY <1>0, <1>2 DEF AddSession, Receiving, IInv, Served, Serves
  <2>2. pending["accept"] = 0 /\ \A u \in Threads : pc[u] = "addSession" => u = t
    BY <2>1 DEF IInv, ChainInv
  <2>3. pc' = [pc EXCEPT ![t] = "connecting"]
        /\ UNCHANGED <<pending, borrowed, sendRegistered>>
    BY <1>2 DEF AddSession, Goto, sendVars
  <2>4. Arriving(t)
    BY <1>2 DEF AddSession, Arriving
  <2> QED
    BY <1>0, <2>2, <2>3, <2>4 DEF Quiet, Untouched
<1>3. ASSUME NEW t \in Threads, GetSession(t) PROVE Quiet'
  <2>1. \A u \in Threads : Arriving(u) => u \in Workers
    BY <1>0 DEF Arriving, IInv, Served, Serves, Threads
  <2>2. inService /\ (FoundEarly \/ \A u \in Workers : pc[u] \notin {"connecting", "connected"})
    BY <1>3 DEF GetSession
  <2>3. pending["accept"] # 1 /\ \A u \in Threads : pc[u] # "addSession"
    BY <1>0, <2>2 DEF Quiet
  <2>4. FoundEarly \/ \A u \in Threads : ~ Arriving(u)
    BY <2>1, <2>2, <2>3 DEF Arriving
  <2>5. UNCHANGED <<pc, pending, inService>>
    BY <1>3 DEF GetSession, threadVars, connVars
  <2> QED
    BY <2>3, <2>4, <2>5 DEF Quiet, Arriving
<1>4. ASSUME NEW t \in Threads, TrySend(t) PROVE Quiet'
  <2>1. t \in borrowed
    BY <1>4 DEF TrySend, CanCall, IInv, Served
  <2>2. pc' = [pc EXCEPT ![t] = "idle"] /\ inService' = inService /\ borrowed' = borrowed
    BY <1>4 DEF TrySend, Goto, connVars
  <2>3. pending'["accept"] = pending["accept"]
    BY <1>0, <1>4 DEF TrySend, Kinds
  <2> QED
    BY <1>0, <2>1, <2>2, <2>3 DEF Quiet, Untouched, Arriving
<1>5. ASSUME NEW t \in Threads, ReleaseToken(t) PROVE Quiet'
  <2>1. sendRegistered
    BY <1>5 DEF ReleaseToken, Holds, IInv, TokenInv, Served, Serves
  <2>2. PICK label \in {"recheck", "retake", "idle"} : pc' = [pc EXCEPT ![t] = label]
    BY <1>5 DEF ReleaseToken, Goto, Return
  <2>3. UNCHANGED <<inService, pending>>
    BY <1>5 DEF ReleaseToken, connVars
  <2> QED
    BY <1>0, <2>1, <2>2, <2>3 DEF Quiet, Untouched, Arriving
<1>6. ASSUME NEW t \in Threads, RecheckQueue(t) PROVE Quiet'
  <2>1. pc[t] = "recheck" /\ \E label \in {"retake", "idle"} : pc' = [pc EXCEPT ![t] = label]
    BY <1>6 DEF RecheckQueue, Goto, Return
  <2>2. UNCHANGED <<inService, pending>>
    BY <1>6 DEF RecheckQueue, connVars
  <2> QED
    BY <1>0, <2>1, <2>2 DEF Quiet, Untouched, Arriving
<1>7. ASSUME NEW t \in Threads, RetakeToken(t) PROVE Quiet'
  <2>1. pc[t] = "retake" /\ \E label \in {"registerSend", "idle"} : pc' = [pc EXCEPT ![t] = label]
    BY <1>7 DEF RetakeToken, Goto, Return
  <2>2. UNCHANGED <<inService, pending>>
    BY <1>7 DEF RetakeToken, connVars
  <2> QED
    BY <1>0, <2>1, <2>2 DEF Quiet, Untouched, Arriving
<1>8. ASSUME NEW t \in Threads, FlushSendQueue(t) PROVE Quiet'
  <2>1. \E label \in {"nothingToSend", "wsaSend"} : pc' = [pc EXCEPT ![t] = label]
    BY <1>8 DEF FlushSendQueue, Goto
  <2>2. UNCHANGED <<inService, pending, sendRegistered, borrowed>>
    BY <1>8 DEF FlushSendQueue, connVars, refVars
  <2> QED
    BY <1>0, <2>1, <2>2 DEF Quiet, Untouched, Arriving
<1>9. ASSUME NEW t \in Threads, PeekQueueEarly(t) PROVE Quiet'
  <2>1. \E label \in {"releaseAndLeave", "releaseAndRetake"} : pc' = [pc EXCEPT ![t] = label]
    BY <1>9 DEF PeekQueueEarly, Goto
  <2>2. UNCHANGED <<inService, pending, sendRegistered, borrowed>>
    BY <1>9 DEF PeekQueueEarly, connVars, refVars, sendVars
  <2> QED
    BY <1>0, <2>1, <2>2 DEF Quiet, Untouched, Arriving
<1> USE <1>0 DEF Quiet, Untouched, Arriving
<1>10. CASE UNCHANGED vars
  BY <1>10 DEF vars, connVars, queueVars, sendVars, refVars, threadVars
<1>11. ASSUME NEW t \in Threads,
             RefuseConnection(t) \/ RaiseFastFlags(t) \/ Connected(t)
      PROVE  Quiet'
  BY <1>11 DEF RefuseConnection, RaiseFastFlags, Connected, Return, connVars, queueVars,
     sendVars, Goto, refVars
<1>12. ASSUME NEW t \in Threads,
             FailRecv(t) \/ RegisterSend(t) \/ ReleaseEmptyHanded(t)
      PROVE  Quiet'
  BY <1>12 DEF FailRecv, RegisterSend, ReleaseEmptyHanded, Goto, connVars, queueVars,
     sendVars, refVars, Return
<1>13. ASSUME NEW t \in Threads,
             DropSession(t) \/ SwapTail(t) \/ LinkNode(t)
      PROVE  Quiet'
  BY <1>13 DEF DropSession, SwapTail, LinkNode, CanCall, connVars, queueVars, sendVars,
     threadVars, refVars
<1>14. ASSUME NEW t \in Threads, ProcessRecv(t) PROVE Quiet'
  BY <1>14 DEF ProcessRecv, Goto, connVars, queueVars, sendVars, refVars
<1>15. ASSUME NEW t \in Threads, RegisterRecv(t) PROVE Quiet'
  BY <1>15 DEF RegisterRecv, Goto, connVars, queueVars, sendVars, refVars
<1>16. ASSUME NEW t \in Threads, StartRecv(t) PROVE Quiet'
  BY <1>16 DEF StartRecv, Hand, connVars, queueVars, sendVars, refVars
<1>17. ASSUME NEW t \in Threads, StartSend(t) PROVE Quiet'
  BY <1>17 DEF StartSend, Hand, connVars, queueVars, refVars
<1>18. ASSUME NEW t \in Threads, FailSend(t) PROVE Quiet'
  BY <1>18 DEF FailSend, Goto, connVars, queueVars, sendVars, refVars
<1>19. ASSUME NEW t \in Threads, ProcessSend(t) PROVE Quiet'
  BY <1>19 DEF ProcessSend, Goto, connVars, queueVars, refVars
<1>20. ASSUME NEW t \in Threads, Disconnect(t) PROVE Quiet'
  <2>1. CASE connected /\ Goto(t, "lowerFastFlags") /\ UNCHANGED refVars
    BY <1>20, <2>1 DEF Disconnect, Goto, Return, queueVars, sendVars, refVars
  <2>2. CASE ~ connected /\ Return(t)
    BY <1>20, <2>2 DEF Disconnect, Goto, Return, queueVars, sendVars, refVars
  <2> QED
    BY <1>20, <2>1, <2>2 DEF Disconnect
<1>21. ASSUME NEW t \in Threads, LowerFastFlags(t) PROVE Quiet'
  BY <1>21 DEF LowerFastFlags, Goto, queueVars, sendVars, refVars
<1>22. ASSUME NEW t \in Threads, RegisterDisconnect(t) PROVE Quiet'
  BY <1>22 DEF RegisterDisconnect, connVars, queueVars, sendVars
<1>23. ASSUME NEW t \in Threads, CloseSocket(t) \/ ReleaseSession(t) \/ OnDisconnected(t)
       PROVE  Quiet'
  BY <1>23 DEF CloseSocket, ReleaseSession, OnDisconnected, Goto, Return, queueVars, sendVars,
     refVars
<1>24. ASSUME NEW t \in Threads, CallDisconnect(t) PROVE Quiet'
  BY <1>24 DEF CallDisconnect, Goto, CanCall, connVars, queueVars, sendVars, refVars
<1> QED
  BY <1>1, <1>2, <1>3, <1>4, <1>5, <1>6, <1>7, <1>8, <1>9, <1>10, <1>11, <1>12, <1>13, <1>14,
     <1>15, <1>16, <1>17, <1>18, <1>19, <1>20, <1>21, <1>22, <1>23, <1>24
     DEF Next, Accept, Receive, Send, Close, Borrow

LEMMA TokenStep == IInv /\ [Next]_vars => TokenInv'
<1> SUFFICES ASSUME IInv, [Next]_vars PROVE TokenInv'
  OBVIOUS
<1>0. /\ pc \in [Threads -> Labels]
      /\ io \in [Threads -> Kinds \cup {"none"}] /\ pending \in [Kinds -> Nat]
      /\ FoundEarly \in BOOLEAN /\ sendRegistered \in BOOLEAN /\ connected \in BOOLEAN /\ TokenInv
  BY DEF IInv, Types
<1>1. ASSUME NEW t \in Threads, NEW kind \in Kinds, Dispatch(t, kind) PROVE TokenInv'
  <2>1. pending[kind] > 0 /\ pending' = [pending EXCEPT ![kind] = pending[kind] - 1]
    BY <1>1 DEF Dispatch
  <2>2. \A u \in Threads : u # t => (Holds(u)' <=> Holds(u))
    BY <1>0, <1>1 DEF Dispatch, Holds
  <2>3. ~ Holds(t) /\ (Holds(t)' <=> kind \in {"registerSend", "send"})
    BY <1>0, <1>1 DEF Dispatch, EntryOf, Holds, Kinds
  <2>4. UNCHANGED <<sendRegistered, connected>>
    BY <1>1 DEF Dispatch, connVars, sendVars
  <2>5. CASE kind \in {"registerSend", "send"}
    <3>1. sendRegistered /\ \A u \in Threads : ~ Holds(u)
      BY <1>0, <2>1, <2>5, TokenFacts
    <3>2. pending'["registerSend"] = 0 /\ pending'["send"] = 0
      BY <1>0, <2>1, <2>5, TokenFacts DEF Kinds
    <3> QED
      BY <2>2, <2>3, <2>4, <2>5, <3>1, <3>2 DEF TokenInv
  <2>6. CASE kind \notin {"registerSend", "send"}
    <3>1. pending'["registerSend"] = pending["registerSend"] /\ pending'["send"] = pending["send"]
      BY <1>0, <2>1, <2>6
    <3>2. \A u \in Threads : Holds(u)' <=> Holds(u)
      BY <2>2, <2>3, <2>6
    <3> QED
      BY <1>0, <2>4, <3>1, <3>2 DEF TokenInv
  <2> QED
    BY <2>5, <2>6
<1>2. ASSUME NEW t \in Threads, Connected(t) PROVE TokenInv'
  <2>1. FoundEarly \/ ~ sendRegistered
    BY <1>0, <1>2 DEF Connected, Arriving, IInv, Quiet, Untouched
  <2>2. UNCHANGED <<sendRegistered, pending>>
    BY <1>2 DEF Connected, sendVars
  <2>3. \A u \in Threads : Holds(u)' => Holds(u)
    BY <1>0, <1>2 DEF Connected, Goto, Holds
  <2> QED
    BY <1>0, <2>1, <2>2, <2>3 DEF TokenInv
<1>3. ASSUME NEW t \in Threads, TrySend(t) PROVE TokenInv'
  <2>1. \A u \in Threads : Holds(u)' <=> Holds(u)
    BY <1>0, <1>3 DEF TrySend, CanCall, Goto, Holds
  <2>2. sendRegistered' = TRUE /\ connected' = connected
    BY <1>3 DEF TrySend, connVars
  <2>3. CASE sendRegistered
    <3>1. pending' = pending
      BY <1>3, <2>3 DEF TrySend
    <3> QED
      BY <1>0, <2>1, <2>2, <2>3, <3>1 DEF TokenInv
  <2>4. CASE ~ sendRegistered
    <3>1. pending["registerSend"] = 0 /\ pending["send"] = 0 /\ \A u \in Threads : ~ Holds(u)
      BY <1>0, <2>4 DEF TokenInv
    <3>2. pending'["registerSend"] = 1 /\ pending'["send"] = 0
      BY <1>0, <1>3, <2>4, <3>1 DEF TrySend, Kinds
    <3> QED
      BY <2>1, <2>2, <3>1, <3>2 DEF TokenInv
  <2> QED
    BY <2>3, <2>4
<1>4. ASSUME NEW t \in Threads, StartSend(t) PROVE TokenInv'
  <2>1. Holds(t)
    BY <1>0, <1>4 DEF StartSend, Holds, IInv, Served, Serves
  <2>2. \A u \in Threads : ~ Holds(u)'
    BY <1>0, <1>4, <2>1 DEF StartSend, Hand, Holds, TokenInv
  <2>3. sendRegistered /\ pending["registerSend"] = 0 /\ pending["send"] = 0
    BY <2>1, TokenFacts
  <2>4. pending'["registerSend"] = 0 /\ pending'["send"] = 1
    BY <1>0, <1>4, <2>3 DEF StartSend, Hand, Kinds
  <2>5. sendRegistered' = sendRegistered
    BY <1>4 DEF StartSend
  <2> QED
    BY <2>2, <2>3, <2>4, <2>5 DEF TokenInv
<1>5. ASSUME NEW t \in Threads, ReleaseEmptyHanded(t) PROVE TokenInv'
  <2>1. Holds(t)
    BY <1>0, <1>5 DEF ReleaseEmptyHanded, Holds, IInv, Served, Serves
  <2>2. \A u \in Threads : ~ Holds(u)'
    BY <1>0, <1>5, <2>1 DEF ReleaseEmptyHanded, Goto, Return, Holds, TokenInv
  <2>3. pending' = pending /\ sendRegistered' = FALSE
    BY <1>5 DEF ReleaseEmptyHanded
  <2>4. pending["registerSend"] = 0 /\ pending["send"] = 0
    BY <2>1, TokenFacts
  <2> QED
    BY <2>2, <2>3, <2>4 DEF TokenInv
<1>6. ASSUME NEW t \in Threads, ReleaseToken(t) PROVE TokenInv'
  <2>1. Holds(t)
    BY <1>0, <1>6 DEF ReleaseToken, Holds, IInv, Served, Serves
  <2>2. \A u \in Threads : ~ Holds(u)'
    BY <1>0, <1>6, <2>1 DEF ReleaseToken, Goto, Return, Holds, TokenInv
  <2>3. pending' = pending /\ sendRegistered' = FALSE
    BY <1>6 DEF ReleaseToken
  <2>4. pending["registerSend"] = 0 /\ pending["send"] = 0
    BY <2>1, TokenFacts
  <2> QED
    BY <2>2, <2>3, <2>4 DEF TokenInv
<1>7. ASSUME NEW t \in Threads, RetakeToken(t) PROVE TokenInv'
  <2>1. sendRegistered' = TRUE /\ UNCHANGED <<connected, pending>>
    BY <1>7 DEF RetakeToken, connVars
  <2>2. \A u \in Threads : u # t => (Holds(u)' <=> Holds(u))
    BY <1>0, <1>7 DEF RetakeToken, Goto, Return, Holds
  <2>3. CASE sendRegistered
    <3>1. ~ Holds(t) /\ ~ Holds(t)'
      BY <1>0, <1>7, <2>3 DEF RetakeToken, Return, Holds
    <3> QED
      BY <1>0, <2>1, <2>2, <2>3, <3>1 DEF TokenInv
  <2>4. CASE ~ sendRegistered
    <3>1. pending["registerSend"] = 0 /\ pending["send"] = 0 /\ \A u \in Threads : ~ Holds(u)
      BY <1>0, <2>4 DEF TokenInv
    <3>2. Holds(t)'
      BY <1>0, <1>7, <2>4 DEF RetakeToken, Goto, Holds, IInv, Served, Serves
    <3> QED
      BY <2>1, <2>2, <3>1, <3>2 DEF TokenInv
  <2> QED
    BY <2>3, <2>4
<1>8. ASSUME NEW t \in Threads, RecheckQueue(t) PROVE TokenInv'
  <2>1. \A u \in Threads : Holds(u)' <=> Holds(u)
    BY <1>0, <1>8 DEF RecheckQueue, Goto, Return, Holds
  <2>2. UNCHANGED <<sendRegistered, connected, pending>>
    BY <1>8 DEF RecheckQueue, connVars, sendVars
  <2> QED
    BY <1>0, <2>1, <2>2 DEF TokenInv
<1>9. ASSUME NEW t \in Threads,
             RegisterSend(t) \/ FlushSendQueue(t) \/ FailSend(t) \/ ProcessSend(t)
             \/ PeekQueueEarly(t) \/ RegisterRecv(t) \/ ProcessRecv(t) \/ FailRecv(t)
             \/ LowerFastFlags(t) \/ CallDisconnect(t)
      PROVE  TokenInv'
  <2>1. \A u \in Threads : Holds(u)' <=> Holds(u)
    BY <1>0, <1>9 DEF RegisterSend, FlushSendQueue, FailSend, ProcessSend, PeekQueueEarly,
       RegisterRecv, ProcessRecv, FailRecv, LowerFastFlags, CallDisconnect, Goto, CanCall,
       Holds, IInv, Served, Serves
  <2>2. UNCHANGED <<sendRegistered, connected, pending>>
    BY <1>9 DEF RegisterSend, FlushSendQueue, FailSend, ProcessSend, PeekQueueEarly,
       RegisterRecv, ProcessRecv, FailRecv, LowerFastFlags, CallDisconnect, connVars, sendVars
  <2> QED
    BY <1>0, <2>1, <2>2 DEF TokenInv
<1>10. ASSUME NEW t \in Threads, Disconnect(t) PROVE TokenInv'
  <2>1. \A u \in Threads : Holds(u)' => Holds(u)
    BY <1>0, <1>10 DEF Disconnect, Goto, Return, Holds
  <2>2. connected' = FALSE /\ UNCHANGED <<sendRegistered, pending>>
    BY <1>10 DEF Disconnect, sendVars
  <2> QED
    BY <1>0, <2>1, <2>2 DEF TokenInv
<1>11. ASSUME NEW t \in Threads, StartRecv(t) PROVE TokenInv'
  <2>1. \A u \in Threads : Holds(u)' <=> Holds(u)
    BY <1>0, <1>11 DEF StartRecv, Hand, Holds
  <2>2. UNCHANGED <<sendRegistered, connected>>
    BY <1>11 DEF StartRecv, connVars, sendVars
  <2>3. pending'["registerSend"] = pending["registerSend"] /\ pending'["send"] = pending["send"]
    BY <1>0, <1>11 DEF StartRecv, Hand, Kinds
  <2> QED
    BY <1>0, <2>1, <2>2, <2>3 DEF TokenInv
<1>12. ASSUME NEW t \in Threads, RegisterDisconnect(t) PROVE TokenInv'
  <2>1. \A u \in Threads : Holds(u)' <=> Holds(u)
    BY <1>0, <1>12 DEF RegisterDisconnect, Holds
  <2>2. UNCHANGED <<sendRegistered, connected>>
    BY <1>12 DEF RegisterDisconnect, connVars, sendVars
  <2>3. pending'["registerSend"] = pending["registerSend"] /\ pending'["send"] = pending["send"]
    BY <1>0, <1>12 DEF RegisterDisconnect, Kinds
  <2> QED
    BY <1>0, <2>1, <2>2, <2>3 DEF TokenInv
<1> USE <1>0 DEF TokenInv, Holds, Kinds
<1>13. CASE UNCHANGED vars
  BY <1>13 DEF vars, connVars, queueVars, sendVars, refVars, threadVars
<1>14. ASSUME NEW t \in Threads,
             RefuseConnection(t) \/ AddSession(t) \/ RaiseFastFlags(t)
      PROVE  TokenInv'
  BY <1>14 DEF RefuseConnection, AddSession, RaiseFastFlags, Return, connVars, queueVars,
     sendVars, Goto, refVars
<1>15. ASSUME NEW t \in Threads,
             GetSession(t) \/ DropSession(t)
      PROVE  TokenInv'
  BY <1>15 DEF GetSession, DropSession, queueVars, sendVars, connVars, threadVars, CanCall
<1>e. ASSUME NEW t \in Threads, CloseSocket(t) \/ ReleaseSession(t) \/ OnDisconnected(t)
      PROVE  TokenInv'
  BY <1>e DEF CloseSocket, ReleaseSession, OnDisconnected, Goto, Return, queueVars, sendVars
<1>16. ASSUME NEW t \in Threads, SwapTail(t) PROVE TokenInv'
  BY <1>16 DEF SwapTail, CanCall, connVars, sendVars, refVars
<1>17. ASSUME NEW t \in Threads, LinkNode(t) PROVE TokenInv'
  BY <1>17 DEF LinkNode, connVars, queueVars, sendVars, refVars
<1> QED
  BY <1>1, <1>e, <1>2, <1>3, <1>4, <1>5, <1>6, <1>7, <1>8, <1>9, <1>10, <1>11, <1>12, <1>13,
     <1>14,
     <1>15, <1>16, <1>17 DEF Next, Accept, Receive, Send, Close, Borrow

LEMMA OrderStep == IInv /\ [Next]_vars => OrderInv'
<1> SUFFICES ASSUME IInv, [Next]_vars PROVE OrderInv'
  OBVIOUS
<1>0. /\ pc \in [Threads -> Labels]
      /\ io \in [Threads -> Kinds \cup {"none"}] /\ pending \in [Kinds -> Nat]
      /\ accepted \in 0..MaxSends /\ MaxSends \in Nat
      /\ sendQueue \in Seq(1..MaxSends) /\ sendBuffer \in Seq(1..MaxSends)
      /\ wire \in Seq(1..MaxSends) /\ OrderInv
  BY DEF IInv, Types
<1>1. ASSUME NEW t \in Threads, NEW kind \in Kinds, Dispatch(t, kind) PROVE OrderInv'
  <2>1. pending[kind] > 0 /\ pending' = [pending EXCEPT ![kind] = pending[kind] - 1]
    BY <1>1 DEF Dispatch
  <2>2. UNCHANGED <<accepted, sendQueue, sendBuffer, wire>>
    BY <1>1 DEF Dispatch, queueVars, sendVars
  <2>3. CASE kind = "send"
    <3>1. Sending
      BY <2>1, <2>3, TokenFacts DEF Sending
    <3>2. Sending'
      BY <1>0, <1>1, <2>3 DEF Dispatch, EntryOf, Sending
    <3> QED
      BY <1>0, <2>2, <3>1, <3>2, OrderKept
  <2>4. CASE kind # "send"
    <3>1. pending'["send"] = pending["send"]
      BY <1>0, <2>1, <2>4 DEF Kinds
    <3>2. \A u \in Threads : pc'[u] = "processSend" <=> pc[u] = "processSend"
      BY <1>0, <1>1, <2>4 DEF Dispatch, EntryOf, Kinds
    <3>3. Sending' <=> Sending
      BY <3>1, <3>2 DEF Sending
    <3> QED
      BY <1>0, <2>2, <3>3, OrderKept
  <2> QED
    BY <2>3, <2>4
<1>2. ASSUME NEW t \in Threads, SwapTail(t) PROVE OrderInv'
  <2>1. /\ accepted < MaxSends /\ accepted' = accepted + 1
        /\ sendQueue' = Append(sendQueue, accepted + 1)
        /\ UNCHANGED <<sendBuffer, wire, pending>>
    BY <1>2 DEF SwapTail, sendVars
  <2>2. Sending' <=> Sending
    BY <1>0, <1>2, <2>1 DEF SwapTail, CanCall, Sending
  <2>3. Left' = Left
    BY <2>1, <2>2 DEF Left
  <2>4. accepted + 1 \in 1..MaxSends
    BY <1>0, <2>1
  <2>5. /\ Len(sendQueue') = Len(sendQueue) + 1
        /\ \A i \in 1..Len(sendQueue) : sendQueue'[i] = sendQueue[i]
        /\ sendQueue'[Len(sendQueue) + 1] = accepted + 1
    BY <1>0, <2>1, <2>4, AppendProperties
  <2> QED
    <3>1. /\ Left \in Nat /\ Len(wire) \in Nat /\ Len(sendQueue) \in Nat
          /\ Len(wire) + Left + Len(sendQueue) = accepted
      BY <1>0, LeftNat DEF IInv, OrderInv
    <3>2. Len(wire') + Left' + Len(sendQueue') = accepted'
      BY <2>1, <2>3, <2>5, <3>1
    <3>3. \A i \in 1..Len(sendQueue') : sendQueue'[i] = Len(wire') + Left' + i
      <4> SUFFICES ASSUME NEW i \in 1..Len(sendQueue') PROVE sendQueue'[i] = Len(wire) + Left + i
        BY <2>1, <2>3
      <4>1. i \in 1..Len(sendQueue) \/ i = Len(sendQueue) + 1
        BY <2>5, <3>1
      <4>2. CASE i \in 1..Len(sendQueue)
        BY <1>0, <2>5, <4>2 DEF OrderInv
      <4>3. CASE i = Len(sendQueue) + 1
        BY <2>5, <3>1, <4>3
      <4> QED
        BY <4>1, <4>2, <4>3
    <3> QED
      BY <1>0, <2>1, <2>3, <3>2, <3>3 DEF OrderInv
<1>3. ASSUME NEW t \in Threads, FlushSendQueue(t) PROVE OrderInv'
  <2>1. Holds(t)
    BY <1>0, <1>3 DEF FlushSendQueue, Holds, IInv, Served, Serves
  <2>2. ~ Sending /\ ~ Sending'
    <3>1. pending["send"] = 0 /\ \A u \in Threads : pc[u] # "processSend"
      BY <1>3, <2>1, OneSender DEF FlushSendQueue
    <3>2. pending' = pending /\ \A u \in Threads : pc'[u] # "processSend"
      <4>1. PICK label \in {"nothingToSend", "wsaSend"} : pc' = [pc EXCEPT ![t] = label]
        BY <1>3 DEF FlushSendQueue, Goto
      <4>2. pending' = pending
        BY <1>3 DEF FlushSendQueue
      <4> QED
        BY <1>0, <3>1, <4>1, <4>2
    <3> QED
      BY <3>1, <3>2 DEF Sending
  <2>3. PICK n \in 0..Len(sendQueue) :
          /\ sendBuffer' = sendBuffer \o SubSeq(sendQueue, 1, n)
          /\ sendQueue' = SubSeq(sendQueue, n + 1, Len(sendQueue))
    BY <1>3 DEF FlushSendQueue
  <2>4. wire' = wire /\ accepted' = accepted
    BY <1>3 DEF FlushSendQueue
  <2> DEFINE batch == SubSeq(sendQueue, 1, n)
  <2>5. /\ batch \in Seq(1..MaxSends) /\ Len(batch) = n
        /\ \A i \in 1..n : batch[i] = sendQueue[i]
    BY <1>0, Cut
  <2>6. /\ Len(sendQueue') = Len(sendQueue) - n
        /\ \A i \in 1..(Len(sendQueue) - n) : sendQueue'[i] = sendQueue[n + i]
    BY <1>0, <2>3, Cut
  <2>7. /\ Len(sendBuffer') = Len(sendBuffer) + n
        /\ \A i \in 1..(Len(sendBuffer) + n) : sendBuffer'[i] =
             IF i <= Len(sendBuffer) THEN sendBuffer[i] ELSE batch[i - Len(sendBuffer)]
    <3> HIDE DEF batch
    <3>1. sendBuffer' = sendBuffer \o batch
      BY <2>3 DEF batch
    <3>2. sendBuffer \in Seq(1..MaxSends) /\ batch \in Seq(1..MaxSends) /\ Len(batch) = n
      BY <1>0, <2>5
    <3> QED
      BY <3>1, <3>2, ConcatProperties
  <2> HIDE DEF batch
  <2>8. Left = Len(sendBuffer) /\ Left' = Len(sendBuffer) + n
    BY <2>2, <2>7 DEF Left
  <2>9. Len(wire) \in Nat /\ Len(sendBuffer) \in Nat /\ Len(sendQueue) \in Nat
    BY <1>0
  <2>10. \A i \in 1..Left' : sendBuffer'[i] = Len(wire) + i
    <3> SUFFICES ASSUME NEW i \in 1..Left' PROVE sendBuffer'[i] = Len(wire) + i
      OBVIOUS
    <3>1. CASE i <= Len(sendBuffer)
      BY <1>0, <2>7, <2>8, <2>9, <3>1 DEF OrderInv
    <3>2. CASE i > Len(sendBuffer)
      <4>1. i - Len(sendBuffer) \in 1..n /\ i - Len(sendBuffer) \in 1..Len(sendQueue)
        BY <2>8, <2>9, <3>2
      <4>2. sendBuffer'[i] = sendQueue[i - Len(sendBuffer)]
        BY <2>5, <2>7, <2>8, <2>9, <3>2, <4>1
      <4> QED
        BY <1>0, <2>8, <2>9, <4>1, <4>2 DEF OrderInv
    <3> QED
      BY <2>8, <2>9, <3>1, <3>2
  <2>11. \A i \in 1..Len(sendQueue') : sendQueue'[i] = Len(wire) + Left' + i
    <3> SUFFICES ASSUME NEW i \in 1..Len(sendQueue') PROVE sendQueue'[i] = Len(wire) + Left' + i
      OBVIOUS
    <3>1. n + i \in 1..Len(sendQueue) /\ i \in 1..(Len(sendQueue) - n)
      BY <2>6, <2>9
    <3> QED
      BY SMTT(30), <1>0, <2>6, <2>8, <2>9, <3>1 DEF OrderInv
  <2> QED
    <3>1. Len(wire) + Left + Len(sendQueue) = accepted /\ \A i \in 1..Len(wire) : wire[i] = i
      BY <1>0 DEF OrderInv
    <3>2. Len(wire) + Left' + Len(sendQueue') = accepted
      BY <2>6, <2>8, <2>9, <3>1
    <3> QED
      BY <2>4, <2>10, <2>11, <3>1, <3>2 DEF OrderInv
<1>4. ASSUME NEW t \in Threads, StartSend(t) PROVE OrderInv'
  <2>1. Holds(t)
    BY <1>0, <1>4 DEF StartSend, Holds, IInv, Served, Serves
  <2>2. ~ Sending
    BY <1>4, <2>1, OneSender DEF StartSend, Sending
  <2>3. pending'["send"] = 1
    BY <1>0, <1>4, <2>1, TokenFacts DEF StartSend, Hand, Kinds
  <2>4. Left = Len(sendBuffer) /\ Left' = 0
    BY <2>2, <2>3 DEF Left, Sending
  <2>5. UNCHANGED <<accepted, sendQueue>> /\ wire' = wire \o sendBuffer
    BY <1>4 DEF StartSend, queueVars
  <2>6. /\ Len(wire') = Len(wire) + Len(sendBuffer)
        /\ \A i \in 1..(Len(wire) + Len(sendBuffer)) : wire'[i] =
             IF i <= Len(wire) THEN wire[i] ELSE sendBuffer[i - Len(wire)]
    BY <1>0, <2>5, ConcatProperties
  <2>7. Len(wire) \in Nat /\ Len(sendBuffer) \in Nat /\ Len(sendQueue) \in Nat
    BY <1>0
  <2>8. \A i \in 1..Len(wire') : wire'[i] = i
    <3> SUFFICES ASSUME NEW i \in 1..Len(wire') PROVE wire'[i] = i
      OBVIOUS
    <3>1. CASE i <= Len(wire)
      <4>1. i \in 1..Len(wire) /\ wire'[i] = wire[i]
        BY <2>6, <2>7, <3>1
      <4> QED
        BY <1>0, <4>1 DEF OrderInv
    <3>2. CASE i > Len(wire)
      <4>1. i - Len(wire) \in 1..Left
        BY <2>4, <2>6, <2>7, <3>2
      <4>2. wire'[i] = sendBuffer[i - Len(wire)]
        BY <2>6, <2>7, <3>2
      <4> QED
        BY <1>0, <2>7, <4>1, <4>2 DEF OrderInv
    <3> QED
      BY <2>6, <2>7, <3>1, <3>2
  <2> QED
    BY <1>0, <2>4, <2>5, <2>6, <2>7, <2>8 DEF OrderInv
<1>5. ASSUME NEW t \in Threads, ProcessSend(t) PROVE OrderInv'
  <2>1. Left = 0
    BY <1>5 DEF ProcessSend, Left, Sending
  <2>2. Left' = 0
    BY <1>5 DEF ProcessSend, Left
  <2>3. UNCHANGED <<accepted, sendQueue, wire>>
    BY <1>5 DEF ProcessSend, queueVars
  <2> QED
    BY <1>0, <2>1, <2>2, <2>3 DEF OrderInv
<1>6. ASSUME NEW t \in Threads,
             GetSession(t) \/ DropSession(t)
      PROVE  OrderInv'
  <2>1. UNCHANGED <<accepted, sendQueue, sendBuffer, wire, pc, pending>>
    BY <1>6 DEF GetSession, DropSession, connVars, queueVars, sendVars, threadVars, CanCall
  <2> QED
    BY <1>0, <2>1, OrderKept DEF Sending
<1>7. ASSUME NEW t \in Threads,
             RefuseConnection(t) \/ AddSession(t) \/ RaiseFastFlags(t) \/ Connected(t)
             \/ ProcessRecv(t) \/ RegisterRecv(t) \/ StartRecv(t) \/ FailRecv(t)
             \/ RegisterSend(t) \/ ReleaseEmptyHanded(t) \/ FailSend(t)
             \/ PeekQueueEarly(t) \/ ReleaseToken(t) \/ RecheckQueue(t)
             \/ RetakeToken(t) \/ Disconnect(t) \/ LowerFastFlags(t)
             \/ RegisterDisconnect(t) \/ CloseSocket(t) \/ ReleaseSession(t)
             \/ OnDisconnected(t) \/ LinkNode(t) \/ TrySend(t) \/ CallDisconnect(t)
      PROVE  OrderInv'
  <2>1. pc[t] # "processSend" /\ \E label \in Labels \ {"processSend"} : pc' = [pc EXCEPT ![t] = label]
    BY <1>7 DEF RefuseConnection, AddSession, RaiseFastFlags, Connected, ProcessRecv,
       RegisterRecv, StartRecv, FailRecv, RegisterSend, ReleaseEmptyHanded, FailSend,
       PeekQueueEarly, ReleaseToken, RecheckQueue, RetakeToken, Disconnect, LowerFastFlags,
       RegisterDisconnect, CloseSocket, ReleaseSession, OnDisconnected, LinkNode, TrySend,
       CallDisconnect, Return, Goto, Hand,
       CanCall, Labels
  <2>2. pending'["send"] = pending["send"]
    BY <1>0, <1>7 DEF RefuseConnection, AddSession, RaiseFastFlags, Connected, ProcessRecv,
       RegisterRecv, StartRecv, FailRecv, RegisterSend, ReleaseEmptyHanded, FailSend,
       PeekQueueEarly, ReleaseToken, RecheckQueue, RetakeToken, Disconnect, LowerFastFlags,
       RegisterDisconnect, CloseSocket, ReleaseSession, OnDisconnected, LinkNode, TrySend,
       CallDisconnect, Return, Goto, Hand,
       CanCall, Kinds
  <2>3. Sending' <=> Sending
    BY <1>0, <2>1, <2>2 DEF Sending
  <2>4. UNCHANGED <<accepted, sendQueue, sendBuffer, wire>>
    BY <1>7 DEF RefuseConnection, AddSession, RaiseFastFlags, Connected, ProcessRecv,
       RegisterRecv, StartRecv, FailRecv, RegisterSend, ReleaseEmptyHanded, FailSend,
       PeekQueueEarly, ReleaseToken, RecheckQueue, RetakeToken, Disconnect, LowerFastFlags,
       RegisterDisconnect, CloseSocket, ReleaseSession, OnDisconnected, LinkNode, TrySend,
       CallDisconnect, queueVars, sendVars
  <2> QED
    BY <1>0, <2>3, <2>4, OrderKept
<1> USE <1>0 DEF OrderInv, Left, Sending
<1>8. CASE UNCHANGED vars
  BY <1>8 DEF vars, connVars, queueVars, sendVars, refVars, threadVars
<1> QED
  BY <1>1, <1>2, <1>3, <1>4, <1>5, <1>6, <1>7, <1>8 DEF Next, Accept, Receive, Send, Close,
     Borrow

LEMMA RefStep == IInv /\ [Next]_vars => RefsAreExact'
<1> SUFFICES ASSUME IInv, [Next]_vars PROVE RefsAreExact'
  OBVIOUS
<1>1. ASSUME NEW t \in Threads, NEW kind \in Kinds, Dispatch(t, kind) PROVE RefsAreExact'
  <2>1. /\ refs' = refs /\ Cardinality(borrowed)' = Cardinality(borrowed)
        /\ pending' = [pending EXCEPT ![kind] = pending[kind] - 1]
        /\ io[t] = "none" /\ io' = [io EXCEPT ![t] = kind] /\ Slot' = Slot
    BY <1>1 DEF Dispatch, refVars, connVars, Slot, IInv, Served, Serves
  <2>2. Held' = Held - 1 /\ Cardinality(Busy)' = Cardinality(Busy) + 1
    BY <2>1, HeldChanges, BusyChanges
  <2>3. Held \in Nat /\ Slot \in Nat
    BY HeldChanges DEF Kinds, Slot
  <2> QED
    BY <2>1, <2>2, <2>3, Sum, FiniteParts DEF IInv, RefsAreExact
<1>2. ASSUME NEW t \in Threads, AddSession(t) PROVE RefsAreExact'
  <2>1. /\ refs' = refs + 1 /\ UNCHANGED <<io, pending, borrowed>>
        /\ Slot = 0 /\ Slot' = 1
    BY <1>2 DEF AddSession, Goto, Slot, IInv, Quiet
  <2>2. /\ Held' = Held /\ Cardinality(Busy)' = Cardinality(Busy)
        /\ Cardinality(borrowed)' = Cardinality(borrowed)
    BY <2>1 DEF Held, Busy
  <2>3. Held \in Nat /\ Slot \in Nat
    BY HeldChanges DEF Kinds, Slot
  <2> QED
    BY <2>1, <2>2, <2>3, Sum, FiniteParts DEF IInv, RefsAreExact
<1>3. ASSUME NEW t \in Threads, TrySend(t) PROVE RefsAreExact'
  <2>1. /\ UNCHANGED <<io, borrowed, inService>>
        /\ \/ UNCHANGED <<refs, pending>>
           \/ /\ refs' = refs + 1
              /\ pending' = [pending EXCEPT !["registerSend"] = pending["registerSend"] + 1]
    BY <1>3 DEF TrySend, Goto, connVars
  <2>2. CASE UNCHANGED <<refs, pending>>
    BY <2>1, <2>2, RefsKept
  <2>3. CASE /\ refs' = refs + 1
             /\ pending' = [pending EXCEPT !["registerSend"] = pending["registerSend"] + 1]
    <3>1. Held \in Nat /\ Slot \in Nat /\ Held' = Held + 1
      BY <2>3, HeldChanges DEF Kinds, Slot
    <3>2. /\ Slot' = Slot /\ Cardinality(Busy)' = Cardinality(Busy)
          /\ Cardinality(borrowed)' = Cardinality(borrowed)
      BY <2>1 DEF Slot, Busy
    <3> QED
      BY <2>3, <3>1, <3>2, Sum, FiniteParts DEF IInv, RefsAreExact
  <2> QED
    BY <2>1, <2>2, <2>3
<1>4. ASSUME NEW t \in Threads, RegisterDisconnect(t) PROVE RefsAreExact'
  <2>1. /\ io' = [io EXCEPT ![t] = "none"] /\ Cardinality(borrowed)' = Cardinality(borrowed)
        /\ pending' = [pending EXCEPT !["disconnect"] = pending["disconnect"] + 1]
        /\ refs' = (IF io[t] = "none" THEN refs + 1 ELSE refs) /\ Slot' = Slot
    BY <1>4 DEF RegisterDisconnect, connVars, Slot
  <2>2. /\ Held' = Held + 1
        /\ Cardinality(Busy)' = Cardinality(Busy) - (IF io[t] = "none" THEN 0 ELSE 1)
    BY <2>1, HeldChanges, BusyChanges DEF Kinds
  <2>3. Held \in Nat /\ Slot \in Nat
    BY HeldChanges DEF Kinds, Slot
  <2> QED
    BY <2>1, <2>2, <2>3, Sum, FiniteParts DEF IInv, RefsAreExact
<1>5. ASSUME NEW t \in Threads, ReleaseSession(t) PROVE RefsAreExact'
  <2>1. refs' = refs - Slot /\ Slot' = 0 /\ UNCHANGED <<io, pending, borrowed>>
    BY <1>5 DEF ReleaseSession, Goto, Slot
  <2>2. /\ Held' = Held /\ Cardinality(Busy)' = Cardinality(Busy)
        /\ Cardinality(borrowed)' = Cardinality(borrowed)
    BY <2>1 DEF Held, Busy
  <2>3. Held \in Nat /\ Slot \in Nat
    BY HeldChanges DEF Kinds, Slot
  <2> QED
    BY <2>1, <2>2, <2>3, Sum, FiniteParts DEF IInv, RefsAreExact
<1>d. ASSUME NEW t \in Threads, OnDisconnected(t) PROVE RefsAreExact'
  <2>1. Return(t) /\ UNCHANGED <<pending, inService>>
    BY <1>d DEF OnDisconnected
  <2> QED
    BY <2>1, ReturnKeepsRefs
<1>e. ASSUME NEW t \in Threads, CloseSocket(t) PROVE RefsAreExact'
  <2>1. UNCHANGED <<refs, borrowed, io, pending, inService>>
    BY <1>e DEF CloseSocket, Goto, refVars
  <2> QED
    BY <2>1, RefsKept
<1>6. ASSUME NEW t \in Threads, GetSession(t) PROVE RefsAreExact'
  <2>1. /\ borrowed' = borrowed \cup {t} /\ t \notin borrowed /\ refs' = refs + 1
        /\ UNCHANGED <<io, pending, inService>>
    BY <1>6 DEF GetSession, connVars, threadVars
  <2>2. /\ Held' = Held /\ Slot' = Slot /\ Cardinality(Busy)' = Cardinality(Busy)
        /\ Cardinality(borrowed)' = Cardinality(borrowed) + 1
    BY <2>1, FiniteParts, FS_AddElement DEF Held, Slot, Busy
  <2>3. Held \in Nat /\ Slot \in Nat
    BY HeldChanges DEF Kinds, Slot
  <2> QED
    BY <2>1, <2>2, <2>3, Sum, FiniteParts DEF IInv, RefsAreExact
<1>7. ASSUME NEW t \in Threads, DropSession(t) PROVE RefsAreExact'
  <2>1. /\ borrowed' = borrowed \ {t} /\ t \in borrowed /\ refs' = refs - 1
        /\ UNCHANGED <<io, pending, inService>>
    BY <1>7 DEF DropSession, CanCall, connVars, threadVars
  <2>2. /\ Held' = Held /\ Slot' = Slot /\ Cardinality(Busy)' = Cardinality(Busy)
        /\ Cardinality(borrowed)' = Cardinality(borrowed) - 1
    BY <2>1, FiniteParts, FS_RemoveElement DEF Held, Slot, Busy
  <2>3. Held \in Nat /\ Slot \in Nat
    BY HeldChanges DEF Kinds, Slot
  <2> QED
    BY <2>1, <2>2, <2>3, Sum, FiniteParts DEF IInv, RefsAreExact
<1>8. ASSUME NEW t \in Threads, StartRecv(t) PROVE RefsAreExact'
  <2>1. Hand(t, "recv") /\ inService' = inService /\ io[t] # "none"
    BY <1>8 DEF StartRecv, connVars, IInv, Served, Serves
  <2> QED
    BY <2>1, HandKeepsRefs DEF Kinds
<1>9. ASSUME NEW t \in Threads, StartSend(t) PROVE RefsAreExact'
  <2>1. Hand(t, "send") /\ inService' = inService /\ io[t] # "none"
    BY <1>9 DEF StartSend, connVars, IInv, Served, Serves
  <2> QED
    BY <2>1, HandKeepsRefs DEF Kinds
<1>10. ASSUME NEW t \in Threads, RefuseConnection(t) PROVE RefsAreExact'
  <2>1. Return(t) /\ UNCHANGED <<pending, inService>>
    BY <1>10 DEF RefuseConnection, connVars
  <2> QED
    BY <2>1, ReturnKeepsRefs
<1>11. ASSUME NEW t \in Threads, ReleaseEmptyHanded(t) PROVE RefsAreExact'
  <2>1. Return(t) /\ UNCHANGED <<pending, inService>>
    BY <1>11 DEF ReleaseEmptyHanded, connVars
  <2> QED
    BY <2>1, ReturnKeepsRefs
<1>12. ASSUME NEW t \in Threads, ReleaseToken(t) PROVE RefsAreExact'
  <2>1. UNCHANGED <<pending, inService>>
    BY <1>12 DEF ReleaseToken, connVars
  <2>2. CASE Return(t)
    BY <2>1, <2>2, ReturnKeepsRefs
  <2>3. CASE UNCHANGED <<io, refVars>>
    BY <2>1, <2>3, RefsKept DEF refVars
  <2> QED
    BY <1>12, <2>2, <2>3 DEF ReleaseToken, Goto
<1>13. ASSUME NEW t \in Threads, RecheckQueue(t) PROVE RefsAreExact'
  <2>1. UNCHANGED <<pending, inService>>
    BY <1>13 DEF RecheckQueue, connVars
  <2>2. CASE Return(t)
    BY <2>1, <2>2, ReturnKeepsRefs
  <2>3. CASE UNCHANGED <<io, refVars>>
    BY <2>1, <2>3, RefsKept DEF refVars
  <2> QED
    BY <1>13, <2>2, <2>3 DEF RecheckQueue, Goto
<1>14. ASSUME NEW t \in Threads, RetakeToken(t) PROVE RefsAreExact'
  <2>1. UNCHANGED <<pending, inService>>
    BY <1>14 DEF RetakeToken, connVars
  <2>2. CASE Return(t)
    BY <2>1, <2>2, ReturnKeepsRefs
  <2>3. CASE UNCHANGED <<io, refVars>>
    BY <2>1, <2>3, RefsKept DEF refVars
  <2> QED
    BY <1>14, <2>2, <2>3 DEF RetakeToken, Goto
<1>15. ASSUME NEW t \in Threads, Disconnect(t) PROVE RefsAreExact'
  <2>1. UNCHANGED <<pending, inService>>
    BY <1>15 DEF Disconnect, connVars
  <2>2. CASE Return(t)
    BY <2>1, <2>2, ReturnKeepsRefs
  <2>3. CASE UNCHANGED <<io, refVars>>
    BY <2>1, <2>3, RefsKept DEF refVars
  <2> QED
    BY <1>15, <2>2, <2>3 DEF Disconnect, Goto
<1>16. ASSUME NEW t \in Threads,
             RaiseFastFlags(t) \/ Connected(t) \/ ProcessRecv(t) \/ RegisterRecv(t)
             \/ FailRecv(t) \/ RegisterSend(t) \/ FlushSendQueue(t) \/ FailSend(t)
             \/ ProcessSend(t) \/ PeekQueueEarly(t) \/ LowerFastFlags(t) \/ SwapTail(t)
             \/ LinkNode(t) \/ CallDisconnect(t)
      PROVE  RefsAreExact'
  <2>1. UNCHANGED <<io, refs, borrowed, pending, inService>>
    BY <1>16 DEF RaiseFastFlags, Connected, ProcessRecv, RegisterRecv, FailRecv,
       RegisterSend, FlushSendQueue, FailSend, ProcessSend, PeekQueueEarly, LowerFastFlags,
       SwapTail, LinkNode, CallDisconnect, Goto, refVars, connVars
  <2> QED
    BY <2>1, RefsKept
<1> USE DEF RefsAreExact, Holders
<1>17. CASE UNCHANGED vars
  BY <1>17, RefsKept DEF vars, connVars, refVars, threadVars
<1> QED
  BY <1>1, <1>d, <1>e, <1>2, <1>3, <1>4, <1>5, <1>6, <1>7, <1>8, <1>9, <1>10, <1>11, <1>12,
     <1>13, <1>14,
     <1>15, <1>16, <1>17 DEF Next, Accept, Receive, Send, Close, Borrow

-----------------------------------------------------------------------------
LEMMA InitInv == Init => IInv
<1> SUFFICES ASSUME Init PROVE IInv
  OBVIOUS
<1>1. Types
  <2>1. sendQueue \in Seq(1..MaxSends) /\ sendBuffer \in Seq(1..MaxSends) /\ wire \in Seq(1..MaxSends)
    BY DEF Init
  <2>2. pending \in [Kinds -> Nat] /\ io \in [Threads -> Kinds \cup {"none"}]
    BY DEF Init
  <2>3. pc \in [Threads -> Labels] /\ packet \in [Threads -> 0..MaxSends]
    BY DEF Init, Labels
  <2>4. /\ connected \in BOOLEAN /\ connectedFast \in BOOLEAN /\ socketOpen \in BOOLEAN
        /\ inService \in BOOLEAN /\ sendRegistered \in BOOLEAN
    BY DEF Init
  <2>5. /\ onDisconnected \in Nat /\ refs \in Int /\ accepted \in 0..MaxSends
        /\ borrowed \subseteq Borrowers
    BY DEF Init
  <2> QED
    BY <2>1, <2>2, <2>3, <2>4, <2>5 DEF Types
<1>2. Served /\ ChainInv /\ EndInv /\ FlagInv
  <2>1. /\ \A t \in Threads : io[t] = "none" /\ pc[t] = "idle"
        /\ \A t \in Borrowers : io[t] = "none" /\ pc[t] = "idle"
        /\ pending["accept"] = 1 /\ pending["recv"] = 0 /\ pending["disconnect"] = 0
        /\ onDisconnected = 0 /\ ~ connected /\ ~ inService /\ ~ connectedFast
    BY DEF Init, Kinds, Threads
  <2>2. Served
    BY <2>1 DEF Served, Serves
  <2> QED
    BY <2>1, <2>2 DEF ChainInv, Receiving, EndInv, NotEnded, Ending, Arriving, FlagInv
<1>3. Quiet /\ TokenInv
  BY DEF Init, Kinds, Quiet, Untouched, Arriving, TokenInv, Holds
<1>4. OrderInv
  <2>1. Len(wire) = 0 /\ Left = 0 /\ Len(sendQueue) = 0 /\ accepted = 0
    BY DEF Init, Left
  <2> QED
    BY <2>1 DEF OrderInv
<1>5. RefsAreExact
  <2>1. Busy = {} /\ borrowed = {} /\ Slot = 0 /\ Held = 1 /\ refs = 1
    BY DEF Init, Busy, Slot, Held, Kinds
  <2>2. Holders = 1
    BY <2>1, FS_EmptySet DEF Holders, Busy, Slot, Held
  <2> QED
    BY <2>1, <2>2 DEF RefsAreExact
<1> QED
  BY <1>1, <1>2, <1>3, <1>4, <1>5 DEF IInv

THEOREM Invariance == SafetySpec => []IInv
<1>1. IInv /\ [Next]_vars => IInv'
  BY TypesStep, ServedStep, ChainStep, EndStep, FlagStep, QuietStep, TokenStep, OrderStep,
     RefStep
     DEF IInv
<1> QED
  BY InitInv, <1>1, PTL DEF SafetySpec

-----------------------------------------------------------------------------
(* The variables keep their types; no borrower is ever in a call without a *)
(* reference, and no reference is released that was not there.             *)
THEOREM TypeCorrect == SafetySpec => []TypeOK
<1>1. IInv => TypeOK
  <2> SUFFICES ASSUME IInv PROVE TypeOK
    OBVIOUS
  <2>1. refs \in Nat
    <3>1. Held \in Nat /\ Slot \in Nat
      BY HeldChanges DEF Kinds, Slot
    <3> QED
      BY <3>1, Sum, FiniteParts DEF IInv, RefsAreExact
  <2> QED
    BY <2>1 DEF IInv, Types, Served, TypeOK
<1> QED
  BY Invariance, <1>1, PTL

(* The send token is in one place at most, in none while the flag is down, *)
(* and in one while a connected session has the flag up (TrySend,          *)
(* RegisterSend, ProcessSend).                                             *)
THEOREM OneToken == SafetySpec => []SendTokenDiscipline
<1>1. IInv => SendTokenDiscipline
  <2> SUFFICES ASSUME IInv PROVE SendTokenDiscipline
    OBVIOUS
  <2>1. HoldingToken = {t \in Threads : Holds(t)}
    BY DEF HoldingToken, Holds
  <2>2. pending["registerSend"] \in {0, 1} /\ pending["send"] \in {0, 1}
    BY TokenFacts
  <2>3. CASE \E t \in Threads : Holds(t)
    <3>1. PICK t \in Threads : Holds(t)
      BY <2>3
    <3>2. HoldingToken = {t}
      BY <2>1, <3>1 DEF IInv, TokenInv
    <3>3. Cardinality(HoldingToken) = 1
      BY <3>2, FS_Singleton
    <3>4. Tokens = 1 /\ sendRegistered
      BY <3>1, <3>3, TokenFacts DEF Tokens
    <3> QED
      BY <3>4 DEF SendTokenDiscipline
  <2>4. CASE ~ \E t \in Threads : Holds(t)
    <3>1. HoldingToken = {}
      BY <2>1, <2>4
    <3>2. Tokens = pending["registerSend"] + pending["send"]
      BY <2>2, <3>1, FS_EmptySet DEF Tokens
    <3> QED
      BY <2>2, <2>4, <3>2, TokenFacts DEF SendTokenDiscipline, IInv, TokenInv
  <2> QED
    BY <2>3, <2>4
<1> QED
  BY Invariance, <1>1, PTL

(* Whatever threads send, and whichever sends fail, the socket is given    *)
(* the packets in the order of the queue, each once (RegisterSend).        *)
THEOREM SentInOrder == SafetySpec => []WireIsPrefix
<1>1. IInv => WireIsPrefix
  BY DEF IInv, Types, OrderInv, WireIsPrefix
<1> QED
  BY Invariance, <1>1, PTL

(* The reference count is what the events, the slot and the threads hold   *)
(* (SetIocpObject, PassIocpObject, ReleaseIocpObject).                     *)
THEOREM ExactRefs == SafetySpec => []RefsAreExact
<1>1. IInv => RefsAreExact
  BY DEF IInv
<1> QED
  BY Invariance, <1>1, PTL

(* One worker at a time handles what the session receives (RegisterRecv).  *)
THEOREM SerialHandlers == SafetySpec => []HandlersAreSerial
<1>1. IInv => HandlersAreSerial
  <2> SUFFICES ASSUME IInv PROVE HandlersAreSerial
    OBVIOUS
  <2> DEFINE R == {t \in Threads : io[t] \in {"accept", "recv"}}
  <2>1. /\ pending["accept"] \in Nat /\ pending["recv"] \in Nat
        /\ pending["accept"] + pending["recv"] <= 1
    BY DEF IInv, Types, Kinds, ChainInv
  <2>2. CASE R = {}
    <3>1. Cardinality(R) = 0
      BY <2>2, FS_EmptySet
    <3> QED
      BY <2>1, <3>1 DEF HandlersAreSerial
  <2>3. CASE R # {}
    <3>1. PICK t \in Threads : t \in R
      BY <2>3
    <3>2. R = {t} /\ pending["accept"] = 0 /\ pending["recv"] = 0
      BY <3>1 DEF IInv, ChainInv, Receiving
    <3>3. Cardinality(R) = 1
      BY <3>2, FS_Singleton
    <3> QED
      BY <3>2, <3>3 DEF HandlersAreSerial
  <2> QED
    BY <2>2, <2>3
<1> QED
  BY Invariance, <1>1, PTL

(* OnDisconnected is called once, however many threads disconnect, and     *)
(* finds the flags down and the slot empty (Disconnect, ReleaseSession).   *)
THEOREM OneDisconnect == SafetySpec => []DisconnectedOnce
<1>1. IInv => DisconnectedOnce
  <2> SUFFICES ASSUME IInv PROVE DisconnectedOnce
    OBVIOUS
  <2>1. pending["disconnect"] \in Nat /\ onDisconnected \in Nat
    BY DEF IInv, Types, Kinds
  <2>2. onDisconnected <= 1 /\ (onDisconnected = 1 => pending["disconnect"] + onDisconnected = 1)
    BY <2>1 DEF IInv, EndInv
  <2>3. onDisconnected = 1 => ~ connected
    BY DEF IInv, EndInv, NotEnded
  <2> QED
    BY <2>2, <2>3 DEF IInv, FlagInv, DisconnectedOnce
<1> QED
  BY Invariance, <1>1, PTL

-----------------------------------------------------------------------------
(* Inductive: what stays behind in the buffer between two receives is less *)
(* than the packet it begins, hence less than the largest packet.          *)
RestInv ==
  /\ receiver \in {"receiving", "clearing"} => DataSize < packetSize
  /\ receiver = "receiving" => FreeSize >= LowMark

BufferInv == BufferTypeOK /\ RestInv

LEMMA InitBufferInv == BufferInit => BufferInv
<1> SUFFICES ASSUME BufferInit PROVE BufferInv
  OBVIOUS
<1>1. Capacity \in Nat /\ LowMark \in Nat /\ MaxPacketSize \in Nat /\ LowMark <= Capacity
  BY RecvBufferAssumption
<1> QED BY <1>1 DEF BufferInit, BufferInv, BufferTypeOK, RestInv, DataSize, FreeSize

LEMMA BufferInvStep == BufferInv /\ [BufferNext]_bufferVars => BufferInv'
<1> SUFFICES ASSUME BufferInv, [BufferNext]_bufferVars PROVE BufferInv'
  OBVIOUS
<1>a. /\ Capacity \in Nat /\ LowMark \in Nat /\ MaxPacketSize \in Nat
      /\ 2 * MaxPacketSize + LowMark <= Capacity
  BY RecvBufferAssumption
<1>b. readPos \in Nat /\ writePos \in Nat /\ packetSize \in Nat
      /\ readPos <= writePos /\ writePos <= Capacity
      /\ 1 <= packetSize /\ packetSize <= MaxPacketSize
  BY <1>a DEF BufferInv, BufferTypeOK
<1> USE DEF BufferInv, BufferTypeOK, RestInv, DataSize, FreeSize
<1>1. ASSUME NEW n \in 1..Capacity, OnWrite(n)
      PROVE  BufferInv'
  BY <1>1, <1>a, <1>b DEF OnWrite
<1>2. ASSUME NEW processLen \in 0..Capacity, NEW nextSize \in 1..MaxPacketSize,
             OnRecv(processLen, nextSize)
      PROVE  BufferInv'
  <2>1. CASE DataSize < packetSize /\ processLen = 0 /\ nextSize = packetSize
    BY <1>2, <1>a, <1>b, <2>1 DEF OnRecv
  <2>2. CASE /\ packetSize <= processLen /\ processLen <= DataSize
             /\ DataSize - processLen < nextSize
    BY <1>2, <1>a, <1>b, <2>2 DEF OnRecv
  <2> QED BY <1>2, <2>1, <2>2 DEF OnRecv
<1>3. CASE EndOfStream
  BY <1>3, <1>a, <1>b DEF EndOfStream
<1>4. CASE RejectPacket
  BY <1>4, <1>a, <1>b DEF RejectPacket
<1>5. CASE Clear
  <2>1. receiver = "clearing" /\ receiver' = "receiving" /\ packetSize' = packetSize
        /\ DataSize < packetSize
    BY <1>5 DEF Clear
  <2>2. CASE DataSize = 0 /\ readPos' = 0 /\ writePos' = 0
    BY <1>a, <1>b, <2>1, <2>2
  <2>3. CASE MustPull /\ readPos' = 0 /\ writePos' = DataSize
    BY <1>a, <1>b, <2>1, <2>3
  <2>4. CASE DataSize # 0 /\ ~ MustPull /\ UNCHANGED <<readPos, writePos>>
    BY <1>a, <1>b, <2>1, <2>4 DEF MustPull
  <2> QED BY <1>5, <2>2, <2>3, <2>4 DEF Clear
<1>6. CASE UNCHANGED bufferVars
  BY <1>6, <1>a, <1>b DEF bufferVars
<1> QED
  BY <1>1, <1>2, <1>3, <1>4, <1>5, <1>6, [BufferNext]_bufferVars DEF BufferNext

LEMMA BufferInvariance == BufferSpec => []BufferInv
<1> QED BY InitBufferInv, BufferInvStep, PTL DEF BufferSpec

(* The cursors never pass each other or the end of the buffer.             *)
THEOREM CursorsOrdered == BufferSpec => []BufferTypeOK
<1>1. BufferInv => BufferTypeOK
  BY DEF BufferInv
<1> QED BY <1>1, BufferInvariance, PTL

(* There is always room for the next receive.                              *)
THEOREM AlwaysRoom == BufferSpec => []RoomToReceive
<1>1. BufferInv => RoomToReceive
  BY RecvBufferAssumption DEF BufferInv, RestInv, BufferTypeOK, RoomToReceive, FreeSize
<1> QED BY <1>1, BufferInvariance, PTL

(* The source and the destination of the pull never overlap.               *)
THEOREM DisjointPull == BufferSpec => []PullIsDisjoint
<1>1. BufferInv => PullIsDisjoint
  <2> SUFFICES ASSUME BufferInv, receiver = "clearing", MustPull
               PROVE  DataSize <= readPos
    BY DEF PullIsDisjoint
  <2>1. DataSize < packetSize /\ packetSize <= MaxPacketSize
        /\ Capacity - writePos < LowMark /\ 2 * MaxPacketSize + LowMark <= Capacity
    BY RecvBufferAssumption DEF BufferInv, RestInv, BufferTypeOK, MustPull, FreeSize
  <2>2. readPos \in Nat /\ writePos \in Nat /\ packetSize \in Nat
        /\ Capacity \in Nat /\ LowMark \in Nat /\ MaxPacketSize \in Nat
    BY RecvBufferAssumption DEF BufferInv, BufferTypeOK
  <2> QED BY <2>1, <2>2 DEF DataSize
<1> QED BY <1>1, BufferInvariance, PTL
=============================================================================
