----------------------------- MODULE ServiceProofs -----------------------------
(***************************************************************************)
(* Proofs about Service for any sessions, readers and number of slots.     *)
(***************************************************************************)
EXTENDS Service, FiniteSetTheorems, SequenceTheorems, TLAPS

(* The inductive invariant.  PhaseInv says where a session keeps the       *)
(* number of its slot at each stage, PartInv that no two places hold the   *)
(* same number and that none is missing, SlotInv that the tables lead to a *)
(* session that is in its slot.  They need each other: a slot is reset by  *)
(* its number alone, so only the partition protects the next session in    *)
(* it, and only the stages protect the partition.                          *)
Been == {"connected", "disconnected", "unindexed", "emptied", "released"}

Holding(s) ==
  \/ stage[s] \in {"unindexed", "emptied"}
  \/ accepting = s /\ acceptPc \in {"emplaceId", "storeIndex", "storeSlot"}
Indexed(s) ==
  \/ stage[s] \in {"connected", "disconnected"}
  \/ accepting = s /\ acceptPc \in {"storeSlot", "connect"}
Stored(s) ==
  \/ stage[s] \in {"connected", "disconnected"}
  \/ accepting = s /\ acceptPc = "connect"
Unknown(s) ==
  \/ stage[s] = "fresh"
  \/ accepting = s /\ acceptPc \in {"waiting", "popIndex", "emplaceId"}

PhaseInv ==
  /\ accepting = NoSession <=> acceptPc \in {"registerAccept", "acceptEx", "stopped"}
  /\ \A s \in Sessions :
       /\ stage[s] = "accepting" <=> accepting = s
       /\ idx[s] # NoIndex <=> Holding(s)
       /\ serviceIdx[s] # NoIndex <=> Indexed(s)
       /\ Holding(s) /\ Indexed(s) => idx[s] = serviceIdx[s]

PartInv ==
  /\ \A j, k \in DOMAIN idxQueue : idxQueue[j] = idxQueue[k] => j = k
  /\ \A s \in Sessions : \A k \in DOMAIN idxQueue : s \notin Owners(idxQueue[k])
  /\ \A i \in 1..MaxSessions : \A s, t \in Owners(i) : s = t
  /\ \A i \in 1..MaxSessions :
       (\E k \in DOMAIN idxQueue : idxQueue[k] = i) \/ Owners(i) # {}

SlotInv ==
  \A s \in Sessions :
    /\ Stored(s) => slot[serviceIdx[s]] = s
    /\ Unknown(s) => id2Index[s] \in {0, NoIndex}
    /\ accepting = s /\ acceptPc = "storeIndex" => id2Index[s] \in {0, idx[s]}
    /\ Indexed(s) => id2Index[s] \in {0, serviceIdx[s]}

LookUpInv ==
  \A r \in Readers :
    LET l == lookUp[r] IN
    /\ l.pc # "idle" => l.id \in Sessions /\ l.idx \in Slots
    /\ l.upAtStart => l.pc # "idle" /\ stage[l.id] \in Been /\ l.idx = id2Index[l.id]
    /\ l.pc = "answered" /\ l.upAtStart /\ Connected(l.id) /\ id2Index[l.id] # 0
         => l.result = l.id

(* What connects after CloseAccept is the last session that is accepted.   *)
CloseInv ==
  /\ \A s \in upAtClose :
       /\ stage[s] \in Been
       /\ Connected(s) => closePc = "iterating" /\ closeAt <= serviceIdx[s]
  /\ closePc # "open" =>
       /\ ~ canAccept
       /\ \A s \in Sessions \ upAtClose :
            Connected(s) => /\ acceptPc \in {"registerAccept", "stopped"}
                            /\ \A t \in Sessions \ upAtClose : Connected(t) => s = t
  /\ closePc = "open" => upAtClose = {} /\ closeAt = 0

IInv == TypeOK /\ PhaseInv /\ PartInv /\ SlotInv /\ LookUpInv /\ CloseInv

LEMMA ConstantFacts ==
  /\ IsFiniteSet(Sessions) /\ NoSession \notin Sessions
  /\ MaxSessions \in Nat /\ 1 <= MaxSessions
  /\ Slots = 0..MaxSessions /\ NoIndex \notin Slots /\ NoIndex \in Int
  /\ 1..MaxSessions \subseteq Slots /\ 0 \in Slots /\ NoIndex # 0
BY ServiceAssumption DEF Slots, NoIndex

LEMMA TypeStep == ASSUME IInv, [Next]_vars PROVE TypeOK'
<1> USE ConstantFacts DEF TypeOK, Stages, LookUps
<1>t. TypeOK
  BY DEF IInv
<1>1. CASE CheckCanAccept
  BY <1>t, <1>1 DEF CheckCanAccept, tableVars, closeVars
<1>2. CASE ProcessAccept
  BY <1>t, <1>2 DEF ProcessAccept, tableVars, closeVars
<1>3. ASSUME NEW s \in Sessions, AcceptEx(s) PROVE TypeOK'
  BY <1>t, <1>3 DEF AcceptEx, tableVars, closeVars
<1>4. ASSUME NEW s \in Sessions, DropSession(s) PROVE TypeOK'
  BY <1>t, <1>4 DEF DropSession, tableVars, closeVars
<1>5. ASSUME NEW s \in Sessions, PopIndex(s) PROVE TypeOK'
  <2>1. Head(idxQueue) \in 1..MaxSessions /\ Tail(idxQueue) \in Seq(1..MaxSessions)
    BY <1>t, <1>5 DEF PopIndex
  <2> QED BY <1>t, <1>5, <2>1 DEF PopIndex, closeVars
<1>6. ASSUME NEW s \in Sessions, EmplaceId(s) PROVE TypeOK'
  <2>1. idx[s] \in Slots \cup {NoIndex}
    BY <1>t
  <2> QED BY <1>t, <1>6, <2>1 DEF EmplaceId, closeVars
<1>7. ASSUME NEW s \in Sessions, StoreIndex(s) PROVE TypeOK'
  BY <1>t, <1>7 DEF StoreIndex, tableVars, closeVars
<1>8. ASSUME NEW s \in Sessions, StoreSlot(s) PROVE TypeOK'
  BY <1>t, <1>8 DEF StoreSlot, closeVars
<1>9. ASSUME NEW s \in Sessions, Connect(s) PROVE TypeOK'
  BY <1>t, <1>9 DEF Connect, tableVars, closeVars
<1>10. ASSUME NEW s \in Sessions, Disconnect(s) PROVE TypeOK'
  BY <1>t, <1>10 DEF Disconnect, tableVars, acceptVars, closeVars
<1>11. ASSUME NEW s \in Sessions, ExchangeIndex(s) PROVE TypeOK'
  BY <1>t, <1>11 DEF ExchangeIndex, tableVars, acceptVars, closeVars
<1>12. ASSUME NEW s \in Sessions, ResetSlot(s) PROVE TypeOK'
  BY <1>t, <1>12 DEF ResetSlot, acceptVars, closeVars
<1>13. ASSUME NEW s \in Sessions, PushIndex(s) PROVE TypeOK'
  <2>1. idx[s] \in 1..MaxSessions
    BY <1>t, <1>13 DEF PushIndex, IInv, PhaseInv, Holding
  <2>2. idxQueue' \in Seq(1..MaxSessions)
    BY <1>t, <1>13, <2>1 DEF PushIndex
  <2> QED BY <1>t, <1>13, <2>2 DEF PushIndex, acceptVars, closeVars
<1>14. ASSUME NEW r \in Readers, NEW s \in Sessions, ReadIndex(r, s) PROVE TypeOK'
  <2>1. id2Index' \in [Sessions -> Slots \cup {NoIndex}] /\ id2Index'[s] \in Slots
    BY <1>t, <1>14 DEF ReadIndex
  <2>2. lookUp' \in [Readers -> LookUps]
    BY <1>t, <1>14, <2>1 DEF ReadIndex, Connected
  <2> QED BY <1>t, <1>14, <2>1, <2>2 DEF ReadIndex, acceptVars, closeVars
<1>15. ASSUME NEW r \in Readers, LoadSlot(r) PROVE TypeOK'
  <2>1. lookUp[r] \in LookUps /\ lookUp[r].idx \in Slots
    BY <1>t, <1>15 DEF LoadSlot, IInv, LookUpInv
  <2>2. slot[lookUp[r].idx] \in Sessions \cup {NoSession}
    BY <1>t, <2>1
  <2>3. lookUp' \in [Readers -> LookUps]
    BY <1>t, <1>15, <2>1, <2>2 DEF LoadSlot
  <2> QED BY <1>t, <1>15, <2>3 DEF LoadSlot, tableVars, acceptVars, closeVars
<1>16. ASSUME NEW r \in Readers, EndLookUp(r) PROVE TypeOK'
  <2>1. NotLooking \in LookUps
    BY DEF NotLooking
  <2> QED BY <1>t, <1>16, <2>1 DEF EndLookUp, tableVars, acceptVars, closeVars
<1>17. CASE CloseAccept
  BY <1>t, <1>17 DEF CloseAccept, tableVars, acceptVars
<1>18. CASE VisitSlot
  BY <1>t, <1>18 DEF VisitSlot, tableVars, acceptVars
<1>19. CASE UNCHANGED vars
  BY <1>t, <1>19 DEF vars, tableVars, acceptVars, closeVars
<1> QED BY <1>1, <1>2, <1>3, <1>4, <1>5, <1>6, <1>7, <1>8, <1>9, <1>10, <1>11, <1>12,
           <1>13, <1>14, <1>15, <1>16, <1>17, <1>18, <1>19 DEF Next, Accept, ReleaseSession

LEMMA PhaseStep == ASSUME IInv, [Next]_vars PROVE PhaseInv'
<1> USE ConstantFacts DEF TypeOK, PhaseInv, Holding, Indexed
<1>t. TypeOK /\ TypeOK' /\ PhaseInv
  BY TypeStep DEF IInv
<1>1. CASE CheckCanAccept
  BY <1>t, <1>1 DEF CheckCanAccept
<1>2. CASE ProcessAccept
  BY <1>t, <1>2 DEF ProcessAccept
<1>3. ASSUME NEW s \in Sessions, AcceptEx(s) PROVE PhaseInv'
  BY <1>t, <1>3 DEF AcceptEx
<1>4. ASSUME NEW s \in Sessions, DropSession(s) PROVE PhaseInv'
  BY <1>t, <1>4 DEF DropSession
<1>5. ASSUME NEW s \in Sessions, PopIndex(s) PROVE PhaseInv'
  <2>1. Head(idxQueue) \in 1..MaxSessions
    BY <1>t, <1>5 DEF PopIndex
  <2> QED BY <1>t, <1>5, <2>1 DEF PopIndex
<1>6. ASSUME NEW s \in Sessions, EmplaceId(s) PROVE PhaseInv'
  BY <1>t, <1>6 DEF EmplaceId
<1>7. ASSUME NEW s \in Sessions, StoreIndex(s) PROVE PhaseInv'
  BY <1>t, <1>7 DEF StoreIndex
<1>8. ASSUME NEW s \in Sessions, StoreSlot(s) PROVE PhaseInv'
  BY <1>t, <1>8 DEF StoreSlot
<1>9. ASSUME NEW s \in Sessions, Connect(s) PROVE PhaseInv'
  BY <1>t, <1>9 DEF Connect
<1>10. ASSUME NEW s \in Sessions, Disconnect(s) PROVE PhaseInv'
  BY <1>t, <1>10 DEF Disconnect, acceptVars, Connected
<1>11. ASSUME NEW s \in Sessions, ExchangeIndex(s) PROVE PhaseInv'
  BY <1>t, <1>11 DEF ExchangeIndex, acceptVars
<1>12. ASSUME NEW s \in Sessions, ResetSlot(s) PROVE PhaseInv'
  BY <1>t, <1>12 DEF ResetSlot, acceptVars
<1>13. ASSUME NEW s \in Sessions, PushIndex(s) PROVE PhaseInv'
  BY <1>t, <1>13 DEF PushIndex, acceptVars
<1>14. CASE VisitSlot
  BY <1>t, <1>14 DEF VisitSlot, acceptVars, Connected
<1>15. CASE UNCHANGED <<acceptVars, stage, idx, serviceIdx>>
  BY <1>t, <1>15 DEF acceptVars
<1> QED BY <1>1, <1>2, <1>3, <1>4, <1>5, <1>6, <1>7, <1>8, <1>9, <1>10, <1>11, <1>12,
           <1>13, <1>14, <1>15
        DEF Next, Accept, ReleaseSession, ReadIndex, LoadSlot, EndLookUp, CloseAccept, vars

(* Only five actions move the number of a slot; each takes it from one     *)
(* place and puts it into one other.                                       *)
LEMMA PartStep == ASSUME IInv, [Next]_vars PROVE PartInv'
<1> USE ConstantFacts DEF PartInv, Owners
<1>t. TypeOK /\ TypeOK' /\ PhaseInv
  BY TypeStep DEF IInv
<1>p. PartInv
  BY DEF IInv
<1>q. /\ Len(idxQueue) \in Nat /\ DOMAIN idxQueue = 1..Len(idxQueue)
      /\ \A k \in DOMAIN idxQueue : idxQueue[k] \in 1..MaxSessions
  BY <1>t DEF TypeOK
<1>1. ASSUME NEW s \in Sessions, PopIndex(s) PROVE PartInv'
  <2>1. /\ DOMAIN idxQueue' = 1..(Len(idxQueue) - 1) /\ Len(idxQueue) >= 1
        /\ \A k \in DOMAIN idxQueue' : idxQueue'[k] = idxQueue[k + 1] /\ k + 1 \in DOMAIN idxQueue
        /\ idx' = [idx EXCEPT ![s] = idxQueue[1]] /\ 1 \in DOMAIN idxQueue
        /\ serviceIdx' = serviceIdx
    BY <1>t, <1>q, <1>1 DEF PopIndex, TypeOK
  <2>2. idx[s] = NoIndex /\ serviceIdx[s] = NoIndex /\ idxQueue[1] \in 1..MaxSessions
    BY <1>t, <1>q, <1>1, <2>1 DEF PopIndex, PhaseInv, Holding, Indexed
  <2>3. \A i \in 1..MaxSessions :
          Owners(i)' = IF i = idxQueue[1] THEN Owners(i) \cup {s} ELSE Owners(i)
    BY <1>t, <2>1, <2>2 DEF TypeOK
  <2>4. Owners(idxQueue[1]) = {}
    BY <1>p, <2>1
  <2>5. \A j, k \in DOMAIN idxQueue' : idxQueue'[j] = idxQueue'[k] => j = k
    BY <1>p, <1>q, <2>1
  <2>6. \A k \in DOMAIN idxQueue' : idxQueue'[k] # idxQueue[1] /\ idxQueue'[k] \in 1..MaxSessions
    BY <1>p, <1>q, <2>1
  <2>7. ASSUME NEW t \in Sessions, NEW i \in 1..MaxSessions, t \in Owners(i)',
               NEW k \in DOMAIN idxQueue'
        PROVE  idxQueue'[k] # i
    <3>1. CASE i = idxQueue[1]
      BY <2>6, <3>1
    <3>2. CASE i # idxQueue[1]
      <4>1. t \in Owners(i)
        BY <2>3, <2>7, <3>2
      <4> QED BY <1>p, <2>1, <4>1
    <3> QED BY <3>1, <3>2
  <2>8. \A i \in 1..MaxSessions : \A t, u \in Owners(i)' : t = u
    BY <1>p, <2>3, <2>4
  <2>9. ASSUME NEW i \in 1..MaxSessions
        PROVE  (\E k \in DOMAIN idxQueue' : idxQueue'[k] = i) \/ Owners(i)' # {}
    <3>1. CASE Owners(i) # {} \/ i = idxQueue[1]
      BY <2>3, <3>1
    <3>2. CASE Owners(i) = {} /\ i # idxQueue[1]
      <4>1. PICK k \in DOMAIN idxQueue : idxQueue[k] = i
        BY <1>p, <3>2
      <4>2. k - 1 \in DOMAIN idxQueue' /\ idxQueue'[k - 1] = idxQueue[(k - 1) + 1]
        BY <1>q, <2>1, <3>2, <4>1
      <4>3. (k - 1) + 1 = k
        BY <1>q
      <4> QED BY <4>1, <4>2, <4>3
    <3> QED BY <3>1, <3>2
  <2> QED BY <2>5, <2>6, <2>7, <2>8, <2>9
<1>2. ASSUME NEW s \in Sessions, StoreIndex(s) PROVE PartInv'
  <2>1. /\ idx[s] # NoIndex /\ serviceIdx[s] = NoIndex
        /\ idx' = idx /\ serviceIdx' = [serviceIdx EXCEPT ![s] = idx[s]]
    BY <1>t, <1>2 DEF StoreIndex, PhaseInv, Holding, Indexed
  <2>2. \A i \in 1..MaxSessions : Owners(i)' = Owners(i)
    BY <1>t, <2>1 DEF TypeOK
  <2> QED BY <1>p, <1>q, <1>2, <2>2 DEF StoreIndex, tableVars
<1>3. ASSUME NEW s \in Sessions, StoreSlot(s) PROVE PartInv'
  <2>1. idx[s] = serviceIdx[s]
    BY <1>t, <1>3 DEF StoreSlot, PhaseInv, Holding, Indexed
  <2>2. \A i \in 1..MaxSessions : Owners(i)' = Owners(i)
    BY <1>t, <1>3, <2>1 DEF StoreSlot, TypeOK
  <2> QED BY <1>p, <1>q, <1>3, <2>2 DEF StoreSlot
<1>4. ASSUME NEW s \in Sessions, ExchangeIndex(s) PROVE PartInv'
  <2>1. idx[s] = NoIndex
    BY <1>t, <1>4 DEF ExchangeIndex, PhaseInv, Holding
  <2>2. \A i \in 1..MaxSessions : Owners(i)' = Owners(i)
    BY <1>t, <1>4, <2>1 DEF ExchangeIndex, TypeOK
  <2> QED BY <1>p, <1>q, <1>4, <2>2 DEF ExchangeIndex, tableVars
<1>5. ASSUME NEW s \in Sessions, PushIndex(s) PROVE PartInv'
  <2>1. serviceIdx[s] = NoIndex /\ idx[s] \in 1..MaxSessions
    <3>1. Holding(s) /\ ~ Indexed(s)
      BY <1>t, <1>5 DEF PushIndex, PhaseInv, Holding, Indexed
    <3>2. serviceIdx[s] = NoIndex /\ idx[s] # NoIndex
      BY <1>t, <3>1 DEF PhaseInv
    <3> QED BY <1>t, <3>2 DEF TypeOK
  <2>2. ASSUME NEW i \in 1..MaxSessions
        PROVE  Owners(i)' = Owners(i) \ {s}
    <3>1. serviceIdx' = serviceIdx /\ idx' = [idx EXCEPT ![s] = NoIndex]
      BY <1>5 DEF PushIndex
    <3>2. idx'[s] # i /\ serviceIdx'[s] # i
      BY <1>t, <2>1, <3>1 DEF TypeOK
    <3> QED BY <1>t, <3>1, <3>2 DEF TypeOK
  <2>3. /\ DOMAIN idxQueue' = 1..(Len(idxQueue) + 1)
        /\ \A k \in DOMAIN idxQueue : k \in DOMAIN idxQueue' /\ idxQueue'[k] = idxQueue[k]
        /\ idxQueue'[Len(idxQueue) + 1] = idx[s]
    BY <1>t, <1>q, <1>5, <2>1 DEF PushIndex, TypeOK
  <2>4. s \in Owners(idx[s]) /\ Owners(idx[s]) = {s}
    BY <1>p, <2>1
  <2>5. \A k \in DOMAIN idxQueue : idxQueue[k] # idx[s]
    BY <1>p, <2>4
  <2>6. \A j, k \in DOMAIN idxQueue' : idxQueue'[j] = idxQueue'[k] => j = k
    BY <1>p, <1>q, <2>3, <2>5
  <2>7. ASSUME NEW i \in 1..MaxSessions, NEW k \in DOMAIN idxQueue', idxQueue'[k] = i
        PROVE  Owners(i)' = {}
    <3>1. CASE k \in DOMAIN idxQueue
      <4>1. Owners(i) = {}
        BY <1>p, <2>3, <2>7, <3>1
      <4> QED BY <2>2, <4>1
    <3>2. CASE k = Len(idxQueue) + 1
      <4>1. Owners(i) = {s}
        BY <2>3, <2>4, <2>7, <3>2
      <4> QED BY <2>2, <4>1
    <3> QED BY <1>q, <2>3, <3>1, <3>2
  <2>8. \A i \in 1..MaxSessions : \A t, u \in Owners(i)' : t = u
    BY <1>p, <2>2
  <2>9. ASSUME NEW i \in 1..MaxSessions
        PROVE  (\E k \in DOMAIN idxQueue' : idxQueue'[k] = i) \/ Owners(i)' # {}
    <3>1. CASE i = idx[s]
      BY <1>q, <2>3, <3>1
    <3>2. CASE i # idx[s]
      <4>1. Owners(i)' = Owners(i)
        BY <2>1, <2>2, <3>2
      <4> QED BY <1>p, <2>3, <4>1
    <3> QED BY <3>1, <3>2
  <2>10. \A k \in DOMAIN idxQueue' : idxQueue'[k] \in 1..MaxSessions
    BY <1>q, <2>1, <2>3
  <2> QED BY <2>6, <2>7, <2>8, <2>9, <2>10
<1>6. ASSUME UNCHANGED <<idxQueue, idx, serviceIdx>> PROVE PartInv'
  <2>1. idxQueue' = idxQueue /\ idx' = idx /\ serviceIdx' = serviceIdx
    BY <1>6
  <2>2. \A i \in 1..MaxSessions : Owners(i)' = Owners(i)
    BY <2>1
  <2> QED BY <1>p, <1>q, <2>1, <2>2
<1> QED BY <1>1, <1>2, <1>3, <1>4, <1>5, <1>6
        DEF Next, Accept, ReleaseSession, CheckCanAccept, ProcessAccept, AcceptEx, DropSession,
            EmplaceId, Connect, Disconnect, ResetSlot, ReadIndex, LoadSlot, EndLookUp,
            CloseAccept, VisitSlot, vars, tableVars

(* A slot is written only by the one session that owns its number.         *)
LEMMA SlotStep == ASSUME IInv, [Next]_vars PROVE SlotInv'
<1> USE ConstantFacts DEF TypeOK, SlotInv, Stored, Unknown, Indexed, Holding
<1>t. TypeOK /\ PhaseInv /\ PartInv /\ SlotInv
  BY DEF IInv
<1>o. \A s, t \in Sessions :
        s # t => ~ (idx[s] # NoIndex /\ (idx[s] = serviceIdx[t] \/ idx[s] = idx[t]))
  BY <1>t DEF PartInv, Owners
<1>1. CASE CheckCanAccept \/ ProcessAccept
  BY <1>t, <1>1 DEF CheckCanAccept, ProcessAccept, tableVars, PhaseInv
<1>2. ASSUME NEW s \in Sessions, AcceptEx(s) PROVE SlotInv'
  BY <1>t, <1>2 DEF AcceptEx, tableVars, PhaseInv
<1>3. ASSUME NEW s \in Sessions, DropSession(s) PROVE SlotInv'
  BY <1>t, <1>3 DEF DropSession, tableVars, PhaseInv
<1>4. ASSUME NEW s \in Sessions, PopIndex(s) PROVE SlotInv'
  BY <1>t, <1>4 DEF PopIndex, PhaseInv
<1>5. ASSUME NEW s \in Sessions, EmplaceId(s) PROVE SlotInv'
  BY <1>t, <1>5 DEF EmplaceId, PhaseInv
<1>6. ASSUME NEW s \in Sessions, StoreIndex(s) PROVE SlotInv'
  BY <1>t, <1>6 DEF StoreIndex, tableVars, PhaseInv
<1>7. ASSUME NEW s \in Sessions, StoreSlot(s) PROVE SlotInv'
  <2>1. idx[s] \in Slots /\ idx[s] = serviceIdx[s] /\ idx[s] # NoIndex
    BY <1>t, <1>7 DEF StoreSlot, PhaseInv
  <2>2. slot'[serviceIdx'[s]] = s
    BY <1>t, <1>7, <2>1 DEF StoreSlot
  <2>3. ASSUME NEW t \in Sessions, t # s, Stored(t)'
        PROVE  slot'[serviceIdx'[t]] = t
    <3>1. Stored(t) /\ serviceIdx[t] # idx[s] /\ serviceIdx'[t] = serviceIdx[t]
      BY <1>t, <1>o, <1>7, <2>1, <2>3 DEF StoreSlot, PhaseInv
    <3>2. serviceIdx[t] \in Slots
      BY <1>t, <3>1 DEF PhaseInv
    <3> QED BY <1>t, <1>7, <3>1, <3>2 DEF StoreSlot
  <2> QED BY <1>t, <1>7, <2>2, <2>3 DEF StoreSlot, PhaseInv
<1>8. ASSUME NEW s \in Sessions, Connect(s) PROVE SlotInv'
  BY <1>t, <1>8 DEF Connect, tableVars, PhaseInv
<1>9. ASSUME NEW s \in Sessions, Disconnect(s) PROVE SlotInv'
  BY <1>t, <1>9 DEF Disconnect, tableVars, acceptVars, PhaseInv, Connected
<1>10. ASSUME NEW s \in Sessions, ExchangeIndex(s) PROVE SlotInv'
  BY <1>t, <1>10 DEF ExchangeIndex, tableVars, acceptVars, PhaseInv
<1>11. ASSUME NEW s \in Sessions, ResetSlot(s) PROVE SlotInv'
  <2>1. idx[s] # NoIndex /\ idx[s] \in Slots /\ ~ Stored(s)'
    BY <1>t, <1>11 DEF ResetSlot, PhaseInv, acceptVars
  <2>2. ASSUME NEW t \in Sessions, Stored(t)'
        PROVE  slot'[serviceIdx'[t]] = t
    <3>1. t # s /\ Stored(t) /\ serviceIdx[t] # idx[s] /\ serviceIdx'[t] = serviceIdx[t]
      BY <1>t, <1>o, <1>11, <2>1, <2>2 DEF ResetSlot, PhaseInv, acceptVars
    <3>2. serviceIdx[t] \in Slots
      BY <1>t, <3>1 DEF PhaseInv
    <3> QED BY <1>t, <1>11, <3>1, <3>2 DEF ResetSlot
  <2> QED BY <1>t, <1>11, <2>2 DEF ResetSlot, acceptVars, PhaseInv
<1>12. ASSUME NEW s \in Sessions, PushIndex(s) PROVE SlotInv'
  BY <1>t, <1>12 DEF PushIndex, acceptVars, PhaseInv
<1>13. ASSUME NEW r \in Readers, NEW s \in Sessions, ReadIndex(r, s) PROVE SlotInv'
  BY <1>t, <1>13 DEF ReadIndex, acceptVars, PhaseInv
<1>14. CASE VisitSlot
  BY <1>t, <1>14 DEF VisitSlot, tableVars, acceptVars, Connected, PhaseInv
<1>15. CASE UNCHANGED <<slot, id2Index, serviceIdx, idx, stage, acceptVars>>
  BY <1>t, <1>15 DEF acceptVars
<1> QED BY <1>1, <1>2, <1>3, <1>4, <1>5, <1>6, <1>7, <1>8, <1>9, <1>10, <1>11, <1>12,
           <1>13, <1>14, <1>15
        DEF Next, Accept, ReleaseSession, LoadSlot, EndLookUp, CloseAccept, vars, tableVars

(* A session that has been connected never is again, so one that is at the *)
(* end of a call and was at its start was all the time.                    *)
LEMMA LookUpStep == ASSUME IInv, [Next]_vars PROVE LookUpInv'
<1> USE ConstantFacts DEF LookUpInv, Been, Connected
<1>t. TypeOK /\ PhaseInv /\ SlotInv /\ LookUpInv
  BY DEF IInv
<1>l. \A r \in Readers : lookUp[r] \in LookUps
  BY <1>t DEF TypeOK
<1>1. ASSUME NEW s \in Sessions, EmplaceId(s) PROVE LookUpInv'
  <2>1. stage[s] \notin Been
    BY <1>t, <1>1 DEF EmplaceId, PhaseInv
  <2> QED BY <1>t, <1>1, <2>1 DEF EmplaceId, TypeOK
<1>2. ASSUME NEW r \in Readers, NEW s \in Sessions, ReadIndex(r, s) PROVE LookUpInv'
  <2>1. lookUp'[r] = [pc |-> "loadSlot", id |-> s, idx |-> id2Index'[s],
                      upAtStart |-> Connected(s), result |-> NoSession]
    BY <1>t, <1>2 DEF ReadIndex, TypeOK
  <2>2. id2Index'[s] \in Slots /\ stage' = stage
    BY <1>t, <1>2 DEF ReadIndex, TypeOK
  <2>3. ASSUME NEW t \in Sessions, id2Index[t] # NoIndex
        PROVE  id2Index'[t] = id2Index[t]
    BY <1>t, <1>2, <2>3 DEF ReadIndex, TypeOK
  <2>4. ASSUME NEW q \in Readers, q # r
        PROVE  lookUp'[q] = lookUp[q]
    BY <1>t, <1>2, <2>4 DEF ReadIndex, TypeOK
  <2>5. ASSUME NEW q \in Readers, lookUp[q].upAtStart
        PROVE  /\ lookUp[q].id \in Sessions /\ id2Index[lookUp[q].id] # NoIndex
               /\ id2Index'[lookUp[q].id] = id2Index[lookUp[q].id]
    BY <1>t, <2>3, <2>5
  <2>6. lookUp'[r].upAtStart => stage'[s] \in Been
    <3>1. Connected(s) => stage'[s] \in Been
      BY <2>2
    <3> HIDE DEF Connected
    <3>2. lookUp'[r].upAtStart = Connected(s)
      BY <2>1
    <3> QED BY <3>1, <3>2
  <2>7. lookUp'[r].pc = "loadSlot" /\ lookUp'[r].id = s /\ lookUp'[r].idx = id2Index'[s]
    BY <2>1
  <2>8. ASSUME NEW q \in Readers, q # r, lookUp[q].upAtStart
        PROVE  lookUp[q].idx = id2Index'[lookUp[q].id]
    BY <1>t, <2>5, <2>8
  <2> QED BY <1>t, <2>2, <2>4, <2>5, <2>6, <2>7, <2>8
<1>3. ASSUME NEW r \in Readers, LoadSlot(r) PROVE LookUpInv'
  <2> DEFINE l == lookUp[r]
  <2>1. /\ l.pc = "loadSlot" /\ l.id \in Sessions /\ l.idx \in Slots
        /\ lookUp'[r].pc = "answered" /\ lookUp'[r].id = l.id /\ lookUp'[r].idx = l.idx
        /\ lookUp'[r].upAtStart = l.upAtStart
        /\ slot[l.idx] = l.id => lookUp'[r].result = l.id
    BY <1>t, <1>l, <1>3 DEF LoadSlot, TypeOK, LookUps
  <2>2. UNCHANGED <<stage, id2Index>> /\ \A q \in Readers : q # r => lookUp'[q] = lookUp[q]
    BY <1>t, <1>3 DEF LoadSlot, TypeOK, tableVars
  <2>3. ASSUME l.upAtStart, Connected(l.id), id2Index[l.id] # 0
        PROVE  slot[l.idx] = l.id
    <3>1. l.idx = id2Index[l.id] /\ stage[l.id] = "connected"
      BY <1>t, <2>1, <2>3
    <3>2. id2Index[l.id] = serviceIdx[l.id] /\ slot[serviceIdx[l.id]] = l.id
      BY <1>t, <2>1, <2>3, <3>1 DEF SlotInv, Stored, Indexed
    <3> QED BY <3>1, <3>2
  <2> QED BY <1>t, <2>1, <2>2, <2>3
<1>4. ASSUME NEW r \in Readers, EndLookUp(r) PROVE LookUpInv'
  BY <1>t, <1>4 DEF EndLookUp, NotLooking, TypeOK, tableVars
<1>5. ASSUME UNCHANGED <<id2Index, lookUp>>,
             \A s \in Sessions : /\ stage[s] \in Been => stage'[s] \in Been
                                 /\ Connected(s)' /\ stage[s] \in Been => Connected(s)
      PROVE  LookUpInv'
  BY <1>t, <1>5
<1>6. ASSUME NEW s \in Sessions, AcceptEx(s) \/ DropSession(s) \/ Connect(s)
      PROVE  LookUpInv'
  <2>1. stage[s] \notin Been
    BY <1>t, <1>6 DEF AcceptEx, DropSession, Connect, PhaseInv
  <2> QED BY <1>t, <1>5, <1>6, <2>1 DEF AcceptEx, DropSession, Connect, TypeOK, tableVars
<1>7. ASSUME NEW s \in Sessions, Disconnect(s) \/ ReleaseSession(s)
      PROVE  LookUpInv'
  BY <1>t, <1>5, <1>7
     DEF Disconnect, ReleaseSession, ExchangeIndex, ResetSlot, PushIndex, TypeOK, tableVars
<1>8. CASE VisitSlot
  BY <1>t, <1>5, <1>8 DEF VisitSlot, TypeOK, tableVars
<1>9. CASE UNCHANGED <<id2Index, stage, lookUp>>
  BY <1>t, <1>9
<1> QED BY <1>1, <1>2, <1>3, <1>4, <1>6, <1>7, <1>8, <1>9
        DEF Next, Accept, CheckCanAccept, ProcessAccept, PopIndex, StoreIndex, StoreSlot,
            CloseAccept, vars, tableVars

LEMMA CloseStep == ASSUME IInv, [Next]_vars PROVE CloseInv'
<1> USE ConstantFacts DEF CloseInv, Been, Connected
<1>t. TypeOK /\ PhaseInv /\ SlotInv /\ CloseInv
  BY DEF IInv
<1>1. CASE CheckCanAccept
  BY <1>t, <1>1 DEF CheckCanAccept, closeVars, tableVars
<1>2. CASE ProcessAccept
  BY <1>t, <1>2 DEF ProcessAccept, closeVars, tableVars
<1>3. ASSUME NEW s \in Sessions, AcceptEx(s) \/ DropSession(s) \/ Connect(s)
      PROVE  CloseInv'
  <2>1. stage[s] \notin Been /\ s \notin upAtClose
    BY <1>t, <1>3 DEF AcceptEx, DropSession, Connect, PhaseInv
  <2>2. closePc # "open" => \A t \in Sessions \ upAtClose : ~ Connected(t)
    BY <1>t, <1>3 DEF AcceptEx, DropSession, Connect
  <2>3. CASE AcceptEx(s) \/ DropSession(s)
    <3>1. /\ UNCHANGED <<canAccept, closeVars, serviceIdx>>
          /\ ~ Connected(s)' /\ \A t \in Sessions : t # s => stage'[t] = stage[t]
      BY <1>t, <2>3 DEF AcceptEx, DropSession, TypeOK
    <3> QED BY <1>t, <2>1, <2>2, <3>1 DEF TypeOK, closeVars
  <2>4. CASE Connect(s)
    BY <1>t, <2>1, <2>2, <2>4 DEF Connect, TypeOK, closeVars
  <2> QED BY <1>3, <2>3, <2>4
<1>4. ASSUME NEW s \in Sessions,
             PopIndex(s) \/ EmplaceId(s) \/ StoreIndex(s) \/ StoreSlot(s)
      PROVE  CloseInv'
  <2>1. stage[s] \notin Been
    BY <1>t, <1>4 DEF PopIndex, EmplaceId, StoreIndex, StoreSlot, PhaseInv
  <2>2. closePc # "open" => \A t \in Sessions \ upAtClose : ~ Connected(t)
    BY <1>t, <1>4 DEF PopIndex, EmplaceId, StoreIndex, StoreSlot
  <2>3. /\ UNCHANGED <<stage, canAccept, closeVars>>
        /\ \A t \in Sessions : t # s => serviceIdx'[t] = serviceIdx[t]
    BY <1>t, <1>4 DEF PopIndex, EmplaceId, StoreIndex, StoreSlot, TypeOK
  <2> QED BY <1>t, <2>1, <2>2, <2>3 DEF TypeOK, closeVars
<1>5. ASSUME NEW s \in Sessions, Disconnect(s) \/ ReleaseSession(s)
      PROVE  CloseInv'
  <2>1. /\ UNCHANGED <<canAccept, acceptVars, closeVars>>
        /\ stage[s] \in Been /\ stage'[s] \in Been /\ ~ Connected(s)'
        /\ \A t \in Sessions : t # s => stage'[t] = stage[t] /\ serviceIdx'[t] = serviceIdx[t]
    BY <1>t, <1>5 DEF Disconnect, ReleaseSession, ExchangeIndex, ResetSlot, PushIndex, TypeOK
  <2>2. UNCHANGED <<canAccept, acceptPc, closePc, closeAt, upAtClose>>
    BY <2>1 DEF closeVars, acceptVars
  <2>3. \A t \in Sessions : Connected(t)' => Connected(t) /\ serviceIdx'[t] = serviceIdx[t]
    BY <2>1 DEF Connected
  <2>4. \A t \in Sessions : stage[t] \in Been => stage'[t] \in Been
    BY <2>1
  <2> QED BY <1>t, <2>2, <2>3, <2>4 DEF TypeOK
<1>6. CASE CloseAccept
  <2>1. /\ upAtClose' = {s \in Sessions : Connected(s)} /\ closePc' = "iterating" /\ ~ canAccept'
        /\ UNCHANGED <<stage, serviceIdx, closeAt>> /\ closePc = "open"
    BY <1>6 DEF CloseAccept
  <2>2. closeAt = 0 => CloseInv'
    BY <1>t, <2>1 DEF TypeOK, PhaseInv, Indexed
  <2> QED BY <1>t, <2>1, <2>2
<1>7. CASE VisitSlot
  <2>1. /\ \A s \in Sessions : stage'[s] = IF s = slot[closeAt] /\ Connected(s)
                                             THEN "disconnected" ELSE stage[s]
        /\ closePc = "iterating" /\ closePc' # "open"
        /\ UNCHANGED <<serviceIdx, canAccept, acceptVars, upAtClose>>
        /\ closeAt # MaxSessions => closeAt' = closeAt + 1 /\ closePc' = "iterating"
        /\ closeAt \in Slots
    BY <1>t, <1>7 DEF VisitSlot, TypeOK
  <2>2. ASSUME NEW s \in upAtClose
        PROVE  /\ stage'[s] \in Been
               /\ Connected(s)' => closePc' = "iterating" /\ closeAt' <= serviceIdx'[s]
    <3>1. s \in Sessions /\ stage[s] \in Been /\ serviceIdx[s] \in (1..MaxSessions) \cup {NoIndex}
      BY <1>t DEF TypeOK
    <3>2. ASSUME Connected(s)'
          PROVE  closePc' = "iterating" /\ closeAt' <= serviceIdx'[s]
      <4>1. Connected(s) /\ s # slot[closeAt]
        BY <2>1, <3>1, <3>2
      <4>2. closeAt <= serviceIdx[s] /\ serviceIdx[s] \in 1..MaxSessions /\ slot[serviceIdx[s]] = s
        BY <1>t, <3>1, <4>1 DEF PhaseInv, Indexed, SlotInv, Stored
      <4>3. closeAt # serviceIdx[s]
        BY <4>1, <4>2
      <4> QED BY <2>1, <4>2, <4>3
    <3> QED BY <2>1, <3>1, <3>2
  <2>3. \A s \in Sessions : Connected(s)' => Connected(s)
    BY <2>1
  <2> QED BY <1>t, <2>1, <2>2, <2>3 DEF acceptVars
<1>8. CASE UNCHANGED <<stage, serviceIdx, canAccept, acceptVars, closeVars>>
  BY <1>t, <1>8 DEF acceptVars, closeVars
<1> QED BY <1>1, <1>2, <1>3, <1>4, <1>5, <1>6, <1>7, <1>8
        DEF Next, Accept, ReadIndex, LoadSlot, EndLookUp, vars

LEMMA InitIsInductive == Init => IInv
<1> SUFFICES ASSUME Init PROVE IInv
  OBVIOUS
<1> USE ConstantFacts DEF Init
<1>1. TypeOK
  <2>1. NotLooking \in LookUps
    BY DEF NotLooking, LookUps
  <2> QED BY <2>1 DEF TypeOK, Stages
<1>2. PhaseInv
  BY DEF PhaseInv, Holding, Indexed
<1>3. PartInv
  BY DEF PartInv, Owners
<1>4. SlotInv
  BY DEF SlotInv, Stored, Unknown, Indexed
<1>5. LookUpInv
  BY DEF LookUpInv, NotLooking
<1>6. CloseInv
  BY DEF CloseInv
<1> QED BY <1>1, <1>2, <1>3, <1>4, <1>5, <1>6 DEF IInv

THEOREM Invariance == Spec => []IInv
<1>1. IInv /\ [Next]_vars => IInv'
  BY TypeStep, PhaseStep, PartStep, SlotStep, LookUpStep, CloseStep DEF IInv
<1> QED BY InitIsInductive, <1>1, PTL DEF Spec

(* The tables, the stages and the local indices keep their types: above    *)
(* all, no index but those of the constructor ever enters m_idxQueue.      *)
THEOREM TypeCorrect == Spec => []TypeOK
<1>1. IInv => TypeOK
  BY DEF IInv
<1> QED BY Invariance, <1>1, PTL

(* AddSession and ReleaseSession neither lose a slot nor give it to two    *)
(* sessions.                                                               *)
THEOREM SlotPartition == Spec => []SlotsArePartitioned
<1>1. IInv => SlotsArePartitioned
  <2> SUFFICES ASSUME IInv, NEW i \in 1..MaxSessions
               PROVE  Cardinality({k \in DOMAIN idxQueue : idxQueue[k] = i})
                        + Cardinality(Owners(i)) = 1
    BY DEF SlotsArePartitioned
  <2> DEFINE Places == {k \in DOMAIN idxQueue : idxQueue[k] = i}
  <2>p. PartInv
    BY DEF IInv
  <2>e. Cardinality({}) = 0
    BY FS_EmptySet
  <2>1. CASE Owners(i) # {}
    <3>1. PICK s \in Owners(i) : TRUE
      BY <2>1
    <3>2. s \in Sessions
      BY <3>1 DEF Owners
    <3>3. Owners(i) = {s}
      BY <2>p, <3>1 DEF PartInv
    <3>4. Places = {}
      BY <2>p, <3>1, <3>2 DEF PartInv
    <3>5. Cardinality(Owners(i)) = 1
      BY <3>3, FS_Singleton
    <3> QED BY <2>e, <3>4, <3>5
  <2>2. CASE Owners(i) = {}
    <3>1. PICK k \in DOMAIN idxQueue : idxQueue[k] = i
      BY <2>p, <2>2 DEF PartInv
    <3>2. Places = {k}
      BY <2>p, <3>1 DEF PartInv
    <3>3. Cardinality(Places) = 1
      BY <3>2, FS_Singleton
    <3> QED BY <2>e, <2>2, <3>3
  <2> QED BY <2>1, <2>2
<1> QED BY Invariance, <1>1, PTL

(* GetSession finds a session that is connected throughout the call,       *)
(* however many sessions used its slot before.                             *)
THEOREM LookUpCorrect == Spec => []LookUpFindsLiveSession
<1>1. IInv => LookUpFindsLiveSession
  BY DEF IInv, LookUpInv, LookUpFindsLiveSession
<1> QED BY Invariance, <1>1, PTL

(* Whoever was connected when CloseService began is disconnected when it   *)
(* ends.                                                                   *)
THEOREM CloseComplete == Spec => []CloseReachesTheConnected
<1>1. IInv => CloseReachesTheConnected
  BY DEF IInv, CloseInv, CloseReachesTheConnected
<1> QED BY Invariance, <1>1, PTL

(* And at most one session comes after it.                                 *)
THEOREM OneLateSession == Spec => []AtMostOneOutlivesClose
<1>1. IInv => AtMostOneOutlivesClose
  <2> SUFFICES ASSUME IInv, closePc = "closed"
               PROVE  Cardinality({s \in Sessions : Connected(s)}) <= 1
    BY DEF AtMostOneOutlivesClose
  <2> DEFINE Late == {s \in Sessions : Connected(s)}
  <2>1. \A s, t \in Late : s = t
    BY DEF IInv, CloseInv
  <2>2. CASE Late = {}
    <3>1. Cardinality(Late) = 0
      BY <2>2, FS_EmptySet
    <3> QED BY <3>1
  <2>3. CASE Late # {}
    <3>1. PICK s \in Late : TRUE
      BY <2>3
    <3>2. Late = {s}
      BY <2>1, <3>1
    <3>3. Cardinality(Late) = 1
      BY <3>2, FS_Singleton
    <3> QED BY <3>3
  <2> QED BY <2>2, <2>3
<1> QED BY Invariance, <1>1, PTL
=============================================================================
