----------------------------- MODULE SectorProofs -----------------------------
(***************************************************************************)
(* Proofs about Sector, for any sectors, workers and number of moves.      *)
(***************************************************************************)
EXTENDS Sector, FiniteSetTheorems, TLAPS

-----------------------------------------------------------------------------
(* TypeOK without the count of references, which Token gives.              *)
Pcs == {"idle", "eraseSession", "sendArrival", "check", "addEntity", "leaveObject",
        "addObject", "isSession", "decRef", "storeSector", "sendLeave", "resetEntity"}
Tasks == [op : Ops, sector : Places]

Types ==
  /\ inbox \in [Sectors -> Seq(Tasks)]
  /\ running \in [Sectors -> [pc : Pcs, sector : Places]]
  /\ inEntities \subseteq Sectors /\ inSessions \subseteq Sectors
  /\ objectLists \subseteq Sectors \X Workers
  /\ sectorInfo \in Places /\ curSector \in Places
  /\ ownerRef \in BOOLEAN /\ ioRef \in BOOLEAN
  /\ connected \in BOOLEAN /\ hasPlayer \in BOOLEAN /\ valid \in BOOLEAN
  /\ login \in [pc : {"check", "addObject", "enter", "enqueue", "done"}, room : Places]
  /\ handler \in [pc : {"idle", "move"}, room : Places]
  /\ moves \in 0..MaxMoves
  /\ declined \in BOOLEAN
  /\ fault \in {"none", "player", "session", "entity", "sector"}

(* A step that goes on to another sector, or comes from one, knows it.     *)
Addressed ==
  /\ \A s \in Sectors : \A i \in DOMAIN inbox[s] :
       inbox[s][i].op \in {"Immigration", "Arrive"} => inbox[s][i].sector \in Sectors
  /\ \A s \in Sectors :
       running[s].pc \in {"sendArrival", "leaveObject", "addObject"} => running[s].sector \in Sectors
  /\ login.pc \in {"enter", "enqueue"} => login.room \in Sectors
  /\ handler.pc = "move" => handler.room \in Sectors

(* The place of the player: a task in a queue, a running task, an entity   *)
(* list, or the login. There is one just when the sectors hold a           *)
(* reference, and never a second.                                          *)
CarryPcs == {"eraseSession", "sendArrival", "check", "addEntity", "decRef"}
Waits(s, i) == i \in DOMAIN inbox[s] /\ inbox[s][i].op \in Carriers
Carries(s)  == running[s].pc \in CarryPcs
Queued      == \E s \in Sectors : \E i \in Nat : Waits(s, i)
Carried     == \E s \in Sectors : Carries(s)
Listed      == inEntities # {}
Entering    == login.pc = "enqueue"

QueuedOnce ==
  \A s, u \in Sectors : \A i, j \in Nat : Waits(s, i) /\ Waits(u, j) => s = u /\ i = j

OnePlace ==
  /\ QueuedOnce
  /\ \A s, u \in Sectors : Carries(s) /\ Carries(u) => s = u
  /\ \A s, u \in inEntities : s = u
  /\ Queued => ~ Carried /\ ~ Listed /\ ~ Entering
  /\ Carried => ~ Listed /\ ~ Entering
  /\ Listed => ~ Entering

Token ==
  /\ OnePlace
  /\ sectorRefs \in {0, 1}
  /\ sectorRefs = 1 <=> Queued \/ Carried \/ Listed \/ Entering
  /\ login.pc \in {"check", "addObject", "enter"} => sectorRefs = 0

Awaits(s, op)       == \E i \in DOMAIN inbox[s] : inbox[s][i].op = op
AwaitsFrom(s, from) == \E i \in DOMAIN inbox[s] :
                         inbox[s][i].op = "Arrive" /\ inbox[s][i].sector = from

(* The sector info leads to that place, from the login on and again once   *)
(* an arrival has begun.                                                   *)
Info ==
  /\ \A s \in inEntities : sectorInfo = s
  /\ Entering => sectorInfo = login.room
  /\ \A s \in Sectors : running[s].pc \in {"check", "addEntity"} => sectorInfo = s
  /\ \A s \in Sectors : Awaits(s, "Enter") => sectorInfo = s

(* The object is in the lists of s, once the tasks that wait have run.     *)
WillList(s) ==
  \/ \E i \in DOMAIN inbox[s] :
       /\ inbox[s][i].op = "AddObject"
       /\ \A j \in DOMAIN inbox[s] : inbox[s][j].op = "LeaveObject" => j < i
  \/ /\ \A j \in DOMAIN inbox[s] : inbox[s][j].op # "LeaveObject"
     /\ \A w \in Workers : <<s, w>> \in objectLists

(* The sector whose lists should have it, as the place of the player says. *)
(* An arrival that has not told the sector before leaves it there.         *)
Home(s) ==
  \/ login.pc \in {"enter", "enqueue"} /\ login.room = s
  \/ s \in inEntities /\ running[s].pc \notin {"leaveObject", "addObject", "isSession"}
  \/ running[s].pc \in {"eraseSession", "sendArrival"}
  \/ running[s].pc \in {"check", "addEntity"} /\ running[s].sector = NoSector
  \/ Awaits(s, "Enter")
  \/ \E t \in Sectors : AwaitsFrom(t, s)
  \/ \E t \in Sectors : running[t].pc \in {"check", "addEntity", "leaveObject"} /\ running[t].sector = s

NobodyLeaves ==
  /\ \A s \in Sectors : ~ Awaits(s, "Leave")
  /\ \A s \in Sectors : running[s].pc \notin {"sendLeave", "resetEntity", "decRef"}
  /\ \A s \in Sectors : running[s].pc = "eraseSession" => running[s].sector \in Sectors

Follow ==
  connected =>
    /\ valid /\ hasPlayer
    /\ NobodyLeaves
    /\ \A s \in Sectors : running[s].pc \in {"leaveObject", "addObject", "isSession"} => s \in inEntities
    /\ \A s \in Sectors : \A w, v \in Workers : <<s, w>> \in objectLists => <<s, v>> \in objectLists
    /\ \A s \in Sectors : WillList(s) <=> Home(s)

IInv == Types /\ Addressed /\ Token /\ ListedSessionIsHeld /\ Info /\ Follow

-----------------------------------------------------------------------------
(* What taking the first task out of a queue leaves in it, ...             *)
LEMMA PopFacts ==
  ASSUME Types, NEW s \in Sectors, inbox[s] # <<>>, inbox' = Popped(s)
  PROVE  /\ inbox' \in [Sectors -> Seq(Tasks)]
         /\ \A u \in Sectors : u # s => inbox'[u] = inbox[u]
         /\ 1 \in DOMAIN inbox[s] /\ Head(inbox[s]) = inbox[s][1] /\ inbox[s][1] \in Tasks
         /\ \A i \in Nat : i \in DOMAIN inbox'[s] <=> i >= 1 /\ i + 1 \in DOMAIN inbox[s]
         /\ \A i \in DOMAIN inbox'[s] : i \in Nat /\ inbox'[s][i] = inbox[s][i + 1]
         /\ \A i \in DOMAIN inbox[s] : i \in Nat /\ i >= 1
<1>1. inbox[s] \in Seq(Tasks)
  BY DEF Types
<1>2. Tail(inbox[s]) \in Seq(Tasks) /\ Len(Tail(inbox[s])) = Len(inbox[s]) - 1 /\ Len(inbox[s]) > 0
  BY <1>1
<1>3. inbox'[s] = Tail(inbox[s]) /\ \A u \in Sectors : u # s => inbox'[u] = inbox[u]
  BY DEF Types, Popped
<1>4. inbox' \in [Sectors -> Seq(Tasks)]
  BY <1>2 DEF Types, Popped
<1>5. \A i \in 1..Len(Tail(inbox[s])) : Tail(inbox[s])[i] = inbox[s][i + 1]
  BY <1>1, <1>2
<1>6. DOMAIN inbox[s] = 1..Len(inbox[s]) /\ DOMAIN inbox'[s] = 1..(Len(inbox[s]) - 1)
  BY <1>1, <1>2, <1>3
<1>7. Head(inbox[s]) = inbox[s][1] /\ inbox[s][1] \in Tasks
  BY <1>1, <1>2
<1>8. Len(inbox[s]) \in Nat
  BY <1>1
<1> QED
  BY <1>2, <1>3, <1>4, <1>5, <1>6, <1>7, <1>8

(* ... and what a task that is sent adds to it.                            *)
LEMMA SendFacts ==
  ASSUME Types, NEW s \in Sectors, NEW task \in Tasks, inbox' = Sent(s, task)
  PROVE  /\ inbox' \in [Sectors -> Seq(Tasks)]
         /\ \A u \in Sectors : u # s => inbox'[u] = inbox[u]
         /\ Len(inbox[s]) + 1 \in DOMAIN inbox'[s] /\ inbox'[s][Len(inbox[s]) + 1] = task
         /\ \A i \in DOMAIN inbox'[s] : i \in DOMAIN inbox[s] \/ i = Len(inbox[s]) + 1
         /\ \A i \in DOMAIN inbox[s] : /\ i \in DOMAIN inbox'[s] /\ inbox'[s][i] = inbox[s][i]
                                       /\ i \in Nat /\ i < Len(inbox[s]) + 1
         /\ Len(inbox[s]) \in Nat
<1>1. inbox[s] \in Seq(Tasks) /\ Len(inbox[s]) \in Nat /\ DOMAIN inbox[s] = 1..Len(inbox[s])
  BY DEF Types
<1>2. inbox'[s] = Append(inbox[s], task) /\ \A u \in Sectors : u # s => inbox'[u] = inbox[u]
  BY DEF Types, Sent
<1>3. inbox' \in [Sectors -> Seq(Tasks)]
  BY <1>1 DEF Types, Sent
<1>4. Len(Append(inbox[s], task)) = Len(inbox[s]) + 1
      /\ DOMAIN Append(inbox[s], task) = 1..(Len(inbox[s]) + 1)
  BY <1>1
<1>5. /\ Append(inbox[s], task)[Len(inbox[s]) + 1] = task
      /\ \A i \in 1..Len(inbox[s]) : Append(inbox[s], task)[i] = inbox[s][i]
  BY <1>1
<1> QED
  BY <1>1, <1>2, <1>3, <1>4, <1>5

LEMMA TaskFacts ==
  /\ \A op \in Ops, s \in Places : /\ Task(op, s) \in Tasks
                                   /\ Task(op, s).op = op /\ Task(op, s).sector = s
  /\ \A pc \in Pcs, s \in Places : /\ Step(pc, s) \in [pc : Pcs, sector : Places]
                                   /\ Step(pc, s).pc = pc /\ Step(pc, s).sector = s
  /\ Idle \in [pc : Pcs, sector : Places] /\ Idle.pc = "idle" /\ Idle.sector = NoSector
  /\ NoSector \in Places /\ NoSector \notin Sectors /\ Sectors \subseteq Places
  /\ \A task \in Tasks : task.op \in Ops /\ task.sector \in Places
BY SectorAssumption DEF Task, Step, Idle, Tasks, Places, Pcs

LEMMA Labels ==
  /\ "idle" \in Pcs /\ "eraseSession" \in Pcs /\ "sendArrival" \in Pcs /\ "check" \in Pcs
  /\ "addEntity" \in Pcs /\ "leaveObject" \in Pcs /\ "addObject" \in Pcs /\ "decRef" \in Pcs
  /\ "storeSector" \in Pcs /\ "sendLeave" \in Pcs /\ "resetEntity" \in Pcs
  /\ "isSession" \in Pcs
BY DEF Pcs

(* Whatever sector s does, it changes only what it runs itself.            *)
LEMMA OwnStep ==
  ASSUME Types, NEW s \in Sectors, NEW step \in [pc : Pcs, sector : Places],
         running' = [running EXCEPT ![s] = step]
  PROVE  /\ running' \in [Sectors -> [pc : Pcs, sector : Places]]
         /\ running'[s] = step
         /\ \A u \in Sectors : u # s => running'[u] = running[u]
BY DEF Types

-----------------------------------------------------------------------------
(* What the login, a handler and the end of the connection change.         *)
LEMMA OutsideTypes ==
  ASSUME Types, Addressed, Login \/ Handler \/ Disconnect \/ OnDisconnected
  PROVE  Types'
<1> USE TaskFacts DEF Types
<1>1. CASE LoginCheck
  <2>1. CASE Fault("player")
    BY <2>1 DEF Fault, sectorVars, listVars, whereVars, refVars, playerVars, callVars
  <2>2. CASE ~ Fault("player")
    <3>1. login' \in [pc : {"check", "addObject", "enter", "enqueue", "done"}, room : Places]
      BY <1>1, <2>2 DEF LoginCheck
    <3>2. UNCHANGED <<sectorVars, listVars, whereVars, ioRef, playerVars, handler, moves, histVars>>
      BY <1>1, <2>2 DEF LoginCheck, refVars
    <3>3. ownerRef' \in BOOLEAN
      BY <1>1, <2>2 DEF LoginCheck, refVars
    <3> QED
      BY <3>1, <3>2, <3>3 DEF sectorVars, listVars, whereVars, playerVars, histVars
  <2> QED
    BY <2>1, <2>2
<1>2. ASSUME NEW s \in Sectors, LoginAddObject(s) PROVE Types'
  <2>1. CASE hasPlayer
    <3>1. inbox' \in [Sectors -> Seq(Tasks)]
      <4>1. Task("AddObject", NoSector) \in Tasks
        BY DEF Ops
      <4> QED
        BY <1>2, <2>1, <4>1, SendFacts DEF LoginAddObject
    <3> QED
      BY <1>2, <2>1, <3>1 DEF LoginAddObject, listVars, whereVars, refVars, playerVars
  <2>2. CASE ~ hasPlayer
    BY <1>2, <2>2 DEF LoginAddObject, Fault, sectorVars, listVars, whereVars, refVars, playerVars,
                      callVars
  <2> QED
    BY <2>1, <2>2
<1>3. CASE LoginEnter
  BY <1>3 DEF LoginEnter, sectorVars, listVars, playerVars, histVars
<1>4. CASE LoginEnqueue
  <2>1. inbox' \in [Sectors -> Seq(Tasks)]
    <3>1. Task("Enter", NoSector) \in Tasks /\ login.room \in Sectors
      BY <1>4 DEF Ops, LoginEnqueue, Addressed
    <3> QED
      BY <1>4, <3>1, SendFacts DEF LoginEnqueue
  <2> QED
    BY <1>4, <2>1 DEF LoginEnqueue, listVars, whereVars, refVars, playerVars, histVars
<1>5. CASE ReadSector \/ ReadNoSector
  BY <1>5, SectorAssumption DEF ReadSector, ReadNoSector, Fault, sectorVars, listVars, whereVars,
     refVars, playerVars, callVars, histVars
<1>6. ASSUME NEW to \in Sectors, ImmigrationEnqueue(to) PROVE Types'
  <2>1. inbox' \in [Sectors -> Seq(Tasks)]
    <3>1. Task("Immigration", to) \in Tasks /\ handler.room \in Sectors
      BY <1>6 DEF Ops, ImmigrationEnqueue, Addressed
    <3> QED
      BY <1>6, <3>1, SendFacts DEF ImmigrationEnqueue
  <2> QED
    BY <1>6, <2>1 DEF ImmigrationEnqueue, listVars, whereVars, refVars, playerVars, histVars
<1>7. CASE MoveNobody
  <2>1. CASE Fault("player")
    BY <2>1 DEF Fault, sectorVars, listVars, whereVars, refVars, playerVars, callVars
  <2>2. CASE ~ Fault("player")
    <3>1. handler' \in [pc : {"idle", "move"}, room : Places]
      <4>1. handler' = [handler EXCEPT !.pc = "idle", !.room = NoSector]
        BY <1>7, <2>2 DEF MoveNobody
      <4> QED
        BY <4>1
    <3> QED
      BY <1>7, <2>2, <3>1
         DEF MoveNobody, sectorVars, listVars, whereVars, refVars, playerVars, histVars
  <2> QED
    BY <2>1, <2>2
<1>8. CASE Disconnect
  BY <1>8 DEF Disconnect, sectorVars, listVars, whereVars, refVars, callVars, histVars
<1>9. CASE SetInvalid
  BY <1>9 DEF SetInvalid, sectorVars, listVars, whereVars, refVars, callVars, histVars
<1>10. CASE ResetPlayer
  BY <1>10 DEF ResetPlayer, sectorVars, listVars, whereVars, refVars, callVars, histVars
<1>11. CASE ReleaseIocpObject
  BY <1>11 DEF ReleaseIocpObject, sectorVars, listVars, whereVars, playerVars, callVars, histVars
<1> QED
  BY <1>1, <1>2, <1>3, <1>4, <1>5, <1>6, <1>7, <1>8, <1>9, <1>10, <1>11
     DEF Login, Handler, Move, OnDisconnected

(* What the tasks of sector s change. Its own queue and running task keep  *)
(* their types whichever step it takes.                                    *)
LEMMA SectorTypes ==
  ASSUME Types, Addressed, NEW s \in Sectors, SectorStep(s)
  PROVE  Types'
<1> USE TaskFacts, Labels DEF Types
<1>a. /\ running[s] \in [pc : Pcs, sector : Places]
      /\ \A pc \in Pcs : [running[s] EXCEPT !.pc = pc] \in [pc : Pcs, sector : Places]
  OBVIOUS
<1>b. \A op : Begins(s, op) => inbox[s] # <<>>
  BY DEF Begins
<1>c. \A op : Begins(s, op) => Head(inbox[s]).sector \in Places
  BY <1>b
<1>1. ASSUME Immigration(s) \/ LeaveAndDisconnect(s) PROVE Types'
  <2>1. inbox' \in [Sectors -> Seq(Tasks)]
    BY <1>1, <1>b, PopFacts DEF Immigration, LeaveAndDisconnect
  <2>2. running' \in [Sectors -> [pc : Pcs, sector : Places]]
    <3>1. /\ Step("eraseSession", Head(inbox[s]).sector) \in [pc : Pcs, sector : Places]
          /\ Step("eraseSession", NoSector) \in [pc : Pcs, sector : Places]
      BY <1>1, <1>c DEF Immigration, LeaveAndDisconnect
    <3> QED
      BY <1>1, <3>1, OwnStep DEF Immigration, LeaveAndDisconnect
  <2> QED
    BY <1>1, <2>1, <2>2 DEF Immigration, LeaveAndDisconnect, whereVars, refVars, playerVars,
                            callVars, histVars
<1>2. CASE EraseSession(s)
  <2>1. running' \in [Sectors -> [pc : Pcs, sector : Places]]
    BY <1>2, <1>a DEF EraseSession
  <2> QED
    BY <1>2, <2>1 DEF EraseSession, whereVars, refVars, playerVars, callVars, histVars
<1>3. CASE SendArrival(s)
  <2>1. Task("Arrive", s) \in Tasks /\ running[s].sector \in Sectors
    BY <1>3 DEF SendArrival, At, Addressed, Ops
  <2>2. inbox' \in [Sectors -> Seq(Tasks)]
    BY <1>3, <2>1, SendFacts DEF SendArrival
  <2> QED
    BY <1>3, <2>2 DEF SendArrival, listVars, whereVars, refVars, playerVars, callVars, histVars
<1>4. ASSUME Arrive(s) \/ BeginEnter(s) PROVE Types'
  <2>1. inbox' \in [Sectors -> Seq(Tasks)]
    BY <1>4, <1>b, PopFacts DEF Arrive, BeginEnter
  <2>2. running' \in [Sectors -> [pc : Pcs, sector : Places]]
    <3>1. /\ Arrive(s) => Step("check", Head(inbox[s]).sector) \in [pc : Pcs, sector : Places]
          /\ Step("check", NoSector) \in [pc : Pcs, sector : Places]
      BY <1>c DEF Arrive
    <3> QED
      <4>1. PICK step \in [pc : Pcs, sector : Places] : running' = [running EXCEPT ![s] = step]
        BY <1>4, <3>1 DEF Arrive, BeginEnter
      <4> QED
        BY <4>1, OwnStep
  <2> QED
    BY <1>4, <2>1, <2>2 DEF Arrive, BeginEnter, listVars, whereVars, refVars, playerVars,
                            callVars, histVars
<1>5. AfterEnter(s) \in [pc : Pcs, sector : Places]
  BY <1>a DEF AfterEnter
<1>6. CASE EnterSession(s)
  <2>1. running' \in [Sectors -> [pc : Pcs, sector : Places]]
    <3>1. [running[s] EXCEPT !.pc = "addEntity"] \in [pc : Pcs, sector : Places]
      BY <1>a
    <3> QED
      BY <1>6, <1>5, <3>1, OwnStep DEF EnterSession
  <2> QED
    BY <1>6, <2>1 DEF EnterSession, whereVars, playerVars, callVars, histVars
<1>7. CASE EnterEntity(s)
  BY <1>7, <1>5 DEF EnterEntity, whereVars, refVars, playerVars, callVars, histVars
<1>8. CASE LeaveObjectEnqueue(s) \/ AddObjectEnqueue(s) \/ IsSession(s)
  <2>1. Task("LeaveObject", NoSector) \in Tasks /\ Task("AddObject", NoSector) \in Tasks
    BY DEF Ops
  <2>2. inbox' \in [Sectors -> Seq(Tasks)]
    <3>1. CASE LeaveObjectEnqueue(s)
      <4>1. running[s].sector \in Sectors
        BY <3>1 DEF LeaveObjectEnqueue, At, Addressed
      <4> QED
        BY <3>1, <2>1, <4>1, SendFacts DEF LeaveObjectEnqueue, Fault, sectorVars
    <3>2. CASE AddObjectEnqueue(s)
      BY <3>2 DEF AddObjectEnqueue, Fault, sectorVars
    <3>3. CASE IsSession(s)
      BY <3>3, <2>1, SendFacts DEF IsSession, Fault, sectorVars
    <3> QED
      BY <1>8, <3>1, <3>2, <3>3
  <2>3. running' \in [Sectors -> [pc : Pcs, sector : Places]]
    BY <1>8, <1>a DEF LeaveObjectEnqueue, AddObjectEnqueue, IsSession, Fault, sectorVars
  <2>4. UNCHANGED <<listVars, whereVars, refVars, playerVars, callVars>>
    BY <1>8 DEF LeaveObjectEnqueue, AddObjectEnqueue, IsSession, Fault
  <2>5. declined' \in BOOLEAN /\ fault' \in {"none", "player", "session", "entity", "sector"}
    BY <1>8 DEF LeaveObjectEnqueue, AddObjectEnqueue, IsSession, Fault, histVars
  <2> QED
    BY <2>2, <2>3, <2>4, <2>5 DEF listVars, whereVars, refVars, playerVars, callVars
<1>9. ASSUME DecRef(s) \/ ResetEntity(s) PROVE Types'
  <2>1. running' = [running EXCEPT ![s] = Idle]
    BY <1>9 DEF DecRef, ResetEntity
  <2>2. running' \in [Sectors -> [pc : Pcs, sector : Places]]
    BY <2>1, OwnStep
  <2>3. UNCHANGED <<inbox, listVars, whereVars, ioRef, playerVars, callVars, histVars>>
    BY <1>9 DEF DecRef, ResetEntity
  <2>4. ownerRef' \in BOOLEAN
    BY <1>9 DEF DecRef, ResetEntity
  <2> QED
    BY <2>2, <2>3, <2>4 DEF listVars, whereVars, playerVars, callVars, histVars
<1>10. CASE AddObject(s) \/ LeaveObject(s)
  <2>1. inbox' \in [Sectors -> Seq(Tasks)]
    BY <1>10, <1>b, PopFacts DEF AddObject, LeaveObject
  <2>2. objectLists' \subseteq Sectors \X Workers
    BY <1>10 DEF AddObject, LeaveObject
  <2>3. running' \in [Sectors -> [pc : Pcs, sector : Places]]
    <3>1. Step("storeSector", NoSector) \in [pc : Pcs, sector : Places]
      OBVIOUS
    <3> QED
      BY <1>10, <3>1, OwnStep DEF AddObject, LeaveObject
  <2> QED
    BY <1>10, <2>1, <2>2, <2>3 DEF AddObject, LeaveObject, whereVars, refVars, playerVars,
                                   callVars, histVars
<1>11. CASE StoreSector(s)
  BY <1>11 DEF StoreSector, listVars, refVars, playerVars, callVars, histVars
<1>12. ASSUME NEW w \in Workers, Update(s, w) PROVE Types'
  BY <1>12 DEF Update, refVars, playerVars, callVars, histVars
<1>13. CASE SendLeave(s)
  <2>1. Task("Leave", NoSector) \in Tasks
    BY DEF Ops
  <2>2. inbox' \in [Sectors -> Seq(Tasks)]
    <3>1. sectorInfo # NoSector => sectorInfo \in Sectors
      BY DEF Places
    <3> QED
      BY <1>13, <2>1, <3>1, SendFacts DEF SendLeave, Fault, sectorVars
  <2>3. running' \in [Sectors -> [pc : Pcs, sector : Places]]
    <3>1. [running[s] EXCEPT !.pc = "resetEntity"] \in [pc : Pcs, sector : Places]
      BY <1>a
    <3> QED
      <4>1. CASE ownerRef
        <5>1. running' = [running EXCEPT ![s] = [running[s] EXCEPT !.pc = "resetEntity"]]
          BY <1>13, <4>1 DEF SendLeave
        <5> QED
          BY <3>1, <5>1, OwnStep
      <4>2. CASE ~ ownerRef
        BY <1>13, <4>2 DEF SendLeave, Fault, sectorVars
      <4> QED
        BY <4>1, <4>2
  <2> QED
    BY <1>13, <2>2, <2>3 DEF SendLeave, Fault, sectorVars, listVars, whereVars, refVars,
                             playerVars, callVars, histVars
<1> QED
  BY <1>1, <1>2, <1>3, <1>4, <1>6, <1>7, <1>8, <1>9, <1>10, <1>11, <1>12, <1>13 DEF SectorStep

LEMMA TypesStep == Types /\ Addressed /\ [Next]_vars => Types'
<1> SUFFICES ASSUME Types, Addressed, [Next]_vars PROVE Types'
  OBVIOUS
<1>1. CASE UNCHANGED vars
  BY <1>1 DEF vars, sectorVars, listVars, whereVars, refVars, playerVars, callVars, histVars, Types
<1> QED
  BY <1>1, OutsideTypes, SectorTypes DEF Next

-----------------------------------------------------------------------------
(* A queue changes at its two ends only, and what is sent is addressed.    *)
LEMMA QueueStep ==
  ASSUME Types, Addressed, [Next]_vars
  PROVE  \/ UNCHANGED inbox
         \/ \E s \in Sectors : inbox[s] # <<>> /\ inbox' = Popped(s)
         \/ \E s \in Sectors, task \in Tasks :
              /\ inbox' = Sent(s, task)
              /\ task.op \in {"Immigration", "Arrive"} => task.sector \in Sectors
<1> DEFINE Goal ==
      \/ UNCHANGED inbox
      \/ \E s \in Sectors : inbox[s] # <<>> /\ inbox' = Popped(s)
      \/ \E s \in Sectors, task \in Tasks :
           /\ inbox' = Sent(s, task)
           /\ task.op \in {"Immigration", "Arrive"} => task.sector \in Sectors
<1>a. ASSUME NEW s \in Sectors, NEW op \in Ops \ {"Immigration", "Arrive"},
             inbox' = Sent(s, Task(op, NoSector))
      PROVE  Goal
  <2>1. Task(op, NoSector) \in Tasks /\ Task(op, NoSector).op = op
    BY TaskFacts
  <2> QED
    BY <1>a, <2>1
<1>b. ASSUME NEW s \in Sectors, NEW op \in {"Immigration", "Arrive"}, NEW from \in Sectors,
             inbox' = Sent(s, Task(op, from))
      PROVE  Goal
  <2>1. Task(op, from) \in Tasks /\ Task(op, from).sector = from
    BY TaskFacts DEF Ops
  <2> QED
    BY <1>b, <2>1
<1>c. ASSUME NEW s \in Sectors, SectorStep(s) PROVE Goal
  <2>1. CASE Immigration(s) \/ LeaveAndDisconnect(s) \/ Arrive(s) \/ BeginEnter(s)
             \/ AddObject(s) \/ LeaveObject(s)
    BY <2>1 DEF Immigration, LeaveAndDisconnect, Arrive, BeginEnter, AddObject, LeaveObject,
                Begins
  <2>2. CASE EraseSession(s) \/ EnterSession(s) \/ EnterEntity(s) \/ DecRef(s) \/ StoreSector(s)
             \/ ResetEntity(s) \/ \E w \in Workers : Update(s, w)
    BY <2>2 DEF EraseSession, EnterSession, EnterEntity, DecRef, StoreSector, ResetEntity, Update
  <2>3. CASE SendArrival(s)
    BY <2>3, <1>b DEF SendArrival, At, Addressed
  <2>4. CASE LeaveObjectEnqueue(s)
    <3>1. running[s].sector \in Sectors
      BY <2>4 DEF LeaveObjectEnqueue, At, Addressed
    <3>2. UNCHANGED inbox \/ inbox' = Sent(running[s].sector, Task("LeaveObject", NoSector))
      BY <2>4 DEF LeaveObjectEnqueue, Fault, sectorVars
    <3> QED
      BY <3>1, <3>2, <1>a DEF Ops
  <2>5. CASE AddObjectEnqueue(s) \/ IsSession(s)
    <3>1. UNCHANGED inbox \/ inbox' = Sent(s, Task("AddObject", NoSector))
      BY <2>5 DEF AddObjectEnqueue, IsSession, Fault, sectorVars
    <3> QED
      BY <3>1, <1>a DEF Ops
  <2>6. CASE SendLeave(s)
    <3>1. \/ UNCHANGED inbox
          \/ sectorInfo \in Sectors /\ inbox' = Sent(sectorInfo, Task("Leave", NoSector))
      BY <2>6 DEF SendLeave, Fault, sectorVars, Types, Places
    <3> QED
      BY <3>1, <1>a DEF Ops
  <2> QED
    BY <1>c, <2>1, <2>2, <2>3, <2>4, <2>5, <2>6 DEF SectorStep
<1>d. ASSUME NEW s \in Sectors, LoginAddObject(s) PROVE Goal
  <2>1. UNCHANGED inbox \/ inbox' = Sent(s, Task("AddObject", NoSector))
    BY <1>d DEF LoginAddObject, Fault, sectorVars
  <2> QED
    BY <2>1, <1>a DEF Ops
<1>e. CASE LoginEnqueue
  <2>1. login.room \in Sectors /\ inbox' = Sent(login.room, Task("Enter", NoSector))
    BY <1>e DEF LoginEnqueue, Addressed
  <2> QED
    BY <2>1, <1>a DEF Ops
<1>f. ASSUME NEW to \in Sectors, ImmigrationEnqueue(to) PROVE Goal
  <2> QED
    BY <1>f, <1>b DEF ImmigrationEnqueue, Addressed
<1>g. CASE LoginCheck \/ LoginEnter \/ ReadSector \/ ReadNoSector \/ MoveNobody \/ Disconnect \/ OnDisconnected
           \/ UNCHANGED vars
  BY <1>g DEF LoginCheck, LoginEnter, ReadSector, ReadNoSector, MoveNobody, Disconnect, OnDisconnected, SetInvalid,
              ResetPlayer, ReleaseIocpObject, Fault, vars, sectorVars
<1>h. Goal
  <2>1. CASE Login
    BY <2>1, <1>d, <1>e, <1>g DEF Login
  <2>2. CASE Handler
    BY <2>2, <1>f, <1>g DEF Handler, Move
  <2> QED
    BY <2>1, <2>2, <1>c, <1>g DEF Next
<1> QED
  BY <1>h

LEMMA AddressedStep == Types /\ Addressed /\ [Next]_vars => Addressed'
<1> SUFFICES ASSUME Types, Addressed, [Next]_vars PROVE Addressed'
  OBVIOUS
<1> DEFINE Due == {"Immigration", "Arrive"}
           Bound == {"sendArrival", "leaveObject", "addObject"}
<1>1. \A s \in Sectors : \A i \in DOMAIN inbox'[s] :
        inbox'[s][i].op \in Due => inbox'[s][i].sector \in Sectors
  <2>1. \A s \in Sectors : \A i \in DOMAIN inbox[s] :
          inbox[s][i].op \in Due => inbox[s][i].sector \in Sectors
    BY DEF Addressed
  <2>2. ASSUME NEW s \in Sectors, inbox[s] # <<>>, inbox' = Popped(s)
        PROVE  \A u \in Sectors : \A i \in DOMAIN inbox'[u] : \E j \in DOMAIN inbox[u] :
                 inbox'[u][i] = inbox[u][j]
    BY <2>2, PopFacts
  <2>3. ASSUME NEW s \in Sectors, NEW task \in Tasks, inbox' = Sent(s, task)
        PROVE  \A u \in Sectors : \A i \in DOMAIN inbox'[u] :
                 inbox'[u][i] = task \/ \E j \in DOMAIN inbox[u] : inbox'[u][i] = inbox[u][j]
    BY <2>3, SendFacts
  <2> QED
    BY <2>1, <2>2, <2>3, QueueStep
<1>2. ASSUME NEW s \in Sectors, NEW step \in [pc : Pcs, sector : Places],
             running' = [running EXCEPT ![s] = step],
             step.pc \in Bound => step.sector \in Sectors
      PROVE  \A u \in Sectors : running'[u].pc \in Bound => running'[u].sector \in Sectors
  BY <1>2, OwnStep DEF Addressed
<1>3. ASSUME UNCHANGED running
      PROVE  \A u \in Sectors : running'[u].pc \in Bound => running'[u].sector \in Sectors
  BY <1>3 DEF Addressed
<1> HIDE DEF Due, Bound
<1>4. ASSUME NEW s \in Sectors, SectorStep(s)
      PROVE  \A u \in Sectors : running'[u].pc \in Bound => running'[u].sector \in Sectors
  <2> USE TaskFacts, Labels
  <2>a. running[s] \in [pc : Pcs, sector : Places]
    BY DEF Types
  <2>t. running \in [Sectors -> [pc : Pcs, sector : Places]]
    BY DEF Types
  <2>b. ASSUME NEW pc \in Pcs \ Bound, NEW u \in Places,
               running' = [running EXCEPT ![s] = Step(pc, u)]
        PROVE  \A v \in Sectors : running'[v].pc \in Bound => running'[v].sector \in Sectors
    <3>1. Step(pc, u) \in [pc : Pcs, sector : Places] /\ Step(pc, u).pc = pc
      OBVIOUS
    <3>2. running'[s] = Step(pc, u) /\ \A v \in Sectors : v # s => running'[v] = running[v]
      BY <2>b, <2>t
    <3> QED
      BY <3>1, <3>2 DEF Addressed, Bound
  <2>c. ASSUME running' = [running EXCEPT ![s] = Idle]
        PROVE  \A v \in Sectors : running'[v].pc \in Bound => running'[v].sector \in Sectors
    BY <2>c, <1>2 DEF Bound
  <2>d. ASSUME NEW pc \in Pcs, running' = [running EXCEPT ![s].pc = pc],
               pc \in Bound => running[s].sector \in Sectors
        PROVE  \A v \in Sectors : running'[v].pc \in Bound => running'[v].sector \in Sectors
    BY <2>a, <2>d DEF Addressed, Bound, Types
  <2>e. running[s].pc \in Bound => running[s].sector \in Sectors
    BY DEF Addressed, Bound
  <2>1. ASSUME Immigration(s) \/ LeaveAndDisconnect(s) \/ Arrive(s) \/ BeginEnter(s)
               \/ AddObject(s) \/ LeaveObject(s) \/ \E w \in Workers : Update(s, w)
        PROVE  \/ UNCHANGED running
               \/ \E pc \in Pcs \ Bound, u \in Places : running' = [running EXCEPT ![s] = Step(pc, u)]
    <3>1. inbox[s] # <<>> => Head(inbox[s]).sector \in Places
      BY DEF Types
    <3>2. "eraseSession" \notin Bound /\ "check" \notin Bound /\ "storeSector" \notin Bound
          /\ "sendLeave" \notin Bound
      BY DEF Bound
    <3>3. CASE Immigration(s)
      BY <3>1, <3>2, <3>3 DEF Immigration, Begins
    <3>4. CASE Arrive(s)
      BY <3>1, <3>2, <3>4 DEF Arrive, Begins
    <3>5. CASE LeaveAndDisconnect(s) \/ BeginEnter(s) \/ AddObject(s) \/ LeaveObject(s)
      BY <3>2, <3>5 DEF LeaveAndDisconnect, BeginEnter, AddObject, LeaveObject
    <3>6. ASSUME NEW w \in Workers, Update(s, w)
          PROVE  UNCHANGED running \/ running' = [running EXCEPT ![s] = Step("sendLeave", NoSector)]
      BY <3>6 DEF Update
    <3> QED
      BY <2>1, <3>2, <3>3, <3>4, <3>5, <3>6
  <2>2. CASE EraseSession(s)
    <3>1. running[s].sector # NoSector => running[s].sector \in Sectors
      BY <2>a DEF Places
    <3> QED
      BY <2>2, <2>d, <3>1 DEF EraseSession, Bound
  <2>3. CASE SendArrival(s) \/ DecRef(s) \/ StoreSector(s) \/ ResetEntity(s)
    BY <2>3, <2>c DEF SendArrival, DecRef, StoreSector, ResetEntity
  <2>4. CASE EnterSession(s) \/ EnterEntity(s)
    <3>1. /\ AfterEnter(s) \in [pc : Pcs, sector : Places]
          /\ AfterEnter(s).pc \in Bound => AfterEnter(s).sector \in Sectors
      BY <2>a DEF AfterEnter, Bound, Places
    <3>2. \/ running' = [running EXCEPT ![s] = AfterEnter(s)]
          \/ running' = [running EXCEPT ![s].pc = "addEntity"]
      BY <2>4 DEF EnterSession, EnterEntity
    <3> QED
      BY <3>1, <3>2, <1>2, <2>d DEF Bound
  <2>5. CASE LeaveObjectEnqueue(s) \/ AddObjectEnqueue(s) \/ IsSession(s)
    <3>1. LeaveObjectEnqueue(s) => running[s].sector \in Sectors
      BY DEF LeaveObjectEnqueue, At, Addressed
    <3>2. \/ UNCHANGED running
          \/ running' = [running EXCEPT ![s] = Idle]
          \/ LeaveObjectEnqueue(s) /\ running' = [running EXCEPT ![s].pc = "addObject"]
          \/ running' = [running EXCEPT ![s].pc = "isSession"]
      BY <2>5 DEF LeaveObjectEnqueue, AddObjectEnqueue, IsSession, Fault, sectorVars
    <3> QED
      BY <3>1, <3>2, <1>3, <2>c, <2>d DEF Bound
  <2>6. CASE SendLeave(s)
    <3>1. UNCHANGED running \/ running' = [running EXCEPT ![s].pc = "resetEntity"]
      BY <2>6 DEF SendLeave, Fault, sectorVars
    <3> QED
      BY <3>1, <1>3, <2>d DEF Bound
  <2> QED
    BY <1>4, <2>1, <1>3, <2>b, <2>2, <2>3, <2>4, <2>5, <2>6 DEF SectorStep
<1>5. ASSUME Login \/ Handler \/ Disconnect \/ OnDisconnected \/ UNCHANGED vars
      PROVE  UNCHANGED running
  BY <1>5 DEF Login, LoginCheck, LoginAddObject, LoginEnter, LoginEnqueue, Handler, ReadSector, ReadNoSector, Move,
              ImmigrationEnqueue, MoveNobody, Disconnect, OnDisconnected, SetInvalid, ResetPlayer,
              ReleaseIocpObject, Fault, vars, sectorVars
<1>6. \A u \in Sectors : running'[u].pc \in Bound => running'[u].sector \in Sectors
  BY <1>3, <1>4, <1>5 DEF Next
<1>7. ASSUME NEW s \in Sectors, SectorStep(s) PROVE UNCHANGED <<login, handler>>
  BY <1>7 DEF SectorStep, Immigration, EraseSession, SendArrival, Arrive, BeginEnter, EnterSession,
              EnterEntity, LeaveObjectEnqueue, AddObjectEnqueue, IsSession, LeaveAndDisconnect, DecRef, AddObject,
              StoreSector, LeaveObject, Update, SendLeave, ResetEntity, Fault, callVars
<1>8. /\ login'.pc \in {"enter", "enqueue"} => login'.room \in Sectors
      /\ handler'.pc = "move" => handler'.room \in Sectors
  <2>1. ASSUME Login PROVE login'.pc \in {"enter", "enqueue"} => login'.room \in Sectors
    BY <2>1 DEF Login, LoginCheck, LoginAddObject, LoginEnter, LoginEnqueue, Fault, callVars,
                Addressed, Types
  <2>2. ASSUME Login PROVE UNCHANGED handler
    BY <2>2 DEF Login, LoginCheck, LoginAddObject, LoginEnter, LoginEnqueue, Fault, callVars
  <2>3. ASSUME Handler PROVE handler'.pc = "move" => handler'.room \in Sectors
    <3>1. sectorInfo # NoSector => sectorInfo \in Sectors
      BY DEF Types, Places
    <3>2. ASSUME ReadSector PROVE handler'.room \in Sectors
      BY <3>1, <3>2 DEF ReadSector
    <3>3. ASSUME Move \/ ReadNoSector
          PROVE  UNCHANGED handler \/ handler' = [handler EXCEPT !.pc = "idle", !.room = NoSector]
      BY <3>3 DEF Move, ReadNoSector, ImmigrationEnqueue, MoveNobody, Fault, callVars
    <3>4. handler \in [pc : {"idle", "move"}, room : Places]
      BY DEF Types
    <3>5. handler.pc = "move" => handler.room \in Sectors
      BY DEF Addressed
    <3> QED
      BY <2>3, <3>2, <3>3, <3>4, <3>5 DEF Handler
  <2>4. ASSUME Handler PROVE UNCHANGED login
    BY <2>4 DEF Handler, ReadSector, ReadNoSector, Move, ImmigrationEnqueue, MoveNobody, Fault, callVars
  <2>5. ASSUME Disconnect \/ OnDisconnected \/ UNCHANGED vars PROVE UNCHANGED <<login, handler>>
    BY <2>5 DEF Disconnect, OnDisconnected, SetInvalid, ResetPlayer, ReleaseIocpObject, callVars, vars
  <2> QED
    BY <1>7, <2>1, <2>2, <2>3, <2>4, <2>5 DEF Next, Addressed
<1> QED
  BY <1>1, <1>6, <1>8 DEF Addressed, Due, Bound

-----------------------------------------------------------------------------
(* The place of the player stays a single one when a queue loses or gains  *)
(* a task.                                                                 *)
LEMMA PopQueued ==
  ASSUME Types, NEW s \in Sectors, inbox[s] # <<>>, inbox' = Popped(s), QueuedOnce
  PROVE  /\ QueuedOnce'
         /\ Head(inbox[s]).op \notin Carriers => (Queued' <=> Queued)
         /\ Head(inbox[s]).op \in Carriers => Queued /\ ~ Queued'
<1>1. /\ \A u \in Sectors : u # s => \A i \in Nat : Waits(u, i)' <=> Waits(u, i)
      /\ \A i \in Nat : Waits(s, i)' <=> i >= 1 /\ Waits(s, i + 1)
      /\ \A i \in Nat : Waits(s, i) => i >= 1
      /\ Waits(s, 1) <=> Head(inbox[s]).op \in Carriers
  BY PopFacts DEF Waits
<1>2. QueuedOnce'
  <2> SUFFICES ASSUME NEW u \in Sectors, NEW v \in Sectors, NEW i \in Nat, NEW j \in Nat,
                      Waits(u, i)', Waits(v, j)'
               PROVE  u = v /\ i = j
    BY DEF QueuedOnce
  <2> DEFINE k == IF u = s THEN i + 1 ELSE i
             l == IF v = s THEN j + 1 ELSE j
  <2>1. Waits(u, k) /\ Waits(v, l) /\ k \in Nat /\ l \in Nat
    BY <1>1
  <2>2. u = v /\ k = l
    BY <2>1 DEF QueuedOnce
  <2> QED
    BY <2>2
<1>3. ASSUME Head(inbox[s]).op \notin Carriers PROVE Queued' <=> Queued
  <2>1. ASSUME NEW u \in Sectors, NEW i \in Nat, Waits(u, i) PROVE Queued'
    <3>1. CASE u # s
      BY <2>1, <3>1, <1>1 DEF Queued
    <3>2. CASE u = s
      <4>1. i # 1 /\ i >= 1
        BY <1>1, <1>3, <2>1, <3>2
      <4>2. i - 1 \in Nat /\ i - 1 >= 1 /\ (i - 1) + 1 = i
        BY <4>1
      <4>3. Waits(s, i - 1)'
        BY <1>1, <2>1, <3>2, <4>2
      <4> QED
        BY <4>2, <4>3 DEF Queued
    <3> QED
      BY <3>1, <3>2
  <2>2. ASSUME NEW u \in Sectors, NEW i \in Nat, Waits(u, i)' PROVE Queued
    BY <2>2, <1>1 DEF Queued
  <2> QED
    BY <2>1, <2>2 DEF Queued
<1>4. ASSUME Head(inbox[s]).op \in Carriers PROVE Queued /\ ~ Queued'
  <2>1. Waits(s, 1)
    BY <1>1, <1>4
  <2>2. ASSUME NEW u \in Sectors, NEW i \in Nat, Waits(u, i)' PROVE FALSE
    <3>1. CASE u # s
      BY <1>1, <2>1, <2>2, <3>1 DEF QueuedOnce
    <3>2. CASE u = s
      <4>1. Waits(s, i + 1) /\ i + 1 \in Nat /\ i + 1 # 1
        BY <1>1, <2>2, <3>2
      <4> QED
        BY <2>1, <4>1 DEF QueuedOnce
    <3> QED
      BY <3>1, <3>2
  <2> QED
    BY <2>1, <2>2 DEF Queued
<1> QED
  BY <1>2, <1>3, <1>4

LEMMA SendQueued ==
  ASSUME Types, NEW s \in Sectors, NEW task \in Tasks, inbox' = Sent(s, task), QueuedOnce
  PROVE  /\ task.op \notin Carriers => QueuedOnce' /\ (Queued' <=> Queued)
         /\ task.op \in Carriers => Queued' /\ (~ Queued => QueuedOnce')
<1> DEFINE n == Len(inbox[s]) + 1
<1>1. /\ n \in Nat
      /\ \A u \in Sectors, i \in Nat :
           Waits(u, i)' <=> Waits(u, i) \/ (u = s /\ i = n /\ task.op \in Carriers)
  <2>1. \A u \in Sectors, i \in Nat : u # s => (Waits(u, i)' <=> Waits(u, i))
    BY SendFacts DEF Waits
  <2>2. \A i \in Nat : Waits(s, i)' <=> Waits(s, i) \/ (i = n /\ task.op \in Carriers)
    BY SendFacts DEF Waits
  <2>3. n \in Nat
    BY SendFacts
  <2> QED
    BY <2>1, <2>2, <2>3
<1> HIDE DEF n
<1>2. CASE task.op \notin Carriers
  BY <1>1, <1>2 DEF Queued, QueuedOnce
<1>3. CASE task.op \in Carriers
  BY <1>1, <1>3 DEF Queued, QueuedOnce
<1> QED
  BY <1>2, <1>3

LEMMA StayQueued ==
  ASSUME UNCHANGED inbox
  PROVE  (Queued' <=> Queued) /\ (QueuedOnce' <=> QueuedOnce)
BY DEF Queued, QueuedOnce, Waits

(* A running task that goes from one label to another.                     *)
LEMMA OwnCarries ==
  ASSUME Types, NEW s \in Sectors, NEW step \in [pc : Pcs, sector : Places],
         running' = [running EXCEPT ![s] = step]
  PROVE  /\ Carries(s)' <=> step.pc \in CarryPcs
         /\ \A u \in Sectors : u # s => (Carries(u)' <=> Carries(u))
BY OwnStep DEF Carries

LEMMA TokenKept ==
  ASSUME Token, QueuedOnce', Queued' <=> Queued,
         \A u \in Sectors : Carries(u)' <=> Carries(u),
         UNCHANGED <<inEntities, sectorRefs>>, Entering' <=> Entering,
         login'.pc \in {"check", "addObject", "enter"} => login.pc \in {"check", "addObject", "enter"}
  PROVE  Token'
BY DEF Token, OnePlace, Carried, Listed

LEMMA OwnPc ==
  ASSUME Types, NEW s \in Sectors, NEW pc \in Pcs, running' = [running EXCEPT ![s].pc = pc]
  PROVE  /\ running'[s].pc = pc /\ running'[s].sector = running[s].sector
         /\ \A u \in Sectors : u # s => running'[u] = running[u]
         /\ Carries(s)' <=> pc \in CarryPcs
         /\ \A u \in Sectors : u # s => (Carries(u)' <=> Carries(u))
BY DEF Types, Carries

LEMMA OwnStepCarries ==
  ASSUME Types, NEW s \in Sectors, NEW pc \in Pcs, NEW from \in Places,
         running' = [running EXCEPT ![s] = Step(pc, from)]
  PROVE  /\ running'[s].pc = pc /\ running'[s].sector = from
         /\ \A u \in Sectors : u # s => running'[u] = running[u]
         /\ Carries(s)' <=> pc \in CarryPcs
         /\ \A u \in Sectors : u # s => (Carries(u)' <=> Carries(u))
BY DEF Types, Carries, Step

LEMMA OwnIdleCarries ==
  ASSUME Types, NEW s \in Sectors, running' = [running EXCEPT ![s] = Idle]
  PROVE  /\ running'[s].pc = "idle" /\ running'[s].sector = NoSector
         /\ \A u \in Sectors : u # s => running'[u] = running[u]
         /\ ~ Carries(s)'
         /\ \A u \in Sectors : u # s => (Carries(u)' <=> Carries(u))
BY DEF Types, Carries, CarryPcs, Idle, Step

(* Where the player is, everything else says it is not.                    *)
LEMMA Alone ==
  ASSUME Token, NEW s \in Sectors
  PROVE  /\ Carries(s) => /\ ~ Queued /\ ~ Listed /\ ~ Entering /\ sectorRefs = 1
                          /\ \A u \in Sectors : Carries(u) => u = s
         /\ s \in inEntities => /\ inEntities = {s} /\ ~ Queued /\ ~ Carried /\ ~ Entering
                                /\ sectorRefs = 1
         /\ Queued => ~ Carried /\ ~ Listed /\ ~ Entering /\ sectorRefs = 1
         /\ Entering => ~ Queued /\ ~ Carried /\ ~ Listed /\ sectorRefs = 1
BY DEF Token, OnePlace, Carried, Listed

(* Token again, from the place to which the player has gone.               *)
LEMMA TokenQueued ==
  ASSUME QueuedOnce', Queued', ~ Carried', ~ Listed', ~ Entering', sectorRefs' = 1,
         login'.pc \notin {"check", "addObject", "enter"}
  PROVE  Token'
BY DEF Token, OnePlace, Carried, Listed

LEMMA TokenCarried ==
  ASSUME NEW s \in Sectors, Carries(s)', \A u \in Sectors : u # s => ~ Carries(u)',
         QueuedOnce', ~ Queued', ~ Listed', ~ Entering', sectorRefs' = 1,
         login'.pc \notin {"check", "addObject", "enter"}
  PROVE  Token'
BY DEF Token, OnePlace, Carried, Listed

LEMMA TokenListed ==
  ASSUME NEW s \in Sectors, inEntities' = {s},
         QueuedOnce', ~ Queued', ~ Carried', ~ Entering', sectorRefs' = 1,
         login'.pc \notin {"check", "addObject", "enter"}
  PROVE  Token'
BY DEF Token, OnePlace, Carried, Listed

LEMMA TokenGone ==
  ASSUME QueuedOnce', ~ Queued', ~ Carried', ~ Listed', ~ Entering', sectorRefs' = 0
  PROVE  Token'
BY DEF Token, OnePlace, Carried, Listed

LEMMA OutsideToken ==
  ASSUME Types, Addressed, Token, Login \/ Handler \/ Disconnect \/ OnDisconnected
  PROVE  Token'
<1> USE TaskFacts
<1>q. QueuedOnce
  BY DEF Token, OnePlace
<1>1. ASSUME UNCHANGED <<running, inEntities, sectorRefs, login>>, QueuedOnce', Queued' <=> Queued
      PROVE  Token'
  BY <1>1, TokenKept DEF Entering, Carries
<1>2. ASSUME UNCHANGED <<sectorVars, inEntities, sectorRefs>>, Entering' <=> Entering,
             login'.pc \in {"check", "addObject", "enter"} => login.pc \in {"check", "addObject", "enter"}
      PROVE  Token'
  BY <1>2, <1>q, TokenKept, StayQueued DEF Carries, sectorVars
<1>3. CASE LoginCheck
  <2>1. login' = login \/ login' = [login EXCEPT !.pc = "addObject"] \/ login' = [login EXCEPT !.pc = "done"]
    BY <1>3 DEF LoginCheck, Fault, callVars
  <2>2. UNCHANGED <<sectorVars, inEntities, sectorRefs>>
    BY <1>3 DEF LoginCheck, Fault, listVars, refVars
  <2>3. login.pc = "check"
    BY <1>3 DEF LoginCheck
  <2>4. login'.pc \in {"check", "addObject", "done"}
    BY <2>1, <2>3 DEF Types
  <2> QED
    BY <2>2, <2>3, <2>4, <1>2 DEF Entering
<1>4. ASSUME NEW s \in Sectors, LoginAddObject(s) PROVE Token'
  <2>1. UNCHANGED inbox \/ inbox' = Sent(s, Task("AddObject", NoSector))
    BY <1>4 DEF LoginAddObject, Fault, sectorVars
  <2>2. UNCHANGED <<running, inEntities, sectorRefs>>
    BY <1>4 DEF LoginAddObject, Fault, listVars, refVars, sectorVars
  <2>3. login.pc = "addObject" /\ login'.pc \in {"addObject", "enter"}
    BY <1>4 DEF LoginAddObject, Fault, callVars
  <2>4. Task("AddObject", NoSector) \in Tasks /\ Task("AddObject", NoSector).op \notin Carriers
    BY DEF Ops, Carriers
  <2>5. QueuedOnce' /\ (Queued' <=> Queued)
    BY <2>1, <2>4, <1>q, SendQueued, StayQueued
  <2> QED
    BY <2>2, <2>3, <2>5, TokenKept DEF Entering, Carries
<1>5. CASE LoginEnter
  <2>1. login.pc = "enter" /\ sectorRefs = 0 /\ login'.pc = "enqueue" /\ sectorRefs' = 1
    BY <1>5 DEF LoginEnter, Token, Types
  <2>2. ~ Queued /\ ~ Carried /\ ~ Listed
    BY <2>1 DEF Token
  <2>3. UNCHANGED <<inbox, running, inEntities>>
    BY <1>5 DEF LoginEnter, sectorVars, listVars
  <2>4. QueuedOnce' /\ ~ Queued' /\ ~ Carried' /\ ~ Listed' /\ Entering'
    BY <2>1, <2>2, <2>3, <1>q, StayQueued DEF Carried, Carries, Listed, Entering
  <2> QED
    BY <2>1, <2>4 DEF Token, OnePlace, Carried, Listed
<1>6. CASE LoginEnqueue
  <2>1. Entering /\ login'.pc = "done" /\ login.room \in Sectors
    BY <1>6 DEF LoginEnqueue, Entering, Types, Addressed
  <2>2. ~ Queued /\ ~ Carried /\ ~ Listed /\ sectorRefs = 1
    BY <2>1 DEF Token, OnePlace
  <2>3. Task("Enter", NoSector) \in Tasks /\ Task("Enter", NoSector).op \in Carriers
    BY DEF Ops, Carriers
  <2>4. inbox' = Sent(login.room, Task("Enter", NoSector)) /\ UNCHANGED <<running, inEntities, sectorRefs>>
    BY <1>6 DEF LoginEnqueue, listVars, refVars
  <2>5. QueuedOnce' /\ Queued'
    BY <2>1, <2>2, <2>3, <2>4, <1>q, SendQueued
  <2>6. ~ Carried' /\ ~ Listed' /\ ~ Entering' /\ sectorRefs' = 1
    BY <2>1, <2>2, <2>4 DEF Carried, Carries, Listed, Entering
  <2> QED
    BY <2>1, <2>5, <2>6 DEF Token, OnePlace, Carried, Listed
<1>7. CASE ReadSector \/ ReadNoSector \/ MoveNobody \/ Disconnect \/ OnDisconnected
  <2>1. UNCHANGED <<sectorVars, inEntities, sectorRefs, login>>
    BY <1>7 DEF ReadSector, ReadNoSector, MoveNobody, Disconnect, OnDisconnected, SetInvalid, ResetPlayer,
                ReleaseIocpObject, Fault, listVars, refVars, callVars
  <2> QED
    BY <2>1, <1>2 DEF Entering
<1>8. ASSUME NEW to \in Sectors, ImmigrationEnqueue(to) PROVE Token'
  <2>1. handler.room \in Sectors /\ inbox' = Sent(handler.room, Task("Immigration", to))
        /\ UNCHANGED <<running, inEntities, sectorRefs, login>>
    BY <1>8 DEF ImmigrationEnqueue, Addressed, listVars, refVars
  <2>2. Task("Immigration", to) \in Tasks /\ Task("Immigration", to).op \notin Carriers
    BY DEF Ops, Carriers
  <2> QED
    BY <2>1, <2>2, <1>q, <1>1, SendQueued
<1> QED
  BY <1>3, <1>4, <1>5, <1>6, <1>7, <1>8 DEF Login, Handler, Move

LEMMA SectorToken ==
  ASSUME Types, Addressed, Token, NEW s \in Sectors, SectorStep(s)
  PROVE  Token'
<1>q. QueuedOnce
  BY DEF Token, OnePlace
<1>n. NoSector \in Places
  BY TaskFacts
<1>l. UNCHANGED login
  BY DEF SectorStep, Immigration, EraseSession, SendArrival, Arrive, BeginEnter, EnterSession,
         EnterEntity, LeaveObjectEnqueue, AddObjectEnqueue, IsSession, LeaveAndDisconnect, DecRef, AddObject,
         StoreSector, LeaveObject, Update, SendLeave, ResetEntity, Fault, callVars
<1>e. sectorRefs = 1 => login.pc \notin {"check", "addObject", "enter"}
  BY DEF Token
<1>k. ASSUME QueuedOnce', Queued' <=> Queued, \A u \in Sectors : Carries(u)' <=> Carries(u),
             UNCHANGED <<inEntities, sectorRefs>>
      PROVE  Token'
  BY <1>k, <1>l, TokenKept DEF Entering
<1>p. ASSUME NEW op \in Ops, Begins(s, op)
      PROVE  /\ inbox[s] # <<>> /\ Head(inbox[s]).op = op /\ ~ Carries(s)
  BY <1>p, TaskFacts DEF Begins, Carries, CarryPcs
<1>1. ASSUME Immigration(s) \/ LeaveAndDisconnect(s) PROVE Token'
  <2>1. /\ inbox[s] # <<>> /\ inbox' = Popped(s) /\ Head(inbox[s]).op \notin Carriers
        /\ ~ Carries(s)
    BY <1>1, <1>p DEF Immigration, LeaveAndDisconnect, Carriers, Ops
  <2>2. QueuedOnce' /\ (Queued' <=> Queued)
    BY <2>1, <1>q, PopQueued
  <2>3. inEntities' = inEntities \ {s} /\ UNCHANGED sectorRefs
    BY <1>1 DEF Immigration, LeaveAndDisconnect, refVars
  <2>4. CASE s \notin inEntities
    <3>1. UNCHANGED running
      BY <1>1, <2>4 DEF Immigration, LeaveAndDisconnect
    <3> QED
      BY <1>k, <2>2, <2>3, <2>4, <3>1 DEF Carries
  <2>5. CASE s \in inEntities
    <3>1. inEntities = {s} /\ ~ Queued /\ ~ Carried /\ ~ Entering /\ sectorRefs = 1
      BY <2>5, Alone
    <3>2. \E u \in Places : running' = [running EXCEPT ![s] = Step("eraseSession", u)]
      <4>1. Head(inbox[s]).sector \in Places
        BY <2>1, PopFacts, TaskFacts
      <4> QED
        BY <1>1, <1>n, <2>5, <4>1 DEF Immigration, LeaveAndDisconnect
    <3>3. Carries(s)' /\ \A u \in Sectors : u # s => ~ Carries(u)'
      <4>1. PICK u \in Places : running' = [running EXCEPT ![s] = Step("eraseSession", u)]
        BY <3>2
      <4> QED
        BY <3>1, <4>1, OwnStepCarries, Labels DEF Carried, CarryPcs
    <3> QED
      <4>1. ~ Queued' /\ ~ Listed' /\ ~ Entering' /\ sectorRefs' = 1
        BY <1>l, <2>2, <2>3, <3>1 DEF Listed, Entering
      <4> QED
        BY <1>l, <1>e, <2>2, <3>1, <3>3, <4>1, TokenCarried
  <2> QED
    BY <2>4, <2>5
<1>2. CASE EraseSession(s)
  <2>1. Carries(s) /\ UNCHANGED <<inbox, inEntities, sectorRefs>>
    BY <1>2 DEF EraseSession, At, Carries, CarryPcs, refVars
  <2>2. \E pc \in {"decRef", "sendArrival"} : running' = [running EXCEPT ![s].pc = pc]
    BY <1>2 DEF EraseSession
  <2>3. \A u \in Sectors : Carries(u)' <=> Carries(u)
    <3>1. PICK pc \in {"decRef", "sendArrival"} : running' = [running EXCEPT ![s].pc = pc]
      BY <2>2
    <3>2. pc \in Pcs /\ pc \in CarryPcs
      BY Labels DEF CarryPcs
    <3> QED
      BY <2>1, <3>1, <3>2, OwnPc
  <2> QED
    BY <1>k, <1>q, <2>1, <2>3, StayQueued
<1>3. CASE SendArrival(s)
  <2>1. /\ Carries(s) /\ running[s].sector \in Sectors
        /\ inbox' = Sent(running[s].sector, Task("Arrive", s))
        /\ running' = [running EXCEPT ![s] = Idle] /\ UNCHANGED <<inEntities, sectorRefs>>
    BY <1>3 DEF SendArrival, At, Carries, CarryPcs, listVars, refVars, Addressed
  <2>2. Task("Arrive", s) \in Tasks /\ Task("Arrive", s).op \in Carriers
    BY TaskFacts DEF Ops, Carriers
  <2>3. ~ Queued /\ ~ Listed /\ ~ Entering /\ sectorRefs = 1 /\ \A u \in Sectors : Carries(u) => u = s
    BY <2>1, Alone
  <2>4. QueuedOnce' /\ Queued'
    BY <2>1, <2>2, <2>3, <1>q, SendQueued
  <2>5. ~ Carried'
    BY <2>1, <2>3, OwnIdleCarries DEF Carried
  <2> QED
    <3>1. ~ Listed' /\ ~ Entering' /\ sectorRefs' = 1
      BY <1>l, <2>1, <2>3 DEF Listed, Entering
    <3> QED
      BY <1>l, <1>e, <2>3, <2>4, <2>5, <3>1, TokenQueued
<1>4. CASE Arrive(s) \/ BeginEnter(s)
  <2>1. /\ inbox[s] # <<>> /\ inbox' = Popped(s) /\ Head(inbox[s]).op \in Carriers
        /\ UNCHANGED <<inEntities, sectorRefs>>
    BY <1>4, <1>p DEF Arrive, BeginEnter, Carriers, Ops, listVars, refVars
  <2>2. QueuedOnce' /\ Queued /\ ~ Queued'
    BY <2>1, <1>q, PopQueued
  <2>3. ~ Carried /\ ~ Listed /\ ~ Entering /\ sectorRefs = 1
    BY <2>2, Alone
  <2>4. \E u \in Places : running' = [running EXCEPT ![s] = Step("check", u)]
    <3>1. Head(inbox[s]).sector \in Places
      BY <2>1, PopFacts, TaskFacts
    <3> QED
      BY <1>4, <1>n, <3>1 DEF Arrive, BeginEnter
  <2>5. Carries(s)' /\ \A u \in Sectors : u # s => ~ Carries(u)'
    <3>1. PICK u \in Places : running' = [running EXCEPT ![s] = Step("check", u)]
      BY <2>4
    <3> QED
      BY <2>3, <3>1, OwnStepCarries, Labels DEF Carried, CarryPcs
  <2> QED
    <3>1. ~ Listed' /\ ~ Entering' /\ sectorRefs' = 1
      BY <1>l, <2>1, <2>3 DEF Listed, Entering
    <3> QED
      BY <1>l, <1>e, <2>2, <2>3, <2>5, <3>1, TokenCarried
<1>a. AfterEnter(s) \in [pc : Pcs, sector : Places] /\ AfterEnter(s).pc \notin CarryPcs
  <2>1. /\ Step("leaveObject", running[s].sector) \in [pc : Pcs, sector : Places]
        /\ Step("leaveObject", running[s].sector).pc = "leaveObject"
    BY TaskFacts, Labels DEF Types
  <2> QED
    BY <2>1, TaskFacts DEF AfterEnter, CarryPcs
<1>5. CASE EnterSession(s)
  <2>1. Carries(s) /\ UNCHANGED <<inbox, inEntities>>
    BY <1>5 DEF EnterSession, At, Carries, CarryPcs
  <2>2. CASE connected
    <3>1. running' = [running EXCEPT ![s].pc = "addEntity"] /\ UNCHANGED sectorRefs
      BY <1>5, <2>2 DEF EnterSession
    <3>2. \A u \in Sectors : Carries(u)' <=> Carries(u)
      BY <2>1, <3>1, OwnPc, Labels DEF CarryPcs
    <3> QED
      BY <1>k, <1>q, <2>1, <3>1, <3>2, StayQueued
  <2>3. CASE ~ connected
    <3>1. running' = [running EXCEPT ![s] = AfterEnter(s)] /\ sectorRefs' = sectorRefs - 1
      BY <1>5, <2>3 DEF EnterSession
    <3>2. ~ Queued /\ ~ Listed /\ ~ Entering /\ sectorRefs = 1 /\ \A u \in Sectors : Carries(u) => u = s
      BY <2>1, Alone
    <3>3. ~ Carried'
      BY <1>a, <3>1, <3>2, OwnCarries DEF Carried
    <3>4. QueuedOnce' /\ ~ Queued' /\ ~ Listed' /\ sectorRefs' = 0
      BY <1>q, <2>1, <3>1, <3>2, StayQueued DEF Listed
    <3>5. ~ Entering'
      BY <1>l, <3>2 DEF Entering
    <3> QED
      BY <3>3, <3>4, <3>5, TokenGone
  <2> QED
    BY <2>2, <2>3
<1>6. CASE EnterEntity(s)
  <2>1. /\ Carries(s) /\ UNCHANGED <<inbox, sectorRefs>> /\ inEntities' = inEntities \cup {s}
        /\ running' = [running EXCEPT ![s] = AfterEnter(s)]
    BY <1>6 DEF EnterEntity, At, Carries, CarryPcs, refVars
  <2>2. ~ Queued /\ ~ Listed /\ ~ Entering /\ sectorRefs = 1 /\ \A u \in Sectors : Carries(u) => u = s
    BY <2>1, Alone
  <2>3. ~ Carried'
    BY <1>a, <2>1, <2>2, OwnCarries DEF Carried
  <2>4. QueuedOnce' /\ ~ Queued' /\ inEntities' = {s}
    BY <1>q, <2>1, <2>2, StayQueued DEF Listed
  <2> QED
    <3>1. ~ Entering' /\ sectorRefs' = 1
      BY <1>l, <2>1, <2>2 DEF Entering
    <3> QED
      BY <1>l, <1>e, <2>2, <2>3, <2>4, <3>1, TokenListed
<1>7. CASE DecRef(s)
  <2>1. /\ Carries(s) /\ UNCHANGED <<inbox, inEntities>> /\ sectorRefs' = sectorRefs - 1
        /\ running' = [running EXCEPT ![s] = Idle]
    BY <1>7 DEF DecRef, At, Carries, CarryPcs, listVars
  <2>2. ~ Queued /\ ~ Listed /\ ~ Entering /\ sectorRefs = 1 /\ \A u \in Sectors : Carries(u) => u = s
    BY <2>1, Alone
  <2>3. ~ Carried'
    BY <2>1, <2>2, OwnIdleCarries DEF Carried
  <2>4. QueuedOnce' /\ ~ Queued' /\ ~ Listed' /\ sectorRefs' = 0
    BY <1>q, <2>1, <2>2, StayQueued DEF Listed
  <2>5. ~ Entering'
    BY <1>l, <2>2 DEF Entering
  <2> QED
    BY <2>3, <2>4, <2>5, TokenGone
<1>8. CASE AddObject(s) \/ LeaveObject(s)
  <2>1. /\ inbox[s] # <<>> /\ inbox' = Popped(s) /\ Head(inbox[s]).op \notin Carriers
        /\ ~ Carries(s) /\ UNCHANGED <<inEntities, sectorRefs>>
    BY <1>8, <1>p DEF AddObject, LeaveObject, Carriers, Ops, refVars
  <2>2. QueuedOnce' /\ (Queued' <=> Queued)
    BY <2>1, <1>q, PopQueued
  <2>3. UNCHANGED running \/ running' = [running EXCEPT ![s] = Step("storeSector", NoSector)]
    BY <1>8 DEF AddObject, LeaveObject
  <2>4. \A u \in Sectors : Carries(u)' <=> Carries(u)
    <3>1. CASE UNCHANGED running
      BY <3>1 DEF Carries
    <3>2. CASE running' = [running EXCEPT ![s] = Step("storeSector", NoSector)]
      BY <2>1, <3>2, <1>n, OwnStepCarries, Labels DEF CarryPcs
    <3> QED
      BY <2>3, <3>1, <3>2
  <2> QED
    BY <1>k, <2>1, <2>2, <2>4
<1>9. ASSUME StoreSector(s) \/ ResetEntity(s) \/ \E w \in Workers : Update(s, w) PROVE Token'
  <2>1. ~ Carries(s) /\ UNCHANGED <<inbox, inEntities, sectorRefs>>
    BY <1>9, TaskFacts
       DEF StoreSector, ResetEntity, Update, At, Carries, CarryPcs, listVars, refVars
  <2>2. \/ UNCHANGED running \/ running' = [running EXCEPT ![s] = Idle]
        \/ running' = [running EXCEPT ![s] = Step("sendLeave", NoSector)]
    BY <1>9 DEF StoreSector, ResetEntity, Update
  <2>3. \A u \in Sectors : Carries(u)' <=> Carries(u)
    <3>1. CASE UNCHANGED running
      BY <3>1 DEF Carries
    <3>2. CASE running' = [running EXCEPT ![s] = Idle]
      BY <2>1, <3>2, OwnIdleCarries
    <3>3. CASE running' = [running EXCEPT ![s] = Step("sendLeave", NoSector)]
      BY <2>1, <3>3, <1>n, OwnStepCarries, Labels DEF CarryPcs
    <3> QED
      BY <2>2, <3>1, <3>2, <3>3
  <2> QED
    BY <1>k, <1>q, <2>1, <2>3, StayQueued
<1>10. ASSUME LeaveObjectEnqueue(s) \/ AddObjectEnqueue(s) \/ IsSession(s) \/ SendLeave(s) PROVE Token'
  <2>1. ~ Carries(s) /\ UNCHANGED <<inEntities, sectorRefs>>
    BY <1>10 DEF LeaveObjectEnqueue, AddObjectEnqueue, IsSession, SendLeave, Fault, At, Carries, CarryPcs,
                 listVars, refVars
  <2>2. \/ UNCHANGED running \/ running' = [running EXCEPT ![s] = Idle]
        \/ \E pc \in {"addObject", "isSession", "resetEntity"} : running' = [running EXCEPT ![s].pc = pc]
    BY <1>10 DEF LeaveObjectEnqueue, AddObjectEnqueue, IsSession, SendLeave, Fault, sectorVars
  <2>3. \A u \in Sectors : Carries(u)' <=> Carries(u)
    <3>1. CASE UNCHANGED running
      BY <3>1 DEF Carries
    <3>2. CASE running' = [running EXCEPT ![s] = Idle]
      BY <2>1, <3>2, OwnIdleCarries
    <3>3. ASSUME NEW pc \in {"addObject", "isSession", "resetEntity"}, running' = [running EXCEPT ![s].pc = pc]
          PROVE  \A u \in Sectors : Carries(u)' <=> Carries(u)
      <4>1. pc \in Pcs /\ pc \notin CarryPcs
        BY Labels DEF CarryPcs
      <4> QED
        BY <2>1, <3>3, <4>1, OwnPc
    <3> QED
      BY <2>2, <3>1, <3>2, <3>3
  <2>4. \/ UNCHANGED inbox
        \/ \E u \in Sectors, op \in {"LeaveObject", "AddObject", "Leave"} :
             inbox' = Sent(u, Task(op, NoSector))
    <3>1. running[s].pc = "leaveObject" => running[s].sector \in Sectors
      BY DEF Addressed
    <3>2. sectorInfo # NoSector => sectorInfo \in Sectors
      BY DEF Types, Places
    <3> QED
      BY <1>10, <3>1, <3>2
         DEF LeaveObjectEnqueue, AddObjectEnqueue, IsSession, SendLeave, Fault, At, sectorVars
  <2>5. ASSUME NEW u \in Sectors, NEW op \in {"LeaveObject", "AddObject", "Leave"},
               inbox' = Sent(u, Task(op, NoSector))
        PROVE  QueuedOnce' /\ (Queued' <=> Queued)
    <3>1. Task(op, NoSector) \in Tasks /\ Task(op, NoSector).op \notin Carriers
      BY TaskFacts DEF Ops, Carriers
    <3> QED
      BY <1>q, <2>5, <3>1, SendQueued
  <2> QED
    BY <1>k, <1>q, <2>1, <2>3, <2>4, <2>5, StayQueued
<1> QED
  BY <1>1, <1>2, <1>3, <1>4, <1>5, <1>6, <1>7, <1>8, <1>9, <1>10 DEF SectorStep

LEMMA TokenStep == Types /\ Addressed /\ Token /\ [Next]_vars => Token'
<1> SUFFICES ASSUME Types, Addressed, Token, [Next]_vars PROVE Token'
  OBVIOUS
<1>1. CASE UNCHANGED vars
  <2>1. UNCHANGED <<inbox, running, inEntities, sectorRefs, login>>
    BY <1>1 DEF vars, sectorVars, listVars, refVars, callVars
  <2> QED
    BY <2>1, TokenKept, StayQueued DEF Carries, Entering, Token, OnePlace
<1> QED
  BY <1>1, OutsideToken, SectorToken DEF Next

-----------------------------------------------------------------------------
(* A sector runs its own task only.                                        *)
LEMMA OthersKeepRunning ==
  ASSUME Types, NEW s \in Sectors, SectorStep(s)
  PROVE  \A u \in Sectors : u # s => running'[u] = running[u]
<1>1. running \in [Sectors -> [pc : Pcs, sector : Places]]
  BY DEF Types
<1>2. CASE Immigration(s) \/ EraseSession(s) \/ SendArrival(s) \/ Arrive(s) \/ BeginEnter(s)
  BY <1>1, <1>2 DEF Immigration, EraseSession, SendArrival, Arrive, BeginEnter
<1>3. CASE EnterSession(s) \/ EnterEntity(s) \/ LeaveObjectEnqueue(s) \/ AddObjectEnqueue(s) \/ IsSession(s)
  BY <1>1, <1>3
     DEF EnterSession, EnterEntity, LeaveObjectEnqueue, AddObjectEnqueue, IsSession, Fault, sectorVars
<1>4. CASE LeaveAndDisconnect(s) \/ DecRef(s) \/ AddObject(s) \/ StoreSector(s) \/ LeaveObject(s)
  BY <1>1, <1>4 DEF LeaveAndDisconnect, DecRef, AddObject, StoreSector, LeaveObject
<1>5. CASE (\E w \in Workers : Update(s, w)) \/ SendLeave(s) \/ ResetEntity(s)
  BY <1>1, <1>5 DEF Update, SendLeave, ResetEntity, Fault, sectorVars
<1> QED
  BY <1>2, <1>3, <1>4, <1>5 DEF SectorStep

LEMMA ListedStep == Types /\ ListedSessionIsHeld /\ [Next]_vars => ListedSessionIsHeld'
<1> SUFFICES ASSUME Types, ListedSessionIsHeld, [Next]_vars PROVE ListedSessionIsHeld'
  OBVIOUS
<1>1. ASSUME UNCHANGED <<running, inEntities, inSessions>> PROVE ListedSessionIsHeld'
  BY <1>1 DEF ListedSessionIsHeld
<1>2. CASE Login \/ Handler \/ Disconnect \/ OnDisconnected \/ UNCHANGED vars
  <2>1. UNCHANGED <<running, inEntities, inSessions>>
    BY <1>2 DEF Login, LoginCheck, LoginAddObject, LoginEnter, LoginEnqueue, Handler, Move,
                ReadSector, ReadNoSector, MoveNobody, ImmigrationEnqueue, Disconnect, OnDisconnected, SetInvalid,
                ResetPlayer, ReleaseIocpObject, Fault, sectorVars, listVars, vars
  <2> QED
    BY <1>1, <2>1
<1>3. ASSUME NEW s \in Sectors, SectorStep(s) PROVE ListedSessionIsHeld'
  <2>o. inSessions \subseteq Sectors /\ \A u \in Sectors : u # s => running'[u] = running[u]
    BY <1>3, OthersKeepRunning DEF Types
  <2>1. ASSUME UNCHANGED <<inEntities, inSessions>>, running[s].pc \notin {"eraseSession", "addEntity"}
        PROVE  ListedSessionIsHeld'
    BY <2>o, <2>1 DEF ListedSessionIsHeld
  <2>2. CASE Immigration(s) \/ LeaveAndDisconnect(s)
    <3>1. CASE s \in inEntities
      <4>1. \E u \in Places : running' = [running EXCEPT ![s] = Step("eraseSession", u)]
        <5>1. inbox[s] # <<>> /\ inbox' = Popped(s)
          BY <2>2 DEF Immigration, LeaveAndDisconnect, Begins
        <5>2. Head(inbox[s]).sector \in Places /\ NoSector \in Places
          BY <5>1, PopFacts, TaskFacts
        <5> QED
          BY <2>2, <3>1, <5>2 DEF Immigration, LeaveAndDisconnect
      <4>2. running'[s].pc = "eraseSession"
        <5>1. PICK u \in Places : running' = [running EXCEPT ![s] = Step("eraseSession", u)]
          BY <4>1
        <5> QED
          BY <5>1, OwnStepCarries, Labels
      <4>3. inEntities' = inEntities \ {s} /\ UNCHANGED inSessions
        BY <2>2 DEF Immigration, LeaveAndDisconnect
      <4> QED
        BY <2>o, <4>2, <4>3 DEF ListedSessionIsHeld
    <3>2. CASE s \notin inEntities
      <4>1. UNCHANGED <<running, inSessions>> /\ inEntities' = inEntities
        BY <2>2, <3>2 DEF Immigration, LeaveAndDisconnect
      <4> QED
        BY <1>1, <4>1
    <3> QED
      BY <3>1, <3>2
  <2>3. CASE EraseSession(s)
    <3>1. inSessions' = inSessions \ {s} /\ UNCHANGED inEntities
      BY <2>3 DEF EraseSession
    <3> QED
      BY <2>o, <3>1 DEF ListedSessionIsHeld
  <2>4. CASE EnterSession(s)
    <3>1. CASE connected
      <4>1. inSessions' = inSessions \cup {s} /\ UNCHANGED inEntities /\ running'[s].pc = "addEntity"
        BY <2>4, <3>1, OwnPc, Labels DEF EnterSession
      <4> QED
        BY <2>o, <4>1 DEF ListedSessionIsHeld
    <3>2. CASE ~ connected
      BY <2>1, <2>4, <3>2 DEF EnterSession, At
    <3> QED
      BY <3>1, <3>2
  <2>5. CASE EnterEntity(s)
    <3>1. inEntities' = inEntities \cup {s} /\ UNCHANGED inSessions
      BY <2>5 DEF EnterEntity
    <3> QED
      BY <2>o, <3>1 DEF ListedSessionIsHeld
  <2>6. CASE SendArrival(s) \/ Arrive(s) \/ BeginEnter(s) \/ DecRef(s) \/ AddObject(s) \/ LeaveObject(s)
    BY <2>1, <2>6, TaskFacts
       DEF SendArrival, Arrive, BeginEnter, DecRef, AddObject, LeaveObject, Begins, At, listVars
  <2>7. CASE \/ LeaveObjectEnqueue(s) \/ AddObjectEnqueue(s) \/ IsSession(s) \/ StoreSector(s)
             \/ (\E w \in Workers : Update(s, w)) \/ SendLeave(s) \/ ResetEntity(s)
    BY <2>1, <2>7, TaskFacts
       DEF LeaveObjectEnqueue, AddObjectEnqueue, IsSession, StoreSector, Update, SendLeave, ResetEntity, Fault,
           At, listVars
  <2> QED
    BY <1>3, <2>2, <2>3, <2>4, <2>5, <2>6, <2>7 DEF SectorStep
<1> QED
  BY <1>2, <1>3 DEF Next

-----------------------------------------------------------------------------
(* The tasks of a kind that wait, when one is taken and when one is sent.  *)
LEMMA PopAwaits ==
  ASSUME Types, NEW s \in Sectors, inbox[s] # <<>>, inbox' = Popped(s)
  PROVE  /\ \A u \in Sectors : u # s => inbox'[u] = inbox[u]
         /\ \A op \in Ops : /\ Awaits(s, op)' => Awaits(s, op)
                            /\ Awaits(s, op) => Awaits(s, op)' \/ Head(inbox[s]).op = op
         /\ Awaits(s, Head(inbox[s]).op)
         /\ \A t \in Sectors :
              /\ AwaitsFrom(s, t)' => AwaitsFrom(s, t)
              /\ AwaitsFrom(s, t) => \/ AwaitsFrom(s, t)'
                                     \/ Head(inbox[s]).op = "Arrive" /\ Head(inbox[s]).sector = t
<1>1. /\ \A i \in DOMAIN inbox'[s] : i + 1 \in DOMAIN inbox[s] /\ inbox'[s][i] = inbox[s][i + 1]
      /\ 1 \in DOMAIN inbox[s] /\ Head(inbox[s]) = inbox[s][1]
      /\ \A u \in Sectors : u # s => inbox'[u] = inbox[u]
  BY PopFacts
<1>2. \A i \in DOMAIN inbox[s] : i # 1 => i - 1 \in DOMAIN inbox'[s] /\ inbox'[s][i - 1] = inbox[s][i]
  <2> SUFFICES ASSUME NEW i \in DOMAIN inbox[s], i # 1
               PROVE  i - 1 \in DOMAIN inbox'[s] /\ inbox'[s][i - 1] = inbox[s][i]
    OBVIOUS
  <2>1. i \in Nat /\ i >= 1
    BY PopFacts
  <2>2. i - 1 \in Nat /\ i - 1 >= 1 /\ (i - 1) + 1 = i
    BY <2>1
  <2> QED
    BY <2>2, PopFacts
<1> QED
  BY <1>1, <1>2 DEF Awaits, AwaitsFrom

LEMMA SendAwaits ==
  ASSUME Types, NEW s \in Sectors, NEW task \in Tasks, inbox' = Sent(s, task)
  PROVE  \A u \in Sectors :
           /\ \A op \in Ops : Awaits(u, op)' <=> Awaits(u, op) \/ (u = s /\ task.op = op)
           /\ \A t \in Sectors :
                AwaitsFrom(u, t)' <=> \/ AwaitsFrom(u, t)
                                      \/ u = s /\ task.op = "Arrive" /\ task.sector = t
<1> USE SendFacts
<1>1. \A u \in Sectors : u # s => inbox'[u] = inbox[u]
  OBVIOUS
<1>2. \A op \in Ops : Awaits(s, op)' <=> Awaits(s, op) \/ task.op = op
  BY DEF Awaits
<1>3. \A t \in Sectors :
        AwaitsFrom(s, t)' <=> AwaitsFrom(s, t) \/ (task.op = "Arrive" /\ task.sector = t)
  BY DEF AwaitsFrom
<1> QED
  BY <1>1, <1>2, <1>3 DEF Awaits, AwaitsFrom

(* A player who waits nowhere is awaited nowhere.                          *)
LEMMA QueuedAwaits ==
  Types => \A s \in Sectors, op \in Carriers : Awaits(s, op) => Queued
BY DEF Types, Awaits, Queued, Waits

LEMMA InfoKept ==
  ASSUME Info, UNCHANGED sectorInfo, inEntities' \subseteq inEntities,
         Entering' => Entering /\ UNCHANGED login,
         \A u \in Sectors : running'[u].pc \in {"check", "addEntity"} =>
                              running[u].pc \in {"check", "addEntity"} \/ sectorInfo = u,
         \A u \in Sectors : Awaits(u, "Enter")' => Awaits(u, "Enter")
  PROVE  Info'
BY DEF Info

LEMMA OutsideInfo ==
  ASSUME Types, Addressed, Token, Info, Login \/ Handler \/ Disconnect \/ OnDisconnected
  PROVE  Info'
<1>1. ASSUME UNCHANGED <<running, inEntities, sectorInfo>>, Entering' => Entering /\ UNCHANGED login,
             \A u \in Sectors : Awaits(u, "Enter")' => Awaits(u, "Enter")
      PROVE  Info'
  BY <1>1, InfoKept
<1>2. ASSUME UNCHANGED <<sectorVars, inEntities, sectorInfo>>, Entering' => Entering /\ UNCHANGED login
      PROVE  Info'
  BY <1>2, <1>1 DEF sectorVars, Awaits
<1>3. CASE LoginCheck
  <2>1. login.pc = "check"
        /\ (login' = login \/ login' = [login EXCEPT !.pc = "addObject"] \/ login' = [login EXCEPT !.pc = "done"])
    BY <1>3 DEF LoginCheck, Fault, callVars
  <2>2. login'.pc # "enqueue"
    BY <2>1 DEF Types
  <2>3. UNCHANGED <<sectorVars, inEntities, sectorInfo>>
    BY <1>3 DEF LoginCheck, Fault, listVars, whereVars
  <2> QED
    BY <2>2, <2>3, <1>2 DEF Entering
<1>4. ASSUME NEW s \in Sectors, LoginAddObject(s) PROVE Info'
  <2>1. UNCHANGED inbox \/ inbox' = Sent(s, Task("AddObject", NoSector))
    BY <1>4 DEF LoginAddObject, Fault, sectorVars
  <2>2. UNCHANGED <<running, inEntities, sectorInfo>> /\ login'.pc # "enqueue"
    BY <1>4 DEF LoginAddObject, Fault, listVars, whereVars, sectorVars, callVars
  <2>3. Task("AddObject", NoSector) \in Tasks /\ Task("AddObject", NoSector).op # "Enter"
    BY TaskFacts DEF Ops
  <2>4. \A u \in Sectors : Awaits(u, "Enter")' => Awaits(u, "Enter")
    <3>1. CASE UNCHANGED inbox
      BY <3>1 DEF Awaits
    <3>2. CASE inbox' = Sent(s, Task("AddObject", NoSector))
      BY <2>3, <3>2, SendAwaits DEF Ops
    <3> QED
      BY <2>1, <3>1, <3>2
  <2> QED
    BY <1>1, <2>2, <2>4 DEF Entering
<1>5. CASE LoginEnter
  <2>1. ~ Queued /\ ~ Carried /\ ~ Listed
    BY <1>5 DEF LoginEnter, Token
  <2>2. UNCHANGED <<inbox, running, inEntities>> /\ sectorInfo' = login'.room
    BY <1>5 DEF LoginEnter, sectorVars, listVars, Types
  <2>3. \A u \in Sectors : ~ Awaits(u, "Enter")' /\ ~ Carries(u)
    BY <2>1, <2>2, QueuedAwaits DEF Carriers, Awaits, Carried
  <2> QED
    BY <2>1, <2>2, <2>3 DEF Info, Listed, Carries, CarryPcs
<1>6. CASE LoginEnqueue
  <2>1. Entering /\ login'.pc = "done" /\ login.room \in Sectors
    BY <1>6 DEF LoginEnqueue, Entering, Types, Addressed
  <2>2. ~ Queued /\ ~ Carried /\ ~ Listed
    BY <2>1 DEF Token, OnePlace
  <2>3. Task("Enter", NoSector) \in Tasks
    BY TaskFacts DEF Ops
  <2>4. inbox' = Sent(login.room, Task("Enter", NoSector)) /\ UNCHANGED <<running, inEntities, sectorInfo>>
    BY <1>6 DEF LoginEnqueue, listVars, whereVars
  <2>5. \A u \in Sectors : Awaits(u, "Enter")' => u = login.room
    BY <2>1, <2>2, <2>3, <2>4, SendAwaits, QueuedAwaits DEF Carriers, Ops
  <2>6. sectorInfo = login.room
    BY <2>1 DEF Info
  <2> QED
    BY <2>1, <2>2, <2>4, <2>5, <2>6 DEF Info, Entering, Listed, Carried, Carries, CarryPcs
<1>7. CASE ReadSector \/ ReadNoSector \/ MoveNobody \/ Disconnect \/ OnDisconnected
  <2>1. UNCHANGED <<sectorVars, inEntities, sectorInfo, login>>
    BY <1>7 DEF ReadSector, ReadNoSector, MoveNobody, Disconnect, OnDisconnected, SetInvalid, ResetPlayer,
                ReleaseIocpObject, Fault, listVars, whereVars, callVars
  <2> QED
    BY <2>1, <1>2 DEF Entering
<1>8. ASSUME NEW to \in Sectors, ImmigrationEnqueue(to) PROVE Info'
  <2>1. handler.room \in Sectors /\ inbox' = Sent(handler.room, Task("Immigration", to))
        /\ UNCHANGED <<running, inEntities, sectorInfo, login>>
    BY <1>8 DEF ImmigrationEnqueue, Addressed, listVars, whereVars
  <2>2. Task("Immigration", to) \in Tasks /\ Task("Immigration", to).op # "Enter"
    BY TaskFacts DEF Ops
  <2>3. \A u \in Sectors : Awaits(u, "Enter")' => Awaits(u, "Enter")
    BY <2>1, <2>2, SendAwaits DEF Ops
  <2> QED
    BY <1>1, <2>1, <2>3 DEF Entering
<1> QED
  BY <1>3, <1>4, <1>5, <1>6, <1>7, <1>8 DEF Login, Handler, Move

LEMMA InfoStep == Types /\ Addressed /\ Token /\ Info /\ [Next]_vars => Info'
<1> SUFFICES ASSUME Types, Addressed, Token, Info, [Next]_vars PROVE Info'
  OBVIOUS
<1>1. CASE UNCHANGED vars
  <2>1. UNCHANGED <<inbox, running, inEntities, sectorInfo, login>>
    BY <1>1 DEF vars, sectorVars, listVars, whereVars, callVars
  <2> QED
    BY <2>1, InfoKept DEF Awaits, Entering
<1>2. ASSUME NEW s \in Sectors, SectorStep(s) PROVE Info'
  <2>l. UNCHANGED login
    BY <1>2 DEF SectorStep, Immigration, EraseSession, SendArrival, Arrive, BeginEnter, EnterSession,
           EnterEntity, LeaveObjectEnqueue, AddObjectEnqueue, IsSession, LeaveAndDisconnect, DecRef, AddObject,
           StoreSector, LeaveObject, Update, SendLeave, ResetEntity, Fault, callVars
  <2>o. \A u \in Sectors : u # s => running'[u] = running[u]
    BY <1>2, OthersKeepRunning
  <2>n. NoSector \in Places
    BY TaskFacts
  <2>k. ASSUME UNCHANGED sectorInfo, inEntities' \subseteq inEntities,
               running'[s].pc \in {"check", "addEntity"} =>
                 running[s].pc \in {"check", "addEntity"} \/ sectorInfo = s,
               \A u \in Sectors : Awaits(u, "Enter")' => Awaits(u, "Enter")
        PROVE  Info'
    BY <2>k, <2>l, <2>o, InfoKept DEF Entering
  <2>1. CASE Immigration(s) \/ LeaveAndDisconnect(s)
    <3>1. inbox[s] # <<>> /\ inbox' = Popped(s) /\ inEntities' \subseteq inEntities /\ UNCHANGED sectorInfo
      BY <2>1 DEF Immigration, LeaveAndDisconnect, Begins, whereVars
    <3>2. \A u \in Sectors : Awaits(u, "Enter")' => Awaits(u, "Enter")
      BY <3>1, PopAwaits DEF Ops, Awaits
    <3>3. UNCHANGED running \/ \E from \in Places : running' = [running EXCEPT ![s] = Step("eraseSession", from)]
      <4>1. Head(inbox[s]).sector \in Places
        BY <3>1, PopFacts, TaskFacts
      <4> QED
        BY <2>1, <2>n, <4>1 DEF Immigration, LeaveAndDisconnect
    <3>4. running' = running \/ running'[s].pc = "eraseSession"
      <4>1. ASSUME NEW from \in Places, running' = [running EXCEPT ![s] = Step("eraseSession", from)]
            PROVE  running'[s].pc = "eraseSession"
        BY <4>1, OwnStepCarries, Labels
      <4> QED
        BY <3>3, <4>1
    <3> QED
      BY <2>k, <3>1, <3>2, <3>4
  <2>2. CASE EraseSession(s) \/ (EnterSession(s) /\ connected)
    <3>1. UNCHANGED <<inbox, inEntities, sectorInfo>>
      BY <2>2 DEF EraseSession, EnterSession, whereVars
    <3>2. running[s].pc = "check" \/ \E pc \in {"decRef", "sendArrival"} : running' = [running EXCEPT ![s].pc = pc]
      BY <2>2 DEF EraseSession, EnterSession, At
    <3>3. running[s].pc = "check" \/ running'[s].pc \in {"decRef", "sendArrival"}
      <4>1. ASSUME NEW pc \in {"decRef", "sendArrival"}, running' = [running EXCEPT ![s].pc = pc]
            PROVE  running'[s].pc \in {"decRef", "sendArrival"}
        BY <4>1, OwnPc, Labels
      <4> QED
        BY <3>2, <4>1
    <3> QED
      BY <2>k, <3>1, <3>3 DEF Awaits
  <2>3. CASE EnterSession(s) /\ ~ connected
    <3>1. UNCHANGED <<inbox, inEntities, sectorInfo>> /\ running[s].pc = "check"
      BY <2>3 DEF EnterSession, whereVars, At
    <3> QED
      BY <2>k, <3>1 DEF Awaits
  <2>4. CASE SendArrival(s)
    <3>1. /\ running[s].sector \in Sectors /\ inbox' = Sent(running[s].sector, Task("Arrive", s))
          /\ UNCHANGED <<inEntities, sectorInfo>> /\ running' = [running EXCEPT ![s] = Idle]
      BY <2>4 DEF SendArrival, At, Addressed, listVars, whereVars
    <3>2. Task("Arrive", s) \in Tasks /\ Task("Arrive", s).op # "Enter"
      BY TaskFacts DEF Ops
    <3>3. \A u \in Sectors : Awaits(u, "Enter")' => Awaits(u, "Enter")
      BY <3>1, <3>2, SendAwaits DEF Ops
    <3>4. running'[s].pc = "idle"
      BY <3>1, OwnIdleCarries
    <3> QED
      BY <2>k, <3>1, <3>3, <3>4
  <2>5. CASE Arrive(s)
    <3>1. /\ inbox[s] # <<>> /\ inbox' = Popped(s) /\ Head(inbox[s]).op \in Carriers
          /\ UNCHANGED inEntities /\ sectorInfo' = s
      BY <2>5 DEF Arrive, Begins, Carriers, listVars
    <3>2. ~ Queued' /\ ~ Carried /\ ~ Listed /\ ~ Entering
      BY <3>1, PopQueued, Alone DEF Token, OnePlace
    <3>3. \A u \in Sectors : ~ Awaits(u, "Enter")'
      <4>1. inbox' \in [Sectors -> Seq(Tasks)]
        BY <3>1, PopFacts
      <4> QED
        BY <3>2, <4>1 DEF Awaits, Queued, Waits, Carriers
    <3>4. \A u \in Sectors : u # s => running'[u].pc \notin {"check", "addEntity"}
      BY <2>o, <3>2 DEF Carried, Carries, CarryPcs
    <3> QED
      BY <2>l, <3>1, <3>2, <3>3, <3>4 DEF Info, Listed, Entering
  <2>6. CASE BeginEnter(s)
    <3>1. /\ inbox[s] # <<>> /\ inbox' = Popped(s) /\ Head(inbox[s]).op = "Enter"
          /\ UNCHANGED <<inEntities, sectorInfo>>
      BY <2>6 DEF BeginEnter, Begins, listVars, whereVars
    <3>2. sectorInfo = s
      BY <3>1, PopAwaits DEF Info
    <3>3. \A u \in Sectors : Awaits(u, "Enter")' => Awaits(u, "Enter")
      BY <3>1, PopAwaits DEF Ops, Awaits
    <3> QED
      BY <2>k, <3>1, <3>2, <3>3
  <2>7. CASE EnterEntity(s)
    <3>1. running[s].pc = "addEntity" /\ inEntities' = inEntities \cup {s} /\ UNCHANGED <<inbox, sectorInfo>>
      BY <2>7 DEF EnterEntity, At, whereVars
    <3>2. sectorInfo = s
      BY <3>1 DEF Info
    <3> QED
      BY <2>l, <2>o, <3>1, <3>2 DEF Info, Entering, Awaits
  <2>8. CASE AddObject(s) \/ LeaveObject(s)
    <3>1. inbox[s] # <<>> /\ inbox' = Popped(s) /\ UNCHANGED <<inEntities, sectorInfo>>
      BY <2>8 DEF AddObject, LeaveObject, Begins, whereVars
    <3>2. \A u \in Sectors : Awaits(u, "Enter")' => Awaits(u, "Enter")
      BY <3>1, PopAwaits DEF Ops, Awaits
    <3>3. running' = running \/ running' = [running EXCEPT ![s] = Step("storeSector", NoSector)]
      BY <2>8 DEF AddObject, LeaveObject
    <3>4. running' = running \/ running'[s].pc = "storeSector"
      BY <2>n, <3>3, OwnStepCarries, Labels
    <3> QED
      BY <2>k, <3>1, <3>2, <3>4
  <2>9. CASE DecRef(s) \/ StoreSector(s) \/ ResetEntity(s) \/ \E w \in Workers : Update(s, w)
    <3>1. UNCHANGED <<inbox, inEntities, sectorInfo>>
      BY <2>9 DEF DecRef, StoreSector, ResetEntity, Update, listVars, whereVars
    <3>2. \/ running' = running \/ running' = [running EXCEPT ![s] = Idle]
          \/ running' = [running EXCEPT ![s] = Step("sendLeave", NoSector)]
      BY <2>9 DEF DecRef, StoreSector, ResetEntity, Update
    <3>3. running' = running \/ running'[s].pc \in {"idle", "sendLeave"}
      BY <2>n, <3>2, OwnStepCarries, OwnIdleCarries, Labels
    <3> QED
      BY <2>k, <3>1, <3>3 DEF Awaits
  <2>10. CASE LeaveObjectEnqueue(s) \/ AddObjectEnqueue(s) \/ IsSession(s) \/ SendLeave(s)
    <3>1. UNCHANGED <<inEntities, sectorInfo>>
      BY <2>10 DEF LeaveObjectEnqueue, AddObjectEnqueue, IsSession, SendLeave, Fault, listVars, whereVars
    <3>2. \/ UNCHANGED running \/ running' = [running EXCEPT ![s] = Idle]
          \/ \E pc \in {"addObject", "isSession", "resetEntity"} : running' = [running EXCEPT ![s].pc = pc]
      BY <2>10 DEF LeaveObjectEnqueue, AddObjectEnqueue, IsSession, SendLeave, Fault, sectorVars
    <3>3. running' = running \/ running'[s].pc \in {"idle", "addObject", "isSession", "resetEntity"}
      <4>1. ASSUME NEW pc \in {"addObject", "isSession", "resetEntity"}, running' = [running EXCEPT ![s].pc = pc]
            PROVE  running'[s].pc \in {"addObject", "isSession", "resetEntity"}
        BY <4>1, OwnPc, Labels
      <4> QED
        BY <3>2, <4>1, OwnIdleCarries
    <3>4. \/ UNCHANGED inbox
          \/ \E u \in Sectors, op \in {"LeaveObject", "AddObject", "Leave"} :
               inbox' = Sent(u, Task(op, NoSector))
      <4>1. running[s].pc = "leaveObject" => running[s].sector \in Sectors
        BY DEF Addressed
      <4>2. sectorInfo # NoSector => sectorInfo \in Sectors
        BY DEF Types, Places
      <4> QED
        BY <2>10, <4>1, <4>2
           DEF LeaveObjectEnqueue, AddObjectEnqueue, IsSession, SendLeave, Fault, At, sectorVars
    <3>5. ASSUME NEW u \in Sectors, NEW op \in {"LeaveObject", "AddObject", "Leave"},
                 inbox' = Sent(u, Task(op, NoSector))
          PROVE  \A v \in Sectors : Awaits(v, "Enter")' => Awaits(v, "Enter")
      <4>1. Task(op, NoSector) \in Tasks /\ Task(op, NoSector).op # "Enter"
        BY TaskFacts DEF Ops
      <4> QED
        BY <3>5, <4>1, SendAwaits DEF Ops
    <3>6. \A v \in Sectors : Awaits(v, "Enter")' => Awaits(v, "Enter")
      BY <3>4, <3>5 DEF Awaits
    <3> QED
      BY <2>k, <3>1, <3>3, <3>6
  <2> QED
    BY <1>2, <2>1, <2>2, <2>3, <2>4, <2>5, <2>6, <2>7, <2>8, <2>9, <2>10 DEF SectorStep
<1> QED
  BY <1>1, <1>2, OutsideInfo DEF Next

-----------------------------------------------------------------------------
(* What a queue and the lists of a sector lead to, when a task that is not *)
(* about the object is taken or sent, ...                                  *)
ObjectOps == {"AddObject", "LeaveObject"}

LEMMA WillListStays ==
  ASSUME UNCHANGED objectLists, NEW s \in Sectors, inbox'[s] = inbox[s]
  PROVE  WillList(s)' <=> WillList(s)
BY DEF WillList

(* ... the tasks of a queue, counted from the first that is left: ...      *)
LEMMA PopShift ==
  ASSUME Types, NEW s \in Sectors, inbox[s] # <<>>, inbox' = Popped(s)
  PROVE  /\ \A i \in DOMAIN inbox'[s] : /\ i \in Nat /\ i + 1 \in DOMAIN inbox[s]
                                        /\ inbox'[s][i] = inbox[s][i + 1]
         /\ \A i \in DOMAIN inbox[s] :
              /\ i \in Nat /\ i >= 1
              /\ i # 1 => /\ i - 1 \in DOMAIN inbox'[s] /\ inbox'[s][i - 1] = inbox[s][i]
                          /\ i - 1 \in Nat /\ (i - 1) + 1 = i
         /\ 1 \in DOMAIN inbox[s] /\ Head(inbox[s]) = inbox[s][1]
         /\ \A u \in Sectors : u # s => inbox'[u] = inbox[u]
<1>1. \A i \in DOMAIN inbox[s] : i \in Nat /\ i >= 1
  BY PopFacts
<1>2. ASSUME NEW i \in DOMAIN inbox[s], i # 1
      PROVE  /\ i - 1 \in DOMAIN inbox'[s] /\ inbox'[s][i - 1] = inbox[s][i]
             /\ i - 1 \in Nat /\ (i - 1) + 1 = i
  <2>1. i - 1 \in Nat /\ i - 1 >= 1 /\ (i - 1) + 1 = i
    BY <1>1, <1>2
  <2> QED
    BY <2>1, PopFacts
<1> QED
  BY <1>1, <1>2, PopFacts

LEMMA WillListPop ==
  ASSUME Types, UNCHANGED objectLists, NEW s \in Sectors, inbox[s] # <<>>, inbox' = Popped(s),
         Head(inbox[s]).op \notin ObjectOps
  PROVE  \A u \in Sectors : WillList(u)' <=> WillList(u)
<1> USE PopShift DEF ObjectOps
<1>1. ASSUME WillList(s) PROVE WillList(s)'
  <2>1. ASSUME NEW i \in DOMAIN inbox[s], inbox[s][i].op = "AddObject",
               \A j \in DOMAIN inbox[s] : inbox[s][j].op = "LeaveObject" => j < i
        PROVE  WillList(s)'
    <3>1. i # 1
      BY <2>1
    <3>2. i - 1 \in DOMAIN inbox'[s] /\ inbox'[s][i - 1].op = "AddObject"
      BY <2>1, <3>1
    <3>3. \A j \in DOMAIN inbox'[s] : inbox'[s][j].op = "LeaveObject" => j < i - 1
      BY <2>1
    <3> QED
      BY <3>2, <3>3 DEF WillList
  <2>2. ASSUME \A j \in DOMAIN inbox[s] : inbox[s][j].op # "LeaveObject",
               \A w \in Workers : <<s, w>> \in objectLists
        PROVE  WillList(s)'
    BY <2>2 DEF WillList
  <2> QED
    BY <1>1, <2>1, <2>2 DEF WillList
<1>2. ASSUME WillList(s)' PROVE WillList(s)
  <2>1. ASSUME NEW i \in DOMAIN inbox'[s], inbox'[s][i].op = "AddObject",
               \A j \in DOMAIN inbox'[s] : inbox'[s][j].op = "LeaveObject" => j < i
        PROVE  WillList(s)
    <3>1. i + 1 \in DOMAIN inbox[s] /\ inbox[s][i + 1].op = "AddObject"
      BY <2>1
    <3>2. ASSUME NEW j \in DOMAIN inbox[s], inbox[s][j].op = "LeaveObject" PROVE j < i + 1
      <4>1. j # 1
        BY <3>2
      <4>2. j - 1 < i
        BY <2>1, <3>2, <4>1
      <4> QED
        BY <4>2
    <3> QED
      BY <3>1, <3>2 DEF WillList
  <2>2. ASSUME \A j \in DOMAIN inbox'[s] : inbox'[s][j].op # "LeaveObject",
               \A w \in Workers : <<s, w>> \in objectLists'
        PROVE  WillList(s)
    <3>1. \A j \in DOMAIN inbox[s] : inbox[s][j].op # "LeaveObject"
      BY <2>2
    <3> QED
      BY <2>2, <3>1 DEF WillList
  <2> QED
    BY <1>2, <2>1, <2>2 DEF WillList
<1> QED
  BY <1>1, <1>2, WillListStays

LEMMA WillListSend ==
  ASSUME Types, UNCHANGED objectLists, NEW s \in Sectors, NEW task \in Tasks, inbox' = Sent(s, task),
         task.op \notin ObjectOps
  PROVE  \A u \in Sectors : WillList(u)' <=> WillList(u)
<1> DEFINE n == Len(inbox[s]) + 1
<1>0. /\ \A i \in DOMAIN inbox[s] : i \in DOMAIN inbox'[s] /\ inbox'[s][i] = inbox[s][i]
      /\ \A i \in DOMAIN inbox'[s] : i \in DOMAIN inbox[s] \/ i = n
      /\ inbox'[s][n].op \notin ObjectOps
      /\ \A u \in Sectors : u # s => inbox'[u] = inbox[u]
  BY SendFacts
<1> HIDE DEF n
<1>a. \A i \in DOMAIN inbox'[s] : inbox'[s][i].op \in ObjectOps =>
                                   i \in DOMAIN inbox[s] /\ inbox'[s][i] = inbox[s][i]
  BY <1>0
<1>1. WillList(s)' <=> WillList(s)
  <2>1. WillList(s) => WillList(s)'
    BY <1>0, <1>a DEF WillList, ObjectOps
  <2>2. WillList(s)' => WillList(s)
    BY <1>0, <1>a DEF WillList, ObjectOps
  <2> QED
    BY <2>1, <2>2
<1> QED
  BY <1>0, <1>1, WillListStays

(* ... and when the object is added or taken away.                         *)
LEMMA WillListAfterAdd ==
  ASSUME Types, UNCHANGED objectLists, NEW s \in Sectors, NEW task \in Tasks, inbox' = Sent(s, task),
         task.op = "AddObject"
  PROVE  WillList(s)' /\ \A u \in Sectors : u # s => (WillList(u)' <=> WillList(u))
<1>1. WillList(s)'
  BY SendFacts DEF WillList
<1> QED
  BY <1>1, SendFacts, WillListStays

LEMMA WillListAfterLeave ==
  ASSUME Types, UNCHANGED objectLists, NEW s \in Sectors, NEW task \in Tasks, inbox' = Sent(s, task),
         task.op = "LeaveObject"
  PROVE  ~ WillList(s)' /\ \A u \in Sectors : u # s => (WillList(u)' <=> WillList(u))
<1> DEFINE n == Len(inbox[s]) + 1
<1>1. n \in DOMAIN inbox'[s] /\ inbox'[s][n].op = "LeaveObject" /\ n \in Nat
  BY SendFacts
<1>2. \A i \in DOMAIN inbox'[s] : i = n \/ (i \in Nat /\ i < n)
  BY SendFacts
<1> HIDE DEF n
<1>3. ~ WillList(s)'
  BY <1>1, <1>2 DEF WillList
<1> QED
  BY <1>3, SendFacts, WillListStays

LEMMA WillListAdd ==
  ASSUME Types, NEW s \in Sectors, AddObject(s)
  PROVE  \A u \in Sectors : WillList(u)' <=> WillList(u)
<1>0. /\ inbox[s] # <<>> /\ inbox' = Popped(s) /\ Head(inbox[s]).op = "AddObject"
      /\ objectLists' = objectLists \cup ({s} \X Workers)
  BY DEF AddObject, Begins
<1> USE <1>0, PopShift
<1>1. ASSUME NEW u \in Sectors, u # s PROVE WillList(u)' <=> WillList(u)
  <2>1. inbox'[u] = inbox[u] /\ \A w \in Workers : <<u, w>> \in objectLists' <=> <<u, w>> \in objectLists
    BY <1>1
  <2> QED
    BY <2>1 DEF WillList
<1>w. \A w \in Workers : <<s, w>> \in objectLists'
  OBVIOUS
<1>2. ASSUME WillList(s) PROVE WillList(s)'
  <2>1. CASE \E j \in DOMAIN inbox'[s] : inbox'[s][j].op = "LeaveObject"
    <3>1. PICK l \in DOMAIN inbox'[s] : inbox'[s][l].op = "LeaveObject"
      BY <2>1
    <3>2. l + 1 \in DOMAIN inbox[s] /\ inbox[s][l + 1].op = "LeaveObject" /\ l \in Nat
      BY <3>1
    <3>3. PICK i \in DOMAIN inbox[s] :
            /\ inbox[s][i].op = "AddObject"
            /\ \A j \in DOMAIN inbox[s] : inbox[s][j].op = "LeaveObject" => j < i
      BY <1>2, <3>2 DEF WillList
    <3>4. i # 1
      BY <3>2, <3>3
    <3>5. i - 1 \in DOMAIN inbox'[s] /\ inbox'[s][i - 1].op = "AddObject"
      BY <3>3, <3>4
    <3>6. \A j \in DOMAIN inbox'[s] : inbox'[s][j].op = "LeaveObject" => j < i - 1
      BY <3>3
    <3> QED
      BY <3>5, <3>6 DEF WillList
  <2>2. CASE \A j \in DOMAIN inbox'[s] : inbox'[s][j].op # "LeaveObject"
    BY <1>w, <2>2 DEF WillList
  <2> QED
    BY <2>1, <2>2
<1>3. ASSUME WillList(s)' PROVE WillList(s)
  <2>1. ASSUME NEW i \in DOMAIN inbox'[s], inbox'[s][i].op = "AddObject",
               \A j \in DOMAIN inbox'[s] : inbox'[s][j].op = "LeaveObject" => j < i
        PROVE  WillList(s)
    <3>1. i + 1 \in DOMAIN inbox[s] /\ inbox[s][i + 1].op = "AddObject"
      BY <2>1
    <3>2. ASSUME NEW j \in DOMAIN inbox[s], inbox[s][j].op = "LeaveObject" PROVE j < i + 1
      <4>1. j # 1
        BY <3>2
      <4>2. j - 1 < i
        BY <2>1, <3>2, <4>1
      <4> QED
        BY <4>2
    <3> QED
      BY <3>1, <3>2 DEF WillList
  <2>2. ASSUME \A j \in DOMAIN inbox'[s] : inbox'[s][j].op # "LeaveObject" PROVE WillList(s)
    <3>1. \A j \in DOMAIN inbox[s] : inbox[s][j].op # "LeaveObject"
      BY <2>2
    <3> QED
      BY <3>1 DEF WillList
  <2> QED
    BY <1>3, <2>1, <2>2 DEF WillList
<1> QED
  BY <1>1, <1>2, <1>3

LEMMA WillListLeave ==
  ASSUME Types, NEW s \in Sectors, LeaveObject(s)
  PROVE  \A u \in Sectors : WillList(u)' <=> WillList(u)
<1>0. /\ inbox[s] # <<>> /\ inbox' = Popped(s) /\ Head(inbox[s]).op = "LeaveObject"
      /\ objectLists' = objectLists \ ({s} \X Workers)
  BY DEF LeaveObject, Begins
<1> USE <1>0, PopShift
<1>1. ASSUME NEW u \in Sectors, u # s PROVE WillList(u)' <=> WillList(u)
  <2>1. inbox'[u] = inbox[u] /\ \A w \in Workers : <<u, w>> \in objectLists' <=> <<u, w>> \in objectLists
    BY <1>1
  <2> QED
    BY <2>1 DEF WillList
<1>2. ASSUME WillList(s) PROVE WillList(s)'
  <2>1. PICK i \in DOMAIN inbox[s] :
          /\ inbox[s][i].op = "AddObject"
          /\ \A j \in DOMAIN inbox[s] : inbox[s][j].op = "LeaveObject" => j < i
    BY <1>2 DEF WillList
  <2>2. i # 1
    BY <2>1
  <2>3. i - 1 \in DOMAIN inbox'[s] /\ inbox'[s][i - 1].op = "AddObject"
    BY <2>1, <2>2
  <2>4. \A j \in DOMAIN inbox'[s] : inbox'[s][j].op = "LeaveObject" => j < i - 1
    BY <2>1
  <2> QED
    BY <2>3, <2>4 DEF WillList
<1>3. ASSUME WillList(s)' PROVE WillList(s)
  <2>1. PICK i \in DOMAIN inbox'[s] :
          /\ inbox'[s][i].op = "AddObject"
          /\ \A j \in DOMAIN inbox'[s] : inbox'[s][j].op = "LeaveObject" => j < i
    BY <1>3, SectorAssumption DEF WillList
  <2>2. i + 1 \in DOMAIN inbox[s] /\ inbox[s][i + 1].op = "AddObject" /\ i \in Nat
    BY <2>1
  <2>3. ASSUME NEW j \in DOMAIN inbox[s], inbox[s][j].op = "LeaveObject" PROVE j < i + 1
    <3>1. CASE j = 1
      BY <2>1, <2>2, <3>1
    <3>2. CASE j # 1
      <4>1. j - 1 < i
        BY <2>1, <2>3, <3>2
      <4> QED
        BY <2>2, <4>1
    <3> QED
      BY <3>1, <3>2
  <2> QED
    BY <2>2, <2>3 DEF WillList
<1> QED
  BY <1>1, <1>2, <1>3

-----------------------------------------------------------------------------
(* The login and the handlers leave the object where the player is.        *)
LEMMA CallsFollow ==
  ASSUME Types, Addressed, Follow, connected, Login \/ Handler
  PROVE  Follow'
<1>f. /\ valid /\ hasPlayer /\ \A u \in Sectors : WillList(u) <=> Home(u)
      /\ ~ MoveNobody
  BY DEF Follow, MoveNobody
<1>1. ASSUME UNCHANGED <<running, inEntities, objectLists, valid, hasPlayer>>,
             \A u \in Sectors : Awaits(u, "Leave")' => Awaits(u, "Leave"),
             \A u \in Sectors : WillList(u)' <=> Home(u)'
      PROVE  Follow'
  BY <1>1 DEF Follow, NobodyLeaves
<1>2. ASSUME UNCHANGED <<inbox, running, inEntities, objectLists, valid, hasPlayer>>,
             \A u \in Sectors : login'.pc \in {"enter", "enqueue"} /\ login'.room = u <=>
                                login.pc \in {"enter", "enqueue"} /\ login.room = u
      PROVE  Follow'
  <2>1. \A u \in Sectors : Home(u)' <=> Home(u)
    BY <1>2 DEF Home, Awaits, AwaitsFrom
  <2>2. \A u \in Sectors : WillList(u)' <=> WillList(u)
    BY <1>2, WillListStays
  <2> QED
    BY <1>1, <1>2, <1>f, <2>1, <2>2 DEF Awaits
<1>3. CASE LoginCheck
  <2>1. login.pc = "check" /\ login' = [login EXCEPT !.pc = "addObject"]
        /\ UNCHANGED <<inbox, running, inEntities, objectLists, valid, hasPlayer>>
    BY <1>3 DEF LoginCheck, sectorVars, listVars, playerVars
  <2>2. login'.pc = "addObject"
    BY <2>1 DEF Types
  <2> QED
    BY <1>2, <2>1, <2>2
<1>4. ASSUME NEW s \in Sectors, LoginAddObject(s) PROVE Follow'
  <2>1. /\ login.pc = "addObject" /\ login'.pc = "enter" /\ login'.room = s
        /\ inbox' = Sent(s, Task("AddObject", NoSector))
        /\ UNCHANGED <<running, inEntities, objectLists, valid, hasPlayer>>
    BY <1>4, <1>f DEF LoginAddObject, listVars, playerVars
  <2>2. Task("AddObject", NoSector) \in Tasks /\ Task("AddObject", NoSector).op = "AddObject"
    BY TaskFacts DEF Ops
  <2>3. \A u \in Sectors : /\ Awaits(u, "Leave")' <=> Awaits(u, "Leave")
                           /\ Awaits(u, "Enter")' <=> Awaits(u, "Enter")
                           /\ \A t \in Sectors : AwaitsFrom(u, t)' <=> AwaitsFrom(u, t)
    BY <2>1, <2>2, SendAwaits DEF Ops
  <2>4. WillList(s)' /\ \A u \in Sectors : u # s => (WillList(u)' <=> WillList(u))
    BY <2>1, <2>2, WillListAfterAdd
  <2>5. Home(s)' /\ \A u \in Sectors : u # s => (Home(u)' <=> Home(u))
    BY <2>1, <2>3 DEF Home
  <2> QED
    BY <1>1, <1>f, <2>1, <2>3, <2>4, <2>5
<1>5. CASE LoginEnter
  <2>1. /\ login.pc = "enter" /\ login'.pc = "enqueue" /\ login'.room = login.room
        /\ UNCHANGED <<inbox, running, inEntities, objectLists, valid, hasPlayer>>
    BY <1>5 DEF LoginEnter, Types, sectorVars, listVars, playerVars
  <2> QED
    BY <1>2, <2>1
<1>6. CASE LoginEnqueue
  <2>1. /\ login.pc = "enqueue" /\ login'.pc = "done" /\ login.room \in Sectors
        /\ inbox' = Sent(login.room, Task("Enter", NoSector))
        /\ UNCHANGED <<running, inEntities, objectLists, valid, hasPlayer>>
    BY <1>6 DEF LoginEnqueue, Types, Addressed, listVars, playerVars
  <2>2. Task("Enter", NoSector) \in Tasks /\ Task("Enter", NoSector).op = "Enter"
    BY TaskFacts DEF Ops
  <2>3. \A u \in Sectors : /\ Awaits(u, "Leave")' <=> Awaits(u, "Leave")
                           /\ Awaits(u, "Enter")' <=> Awaits(u, "Enter") \/ u = login.room
                           /\ \A t \in Sectors : AwaitsFrom(u, t)' <=> AwaitsFrom(u, t)
    BY <2>1, <2>2, SendAwaits DEF Ops
  <2>4. \A u \in Sectors : WillList(u)' <=> WillList(u)
    BY <2>1, <2>2, WillListSend DEF ObjectOps
  <2>5. \A u \in Sectors : Home(u)' <=> Home(u)
    BY <2>1, <2>3 DEF Home
  <2> QED
    BY <1>1, <1>f, <2>1, <2>3, <2>4, <2>5
<1>7. CASE ReadSector \/ ReadNoSector
  <2>1. UNCHANGED <<inbox, running, inEntities, objectLists, valid, hasPlayer, login>>
    BY <1>7 DEF ReadSector, ReadNoSector, Fault, sectorVars, listVars, playerVars, callVars
  <2> QED
    BY <1>2, <2>1
<1>8. ASSUME NEW to \in Sectors, ImmigrationEnqueue(to) PROVE Follow'
  <2>1. /\ handler.room \in Sectors /\ inbox' = Sent(handler.room, Task("Immigration", to))
        /\ UNCHANGED <<running, inEntities, objectLists, valid, hasPlayer, login>>
    BY <1>8 DEF ImmigrationEnqueue, Addressed, listVars, playerVars
  <2>2. Task("Immigration", to) \in Tasks /\ Task("Immigration", to).op = "Immigration"
    BY TaskFacts DEF Ops
  <2>3. \A u \in Sectors : /\ Awaits(u, "Leave")' <=> Awaits(u, "Leave")
                           /\ Awaits(u, "Enter")' <=> Awaits(u, "Enter")
                           /\ \A t \in Sectors : AwaitsFrom(u, t)' <=> AwaitsFrom(u, t)
    BY <2>1, <2>2, SendAwaits DEF Ops
  <2>4. \A u \in Sectors : WillList(u)' <=> WillList(u)
    BY <2>1, <2>2, WillListSend DEF ObjectOps
  <2>5. \A u \in Sectors : Home(u)' <=> Home(u)
    BY <2>1, <2>3 DEF Home
  <2> QED
    BY <1>1, <1>f, <2>1, <2>3, <2>4, <2>5
<1> QED
  BY <1>f, <1>3, <1>4, <1>5, <1>6, <1>7, <1>8 DEF Login, Handler, Move

(* Nor does a sector, which hands it over with the player.                 *)
LEMMA SectorFollow ==
  ASSUME Types, Addressed, Token, Follow, connected, NEW s \in Sectors, SectorStep(s)
  PROVE  Follow'
<1>f. /\ valid /\ hasPlayer /\ NobodyLeaves /\ \A u \in Sectors : WillList(u) <=> Home(u)
      /\ \A u \in Sectors : running[u].pc \in {"leaveObject", "addObject", "isSession"} => u \in inEntities
      /\ \A u \in Sectors : \A w, v \in Workers : <<u, w>> \in objectLists => <<u, v>> \in objectLists
  BY DEF Follow
<1>n. NoSector \in Places /\ NoSector \notin Sectors
  BY TaskFacts
<1>l. UNCHANGED <<login, valid, hasPlayer>>
  BY DEF SectorStep, Immigration, EraseSession, SendArrival, Arrive, BeginEnter, EnterSession,
         EnterEntity, LeaveObjectEnqueue, AddObjectEnqueue, IsSession, LeaveAndDisconnect, DecRef, AddObject,
         StoreSector, LeaveObject, Update, SendLeave, ResetEntity, Fault, callVars, playerVars
<1>o. \A u \in Sectors : u # s => running'[u] = running[u]
  BY OthersKeepRunning
<1>k. ASSUME running'[s].pc \notin {"sendLeave", "resetEntity", "decRef"},
             running'[s].pc = "eraseSession" => running'[s].sector \in Sectors,
             running'[s].pc \in {"leaveObject", "addObject", "isSession"} => s \in inEntities',
             inEntities \ {s} \subseteq inEntities',
             \A u \in Sectors : \A w, v \in Workers : <<u, w>> \in objectLists' => <<u, v>> \in objectLists',
             \A u \in Sectors : Awaits(u, "Leave")' => Awaits(u, "Leave"),
             \A u \in Sectors : WillList(u)' <=> Home(u)'
      PROVE  Follow'
  <2>1. NobodyLeaves'
    BY <1>f, <1>o, <1>k DEF NobodyLeaves
  <2>2. \A u \in Sectors : running'[u].pc \in {"leaveObject", "addObject", "isSession"} => u \in inEntities'
    BY <1>f, <1>o, <1>k
  <2> QED
    BY <1>f, <1>l, <1>k, <2>1, <2>2 DEF Follow
<1>p. ASSUME NEW op \in Ops, Begins(s, op)
      PROVE  /\ inbox[s] # <<>> /\ Head(inbox[s]).op = op /\ running[s].pc = "idle"
             /\ Head(inbox[s]).sector \in Places
  <2>1. inbox[s] # <<>> /\ Head(inbox[s]).op = op /\ running[s].pc = "idle"
    BY <1>p, TaskFacts DEF Begins
  <2>2. inbox[s] \in Seq(Tasks)
    BY DEF Types
  <2>3. Head(inbox[s]) \in Tasks
    BY <2>1, <2>2
  <2> QED
    BY <2>1, <2>3, TaskFacts
<1>w. UNCHANGED <<inbox, objectLists>> => \A u \in Sectors : WillList(u)' <=> WillList(u)
  BY WillListStays
<1>1. CASE Immigration(s)
  <2>1. /\ inbox[s] # <<>> /\ inbox' = Popped(s) /\ Head(inbox[s]).op = "Immigration"
        /\ running[s].pc = "idle" /\ inEntities' = inEntities \ {s} /\ UNCHANGED objectLists
        /\ Head(inbox[s]).sector \in Places
    BY <1>1, <1>p DEF Immigration, Ops
  <2>2. Head(inbox[s]).sector \in Sectors
    BY <2>1, PopFacts DEF Addressed
  <2>3. \A u \in Sectors : /\ Awaits(u, "Leave")' <=> Awaits(u, "Leave")
                           /\ Awaits(u, "Enter")' <=> Awaits(u, "Enter")
                           /\ \A t \in Sectors : AwaitsFrom(u, t)' <=> AwaitsFrom(u, t)
    BY <2>1, PopAwaits DEF Ops, Awaits, AwaitsFrom
  <2>4. \A u \in Sectors : WillList(u)' <=> WillList(u)
    BY <2>1, WillListPop DEF ObjectOps
  <2>5. CASE s \in inEntities
    <3>1. running'[s].pc = "eraseSession" /\ running'[s].sector \in Sectors
      <4>1. PICK to \in Sectors : to = Head(inbox[s]).sector
        BY <2>2
      <4>2. running' = [running EXCEPT ![s] = Step("eraseSession", to)] /\ to \in Places
        BY <1>1, <2>1, <2>5, <4>1 DEF Immigration
      <4> QED
        BY <4>2, OwnStepCarries, Labels
    <3>2. \A u \in Sectors : Home(u)' <=> Home(u)
      <4>1. Home(s) /\ Home(s)'
        BY <2>1, <2>5, <3>1 DEF Home
      <4>2. \A u \in Sectors : u # s => (Home(u)' <=> Home(u))
        BY <1>l, <1>o, <2>1, <2>3, <3>1 DEF Home
      <4> QED
        BY <4>1, <4>2
    <3> QED
      BY <1>f, <1>k, <2>1, <2>3, <2>4, <3>1, <3>2
  <2>6. CASE s \notin inEntities
    <3>1. UNCHANGED <<running, inEntities>>
      BY <1>1, <2>1, <2>6 DEF Immigration
    <3>2. \A u \in Sectors : Home(u)' <=> Home(u)
      BY <1>l, <2>3, <3>1 DEF Home
    <3> QED
      BY <1>f, <1>k, <2>1, <2>3, <2>4, <3>1, <3>2
  <2> QED
    BY <2>5, <2>6
<1>2. CASE EraseSession(s)
  <2>1. /\ running[s].pc = "eraseSession" /\ running[s].sector # NoSector
        /\ UNCHANGED <<inbox, inEntities, objectLists>>
    BY <1>2, <1>f, <1>n DEF EraseSession, At, NobodyLeaves
  <2>2. running'[s].pc = "sendArrival"
    BY <1>2, <2>1, OwnPc, Labels DEF EraseSession
  <2>3. \A u \in Sectors : Home(u)' <=> Home(u)
    BY <1>l, <1>o, <2>1, <2>2 DEF Home, Awaits, AwaitsFrom
  <2> QED
    BY <1>f, <1>k, <1>w, <2>1, <2>2, <2>3 DEF Awaits
<1>3. CASE SendArrival(s)
  <2>1. /\ running[s].pc = "sendArrival" /\ running[s].sector \in Sectors
        /\ inbox' = Sent(running[s].sector, Task("Arrive", s))
        /\ running' = [running EXCEPT ![s] = Idle] /\ UNCHANGED <<inEntities, objectLists>>
    BY <1>3 DEF SendArrival, At, listVars, Addressed
  <2>2. running'[s].pc = "idle"
    BY <2>1, OwnIdleCarries
  <2>3. /\ Task("Arrive", s) \in Tasks /\ Task("Arrive", s).op = "Arrive" /\ Task("Arrive", s).sector = s
    BY TaskFacts DEF Ops
  <2>4. \A u \in Sectors : /\ Awaits(u, "Leave")' <=> Awaits(u, "Leave")
                           /\ Awaits(u, "Enter")' <=> Awaits(u, "Enter")
                           /\ \A t \in Sectors : AwaitsFrom(u, t)' <=>
                                AwaitsFrom(u, t) \/ (u = running[s].sector /\ t = s)
    BY <2>1, <2>3, SendAwaits DEF Ops
  <2>5. \A u \in Sectors : WillList(u)' <=> WillList(u)
    BY <2>1, <2>3, WillListSend DEF ObjectOps
  <2>6. \A u \in Sectors : Home(u)' <=> Home(u)
    <3>1. Home(s) /\ Home(s)'
      BY <2>1, <2>4 DEF Home
    <3>2. \A u \in Sectors : u # s => (Home(u)' <=> Home(u))
      BY <1>l, <1>o, <2>1, <2>2, <2>4 DEF Home
    <3> QED
      BY <3>1, <3>2
  <2> QED
    BY <1>f, <1>k, <2>1, <2>2, <2>4, <2>5, <2>6
<1>4. CASE Arrive(s)
  <2>1. /\ inbox[s] # <<>> /\ inbox' = Popped(s) /\ Head(inbox[s]).op = "Arrive"
        /\ running[s].pc = "idle" /\ UNCHANGED <<inEntities, objectLists>>
        /\ Head(inbox[s]).sector \in Places
    BY <1>4, <1>p DEF Arrive, Ops, listVars
  <2>2. PICK before \in Sectors : before = Head(inbox[s]).sector
    <3>1. Head(inbox[s]).sector \in Sectors
      BY <2>1, PopFacts DEF Addressed
    <3> QED
      BY <3>1
  <2>3. running'[s].pc = "check" /\ running'[s].sector = before /\ before # NoSector
    <3>1. running' = [running EXCEPT ![s] = Step("check", before)] /\ before \in Places
      BY <1>4, <2>1, <2>2 DEF Arrive
    <3> QED
      BY <1>n, <3>1, OwnStepCarries, Labels
  <2>4. \A u \in Sectors : /\ Awaits(u, "Leave")' <=> Awaits(u, "Leave")
                           /\ Awaits(u, "Enter")' <=> Awaits(u, "Enter")
    BY <2>1, PopAwaits DEF Ops, Awaits
  <2>5. \A u, t \in Sectors : /\ AwaitsFrom(u, t)' => AwaitsFrom(u, t)
                              /\ AwaitsFrom(u, t) => AwaitsFrom(u, t)' \/ t = before
    BY <2>1, <2>2, PopAwaits DEF AwaitsFrom
  <2>6. AwaitsFrom(s, before)
    BY <2>1, <2>2, PopFacts DEF AwaitsFrom
  <2>7. \A u \in Sectors : WillList(u)' <=> WillList(u)
    BY <2>1, WillListPop DEF ObjectOps
  <2>8. s \notin inEntities
    <3>1. Queued
      BY <2>1, PopQueued DEF Carriers, Token, OnePlace
    <3> QED
      BY <3>1, Alone DEF Listed
  <2>9. \A u \in Sectors : Home(u)' <=> Home(u)
    <3>1. Home(before) /\ Home(before)'
      BY <2>2, <2>3, <2>6 DEF Home
    <3>2. \A u \in Sectors : u # before => (Home(u)' <=> Home(u))
      <4>1. \A u \in Sectors : u # before =>
              \A t \in Sectors : AwaitsFrom(t, u)' <=> AwaitsFrom(t, u)
        BY <2>5
      <4> QED
        BY <1>l, <1>o, <2>1, <2>3, <2>4, <2>8, <4>1 DEF Home
    <3> QED
      BY <3>1, <3>2
  <2> QED
    BY <1>f, <1>k, <2>1, <2>3, <2>4, <2>7, <2>9
<1>5. CASE BeginEnter(s)
  <2>1. /\ inbox[s] # <<>> /\ inbox' = Popped(s) /\ Head(inbox[s]).op = "Enter"
        /\ running[s].pc = "idle" /\ UNCHANGED <<inEntities, objectLists>>
    BY <1>5, <1>p DEF BeginEnter, Ops, listVars
  <2>2. running'[s].pc = "check" /\ running'[s].sector = NoSector
    BY <1>5, <1>n, OwnStepCarries, Labels DEF BeginEnter
  <2>3. \A u \in Sectors : /\ Awaits(u, "Leave")' <=> Awaits(u, "Leave")
                           /\ u # s => (Awaits(u, "Enter")' <=> Awaits(u, "Enter"))
                           /\ \A t \in Sectors : AwaitsFrom(u, t)' <=> AwaitsFrom(u, t)
    BY <2>1, PopAwaits DEF Ops, Awaits, AwaitsFrom
  <2>4. \A u \in Sectors : WillList(u)' <=> WillList(u)
    BY <2>1, WillListPop DEF ObjectOps
  <2>5. \A u \in Sectors : Home(u)' <=> Home(u)
    <3>1. Home(s) /\ Home(s)'
      BY <2>1, <2>2, PopAwaits DEF Home
    <3>2. \A u \in Sectors : u # s => (Home(u)' <=> Home(u))
      BY <1>l, <1>n, <1>o, <2>1, <2>2, <2>3 DEF Home
    <3> QED
      BY <3>1, <3>2
  <2> QED
    BY <1>f, <1>k, <2>1, <2>2, <2>3, <2>4, <2>5
<1>6. CASE EnterSession(s)
  <2>1. /\ running[s].pc = "check" /\ running' = [running EXCEPT ![s].pc = "addEntity"]
        /\ UNCHANGED <<inbox, inEntities, objectLists>>
    BY <1>6 DEF EnterSession, At
  <2>2. running'[s].pc = "addEntity" /\ running'[s].sector = running[s].sector
    BY <2>1, OwnPc, Labels
  <2>3. \A u \in Sectors : Home(u)' <=> Home(u)
    BY <1>l, <1>o, <2>1, <2>2 DEF Home, Awaits, AwaitsFrom
  <2> QED
    BY <1>f, <1>k, <1>w, <2>1, <2>2, <2>3 DEF Awaits
<1>7. CASE EnterEntity(s)
  <2>1. /\ running[s].pc = "addEntity" /\ running' = [running EXCEPT ![s] = AfterEnter(s)]
        /\ inEntities' = inEntities \cup {s} /\ UNCHANGED <<inbox, objectLists>>
    BY <1>7 DEF EnterEntity, At
  <2>2. \A u \in Sectors : u \notin inEntities
    BY <2>1, Alone DEF Carries, CarryPcs, Listed
  <2>3. CASE running[s].sector = NoSector
    <3>1. running'[s].pc = "idle" /\ running'[s].sector = NoSector
      BY <2>1, <2>3, OwnIdleCarries DEF AfterEnter
    <3>2. \A u \in Sectors : Home(u)' <=> Home(u)
      <4>1. Home(s) /\ Home(s)'
        BY <2>1, <2>3, <3>1 DEF Home
      <4>2. \A u \in Sectors : u # s => (Home(u)' <=> Home(u))
        BY <1>l, <1>n, <1>o, <2>1, <2>3, <3>1 DEF Home, Awaits, AwaitsFrom
      <4> QED
        BY <4>1, <4>2
    <3> QED
      BY <1>f, <1>k, <1>w, <2>1, <3>1, <3>2 DEF Awaits
  <2>4. CASE running[s].sector # NoSector
    <3>1. running'[s].pc = "leaveObject" /\ running'[s].sector = running[s].sector
      <4>1. running[s].sector \in Places
        BY DEF Types
      <4> QED
        BY <2>1, <2>4, <4>1, OwnStepCarries, Labels DEF AfterEnter
    <3>2. \A u \in Sectors : Home(u)' <=> Home(u)
      BY <1>l, <1>o, <2>1, <2>2, <2>4, <3>1 DEF Home, Awaits, AwaitsFrom
    <3> QED
      BY <1>f, <1>k, <1>w, <2>1, <3>1, <3>2 DEF Awaits
  <2> QED
    BY <2>3, <2>4
<1>a. ASSUME running[s].pc \in {"leaveObject", "addObject", "isSession"}
      PROVE  /\ inEntities = {s} /\ ~ Queued /\ ~ Carried /\ ~ Freed
             /\ login.pc \notin {"enter", "enqueue"}
             /\ \A u \in Sectors : u # s => running[u].pc \notin {"leaveObject", "addObject", "isSession"}
  <2>1. inEntities = {s} /\ ~ Queued /\ ~ Carried /\ ~ Entering /\ sectorRefs = 1
    BY <1>f, <1>a, Alone
  <2> QED
    BY <1>f, <2>1 DEF Token, Entering, Freed
<1>8. CASE LeaveObjectEnqueue(s)
  <2>0. running[s].pc = "leaveObject"
    BY <1>8 DEF LeaveObjectEnqueue, At
  <2>b. PICK before \in Sectors : before = running[s].sector
    BY <2>0 DEF Addressed
  <2>1. /\ inbox' = Sent(before, Task("LeaveObject", NoSector))
        /\ running' = [running EXCEPT ![s].pc = "addObject"] /\ UNCHANGED <<inEntities, objectLists>>
    BY <1>8, <1>a, <2>0, <2>b DEF LeaveObjectEnqueue, listVars
  <2>2. running'[s].pc = "addObject"
    BY <2>1, OwnPc, Labels
  <2>3. Task("LeaveObject", NoSector) \in Tasks /\ Task("LeaveObject", NoSector).op = "LeaveObject"
    BY TaskFacts DEF Ops
  <2>4. \A u \in Sectors : /\ Awaits(u, "Leave")' <=> Awaits(u, "Leave")
                           /\ Awaits(u, "Enter")' <=> Awaits(u, "Enter")
                           /\ \A t \in Sectors : AwaitsFrom(u, t)' <=> AwaitsFrom(u, t)
    BY <2>0, <2>1, <2>3, SendAwaits DEF Ops
  <2>5. /\ ~ WillList(before)'
        /\ \A u \in Sectors : u # before => (WillList(u)' <=> WillList(u))
    BY <2>0, <2>1, <2>3, WillListAfterLeave
  <2>6. \A u \in Sectors : ~ Awaits(u, "Enter")' /\ \A t \in Sectors : ~ AwaitsFrom(u, t)'
    <3>1. \A u \in Sectors : ~ Awaits(u, "Enter") /\ ~ Awaits(u, "Arrive")
      BY <1>a, <2>0, QueuedAwaits DEF Carriers
    <3> QED
      BY <2>4, <3>1 DEF Awaits, AwaitsFrom
  <2>7. \A u \in Sectors : /\ running'[u].pc \notin CarryPcs
                           /\ running'[u].pc # "leaveObject"
    BY <1>a, <1>o, <2>0, <2>2 DEF Carried, Carries, CarryPcs
  <2>8. \A u \in Sectors : ~ Home(u)'
    BY <1>a, <1>l, <2>0, <2>1, <2>2, <2>6, <2>7 DEF Home, CarryPcs
  <2>9. \A u \in Sectors : u # before => ~ Home(u)
    <3>1. \A u \in Sectors : ~ Awaits(u, "Enter") /\ \A t \in Sectors : ~ AwaitsFrom(u, t)
      BY <2>4, <2>6
    <3>2. \A u \in Sectors : running[u].pc \notin CarryPcs
      BY <1>a, <2>0 DEF Carried, Carries
    <3> QED
      BY <1>a, <2>0, <2>b, <3>1, <3>2 DEF Home, CarryPcs
  <2> QED
    BY <1>f, <1>k, <1>a, <2>0, <2>1, <2>2, <2>4, <2>5, <2>8, <2>9
<1>9. CASE AddObjectEnqueue(s)
  <2>0. running[s].pc = "addObject"
    BY <1>9 DEF AddObjectEnqueue, At
  <2>1. /\ running' = [running EXCEPT ![s].pc = "isSession"]
        /\ UNCHANGED <<inbox, inEntities, objectLists>>
    BY <1>9, <1>a, <1>f, <2>0 DEF AddObjectEnqueue, listVars
  <2>2. running'[s].pc = "isSession"
    BY <2>1, OwnPc, Labels
  <2>3. \A u \in Sectors : Home(u)' <=> Home(u)
    BY <1>l, <1>o, <2>0, <2>1, <2>2 DEF Home, Awaits, AwaitsFrom
  <2>4. s \in inEntities
    BY <1>f, <2>0
  <2> QED
    BY <1>f, <1>k, <1>w, <2>1, <2>2, <2>3, <2>4 DEF Awaits
<1>14. CASE IsSession(s)
  <2>0. running[s].pc = "isSession"
    BY <1>14 DEF IsSession, At
  <2>a. CASE ~ ownerRef
    <3>1. UNCHANGED <<inbox, running, inEntities, objectLists>>
      BY <1>14, <2>a DEF IsSession, Fault, sectorVars, listVars
    <3>2. \A u \in Sectors : Home(u)' <=> Home(u)
      BY <1>l, <3>1 DEF Home, Awaits, AwaitsFrom
    <3>3. s \in inEntities
      BY <1>f, <2>0
    <3> QED
      BY <1>f, <1>k, <1>w, <2>0, <3>1, <3>2, <3>3 DEF Awaits
  <2>b. CASE ownerRef
    <3>1. /\ inbox' = Sent(s, Task("AddObject", NoSector))
          /\ running' = [running EXCEPT ![s] = Idle] /\ UNCHANGED <<inEntities, objectLists>>
      BY <1>14, <2>b DEF IsSession, listVars
    <3>2. running'[s].pc = "idle"
      BY <3>1, OwnIdleCarries
    <3>3. Task("AddObject", NoSector) \in Tasks /\ Task("AddObject", NoSector).op = "AddObject"
      BY TaskFacts DEF Ops
    <3>4. \A u \in Sectors : /\ Awaits(u, "Leave")' <=> Awaits(u, "Leave")
                             /\ Awaits(u, "Enter")' <=> Awaits(u, "Enter")
                             /\ \A t \in Sectors : AwaitsFrom(u, t)' <=> AwaitsFrom(u, t)
      BY <3>1, <3>3, SendAwaits DEF Ops
    <3>5. WillList(s)' /\ \A u \in Sectors : u # s => (WillList(u)' <=> WillList(u))
      BY <3>1, <3>3, WillListAfterAdd
    <3>6. Home(s)'
      BY <1>f, <2>0, <3>1, <3>2 DEF Home
    <3>7. \A u \in Sectors : u # s => (Home(u)' <=> Home(u))
      BY <1>l, <1>o, <2>0, <3>1, <3>2, <3>4 DEF Home
    <3> QED
      BY <1>f, <1>k, <3>1, <3>2, <3>4, <3>5, <3>6, <3>7
  <2> QED
    BY <2>a, <2>b
<1>10. CASE AddObject(s)
  <2>1. /\ inbox[s] # <<>> /\ inbox' = Popped(s) /\ Head(inbox[s]).op = "AddObject"
        /\ running[s].pc = "idle" /\ UNCHANGED inEntities
        /\ objectLists' = objectLists \cup ({s} \X Workers)
    BY <1>10, <1>p DEF AddObject, Ops
  <2>2. running'[s].pc = "storeSector"
    BY <1>10, <1>n, OwnStepCarries, Labels DEF AddObject
  <2>3. \A u \in Sectors : /\ Awaits(u, "Leave")' <=> Awaits(u, "Leave")
                           /\ Awaits(u, "Enter")' <=> Awaits(u, "Enter")
                           /\ \A t \in Sectors : AwaitsFrom(u, t)' <=> AwaitsFrom(u, t)
    BY <2>1, PopAwaits DEF Ops, Awaits, AwaitsFrom
  <2>4. \A u \in Sectors : Home(u)' <=> Home(u)
    BY <1>l, <1>o, <2>1, <2>2, <2>3 DEF Home
  <2>5. \A u \in Sectors : \A w, v \in Workers : <<u, w>> \in objectLists' => <<u, v>> \in objectLists'
    BY <1>f, <2>1
  <2> QED
    BY <1>f, <1>k, <1>10, <2>1, <2>2, <2>3, <2>4, <2>5, WillListAdd
<1>11. CASE StoreSector(s)
  <2>1. /\ running[s].pc = "storeSector" /\ running' = [running EXCEPT ![s] = Idle]
        /\ UNCHANGED <<inbox, inEntities, objectLists>>
    BY <1>11 DEF StoreSector, At, listVars
  <2>2. running'[s].pc = "idle"
    BY <2>1, OwnIdleCarries
  <2>3. \A u \in Sectors : Home(u)' <=> Home(u)
    BY <1>l, <1>o, <2>1, <2>2 DEF Home, Awaits, AwaitsFrom
  <2> QED
    BY <1>f, <1>k, <1>w, <2>1, <2>2, <2>3 DEF Awaits
<1>12. CASE LeaveObject(s)
  <2>1. /\ inbox[s] # <<>> /\ inbox' = Popped(s) /\ Head(inbox[s]).op = "LeaveObject"
        /\ running[s].pc = "idle" /\ UNCHANGED <<running, inEntities>>
        /\ objectLists' = objectLists \ ({s} \X Workers)
    BY <1>12, <1>p DEF LeaveObject, Ops
  <2>2. \A u \in Sectors : /\ Awaits(u, "Leave")' <=> Awaits(u, "Leave")
                           /\ Awaits(u, "Enter")' <=> Awaits(u, "Enter")
                           /\ \A t \in Sectors : AwaitsFrom(u, t)' <=> AwaitsFrom(u, t)
    BY <2>1, PopAwaits DEF Ops, Awaits, AwaitsFrom
  <2>3. \A u \in Sectors : Home(u)' <=> Home(u)
    BY <1>l, <2>1, <2>2 DEF Home
  <2>4. \A u \in Sectors : \A w, v \in Workers : <<u, w>> \in objectLists' => <<u, v>> \in objectLists'
    BY <1>f, <2>1
  <2> QED
    BY <1>f, <1>k, <1>12, <2>1, <2>2, <2>3, <2>4, WillListLeave
<1>13. ~ LeaveAndDisconnect(s) /\ ~ DecRef(s) /\ ~ SendLeave(s) /\ ~ ResetEntity(s)
       /\ \A w \in Workers : ~ Update(s, w)
  <2>1. ~ LeaveAndDisconnect(s)
    BY <1>f, <1>p, PopAwaits, PopFacts
       DEF LeaveAndDisconnect, NobodyLeaves, Begins, Ops, Awaits
  <2> QED
    BY <1>f, <2>1 DEF DecRef, SendLeave, ResetEntity, Update, NobodyLeaves, At
<1> QED
  BY <1>1, <1>2, <1>3, <1>4, <1>5, <1>6, <1>7, <1>8, <1>9, <1>10, <1>11, <1>12, <1>13, <1>14
     DEF SectorStep

LEMMA FollowStays == ASSUME Follow, UNCHANGED vars PROVE Follow'
<1>1. UNCHANGED <<inbox, running, inEntities, objectLists, login>>
  BY DEF vars, sectorVars, listVars, callVars
<1>2. UNCHANGED connected /\ UNCHANGED hasPlayer /\ UNCHANGED valid
  BY DEF vars, playerVars
<1>3. \A u \in Sectors : (WillList(u)' <=> WillList(u)) /\ (Home(u)' <=> Home(u))
  BY <1>1, WillListStays DEF Home, Awaits, AwaitsFrom
<1> QED
  BY <1>1, <1>2, <1>3 DEF Follow, NobodyLeaves, Awaits

LEMMA FollowStep == Types /\ Addressed /\ Token /\ Follow /\ [Next]_vars => Follow'
<1> SUFFICES ASSUME Types, Addressed, Token, Follow, [Next]_vars, connected' PROVE Follow'
  BY DEF Follow
<1>1. CASE UNCHANGED vars
  BY <1>1, FollowStays
<1>2. CASE Login \/ Handler
  <2>1. connected
    BY <1>2 DEF Login, LoginCheck, LoginAddObject, LoginEnter, LoginEnqueue, Handler, Move, ReadSector, ReadNoSector,
                MoveNobody, ImmigrationEnqueue, Fault, playerVars
  <2> QED
    BY <1>2, <2>1, CallsFollow
<1>3. CASE Disconnect \/ OnDisconnected
  <2>1. ~ Disconnect /\ connected
    BY <1>3 DEF Disconnect, OnDisconnected, SetInvalid, ResetPlayer, ReleaseIocpObject, playerVars
  <2> QED
    BY <1>3, <2>1 DEF Follow, OnDisconnected, SetInvalid, ResetPlayer, ReleaseIocpObject, playerVars,
                      sectorVars, listVars, callVars, NobodyLeaves, WillList, Home, Awaits, AwaitsFrom
<1>4. ASSUME NEW s \in Sectors, SectorStep(s) PROVE Follow'
  <2>1. connected
    BY <1>4 DEF SectorStep, Immigration, EraseSession, SendArrival, Arrive, BeginEnter, EnterSession,
           EnterEntity, LeaveObjectEnqueue, AddObjectEnqueue, IsSession, LeaveAndDisconnect, DecRef, AddObject,
           StoreSector, LeaveObject, Update, SendLeave, ResetEntity, Fault, playerVars
  <2> QED
    BY <1>4, <2>1, SectorFollow
<1> QED
  BY <1>1, <1>2, <1>3, <1>4 DEF Next

-----------------------------------------------------------------------------
LEMMA InitInv == Init => IInv
<1> SUFFICES ASSUME Init PROVE IInv
  OBVIOUS
<1>i. /\ inbox = [s \in Sectors |-> <<>>] /\ running = [s \in Sectors |-> Idle]
      /\ inEntities = {} /\ inSessions = {} /\ objectLists = {}
      /\ sectorRefs = 0 /\ login = [pc |-> "check", room |-> NoSector]
      /\ handler = [pc |-> "idle", room |-> NoSector]
  BY DEF Init
<1>1. \A s \in Sectors : DOMAIN inbox[s] = {} /\ running[s].pc = "idle"
  BY <1>i, TaskFacts
<1>2. Types
  <2>1. inbox \in [Sectors -> Seq(Tasks)] /\ running \in [Sectors -> [pc : Pcs, sector : Places]]
    BY <1>i, TaskFacts
  <2>2. /\ login \in [pc : {"check", "addObject", "enter", "enqueue", "done"}, room : Places]
        /\ handler \in [pc : {"idle", "move"}, room : Places]
    BY <1>i, TaskFacts
  <2>3. moves \in 0..MaxMoves /\ sectorInfo \in Places /\ curSector \in Places
    BY SectorAssumption, TaskFacts DEF Init
  <2> QED
    BY <1>i, <2>1, <2>2, <2>3 DEF Init, Types
<1>3. Addressed
  BY <1>i, <1>1 DEF Addressed
<1>4. Token
  BY <1>i, <1>1
     DEF Token, OnePlace, QueuedOnce, Queued, Carried, Carries, CarryPcs, Listed, Entering, Waits
<1>5. ListedSessionIsHeld
  BY <1>i DEF ListedSessionIsHeld
<1>6. Info
  BY <1>i, <1>1 DEF Info, Entering, Awaits
<1>7. Follow
  <2>1. \A s \in Sectors : ~ WillList(s)
    BY <1>i, <1>1, SectorAssumption DEF WillList
  <2>2. \A s \in Sectors : ~ Home(s)
    BY <1>i, <1>1 DEF Home, Awaits, AwaitsFrom
  <2>3. NobodyLeaves
    BY <1>1 DEF NobodyLeaves, Awaits
  <2>4. valid /\ hasPlayer
    BY DEF Init
  <2> QED
    BY <1>i, <1>1, <2>1, <2>2, <2>3, <2>4 DEF Follow
<1> QED
  BY <1>2, <1>3, <1>4, <1>5, <1>6, <1>7 DEF IInv

LEMMA Invariance == SafetySpec => []IInv
<1>1. IInv /\ [Next]_vars => IInv'
  BY TypesStep, AddressedStep, TokenStep, ListedStep, InfoStep, FollowStep DEF IInv
<1> QED
  BY <1>1, InitInv, PTL DEF SafetySpec

(* Type correctness: queues, running tasks, lists, references and histories *)
(* stay what the code declares, and the sectors never hold a second        *)
(* reference to the session.                                               *)
THEOREM TypeCorrect == SafetySpec => []TypeOK
<1>1. IInv => TypeOK
  BY DEF IInv, Types, Token, TypeOK, Pcs, Tasks
<1> QED
  BY <1>1, Invariance, PTL

(* One reference, one place: the reference EnterEnqueue takes belongs to   *)
(* the entity list of one sector or to one task on its way, through all    *)
(* migrations, disconnects and updates.                                    *)
THEOREM OneReference == SafetySpec => []OneReferenceOnePlace
<1>1. ASSUME IInv PROVE OneReferenceOnePlace
  <2> USE <1>1 DEF IInv
  <2>1. Cardinality(inEntities) = IF Listed THEN 1 ELSE 0
    <3>1. CASE ~ Listed
      BY <3>1, FS_EmptySet DEF Listed
    <3>2. CASE Listed
      <4>1. PICK s \in Sectors : inEntities = {s}
        BY <3>2 DEF Listed, Token, OnePlace, Types
      <4>2. Cardinality({s}) = 1
        BY FS_Singleton
      <4> QED
        BY <3>2, <4>1, <4>2
    <3> QED
      BY <3>1, <3>2
  <2>2. Cardinality(Carrying) = IF Carried THEN 1 ELSE 0
    <3>0. Carrying = {s \in Sectors : Carries(s)}
      BY DEF Carrying, Carries, CarryPcs
    <3>1. CASE ~ Carried
      <4>1. Carrying = {}
        BY <3>0, <3>1 DEF Carried
      <4> QED
        BY <3>1, <4>1, FS_EmptySet
    <3>2. CASE Carried
      <4>1. PICK s \in Sectors : Carries(s)
        BY <3>2 DEF Carried
      <4>2. Carrying = {s}
        BY <3>0, <4>1 DEF Token, OnePlace
      <4>3. Cardinality({s}) = 1
        BY FS_Singleton
      <4> QED
        BY <3>2, <4>2, <4>3
    <3> QED
      BY <3>1, <3>2
  <2>3. Cardinality(Waiting) = IF Queued THEN 1 ELSE 0
    <3>0. /\ \A s \in Sectors, i \in Nat : Waits(s, i) => <<s, i>> \in Waiting
          /\ \A p \in Waiting : \E s \in Sectors, i \in Nat : p = <<s, i>> /\ Waits(s, i)
      BY DEF Waiting, Waits, Types
    <3>1. CASE ~ Queued
      <4>1. Waiting = {}
        BY <3>0, <3>1 DEF Queued
      <4> QED
        BY <3>1, <4>1, FS_EmptySet
    <3>2. CASE Queued
      <4>1. PICK s \in Sectors, i \in Nat : Waits(s, i)
        BY <3>2 DEF Queued
      <4>2. \A u \in Sectors, j \in Nat : Waits(u, j) => u = s /\ j = i
        BY <4>1 DEF Token, OnePlace, QueuedOnce
      <4>3. Waiting = {<<s, i>>}
        BY <3>0, <4>1, <4>2
      <4>4. Cardinality({<<s, i>>}) = 1
        BY FS_Singleton
      <4> QED
        BY <3>2, <4>3, <4>4
    <3> QED
      BY <3>1, <3>2
  <2>4. \/ Listed /\ ~ Queued /\ ~ Carried /\ ~ Entering /\ sectorRefs = 1
        \/ ~ Listed /\ Queued /\ ~ Carried /\ ~ Entering /\ sectorRefs = 1
        \/ ~ Listed /\ ~ Queued /\ Carried /\ ~ Entering /\ sectorRefs = 1
        \/ ~ Listed /\ ~ Queued /\ ~ Carried /\ Entering /\ sectorRefs = 1
        \/ ~ Listed /\ ~ Queued /\ ~ Carried /\ ~ Entering /\ sectorRefs = 0
    BY DEF Token, OnePlace
  <2> QED
    BY <2>1, <2>2, <2>3, <2>4 DEF OneReferenceOnePlace, Holders, Entering
<1> QED
  BY <1>1, Invariance, PTL

(* A session in m_linkedHashMapForSession, which broadcasts follow without *)
(* a reference, is kept alive by the sector that lists it.                 *)
THEOREM ListedSessions == SafetySpec => []ListedSessionIsHeld
<1>1. IInv => ListedSessionIsHeld
  BY DEF IInv
<1> QED
  BY <1>1, Invariance, PTL

(* GetCurSector leads to the sector whose entity list has the player.      *)
THEOREM CurrentSector == SafetySpec => []SectorInfoIsCurrent
<1>1. IInv => SectorInfoIsCurrent
  BY DEF IInv, Info, SectorInfoIsCurrent
<1> QED
  BY <1>1, Invariance, PTL

(* Once no task is under way, the object lists of all threads have a       *)
(* connected player in the sector of its entity and nowhere else, however  *)
(* the LeaveObject and AddObject of its migrations were interleaved.       *)
THEOREM ObjectsFollow == SafetySpec => []ObjectsFollowTheEntity
<1>1. ASSUME IInv, Settled, connected PROVE objectLists = inEntities \X Workers
  <2>1. \A s \in Sectors : DOMAIN inbox[s] = {} /\ running[s].pc = "idle"
    BY <1>1, TaskFacts DEF Settled
  <2>2. \A s \in Sectors : WillList(s) <=> \A w \in Workers : <<s, w>> \in objectLists
    BY <2>1 DEF WillList
  <2>3. \A s \in Sectors : Home(s) <=> s \in inEntities
    BY <1>1, <2>1 DEF Home, Awaits, AwaitsFrom, Settled
  <2>4. /\ \A s \in Sectors : WillList(s) <=> Home(s)
        /\ \A s \in Sectors : \A w, v \in Workers : <<s, w>> \in objectLists => <<s, v>> \in objectLists
        /\ objectLists \subseteq Sectors \X Workers /\ inEntities \subseteq Sectors
    BY <1>1 DEF IInv, Follow, Types
  <2>5. \A s \in Sectors, w \in Workers : <<s, w>> \in objectLists <=> s \in inEntities
    <3> TAKE s \in Sectors, w \in Workers
    <3>1. <<s, w>> \in objectLists => WillList(s)
      BY <2>2, <2>4
    <3>2. WillList(s) => <<s, w>> \in objectLists
      BY <2>2
    <3>3. WillList(s) <=> s \in inEntities
      BY <2>3, <2>4
    <3> QED
      BY <3>1, <3>2, <3>3
  <2> QED
    BY <2>4, <2>5
<1>2. IInv => ObjectsFollowTheEntity
  BY <1>1 DEF ObjectsFollowTheEntity
<1> QED
  BY <1>2, Invariance, PTL
===============================================================================
