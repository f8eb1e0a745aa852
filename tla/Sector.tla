--------------------------------- MODULE Sector ---------------------------------
(***************************************************************************)
(* One player in the sectors of the world: entering at login, migrating    *)
(* from sector to sector, and leaving after the connection is lost.        *)
(*                                                                         *)
(* A sector is an actor (ServerCore/Sector.cpp, TRWorldRoom.cpp): its      *)
(* tasks run one at a time in the order of their submission, which is what *)
(* SerialMailbox promises. Tasks of different sectors, the handlers of the *)
(* session (c2s_PacketHandler.cpp), its login (ClientSession.cpp) and the  *)
(* end of its connection run at once.                                      *)
(*                                                                         *)
(* Players meet only in the lists of a sector, under its lock or within    *)
(* its tasks, so one player stands for all. A step the code would take     *)
(* through a null pointer or a freed session sets fault and ends the       *)
(* behaviour.                                                              *)
(***************************************************************************)
EXTENDS Integers, Sequences, FiniteSets

CONSTANTS
  Sectors,
  NoSector,    (* nullptr                                                  *)
  Workers,     (* the threads that execute tasks                           *)
  MaxMoves     (* bound: packets that may move the player                  *)

ASSUME SectorAssumption ==
  /\ IsFiniteSet(Sectors) /\ Sectors # {} /\ NoSector \notin Sectors
  /\ Workers # {}
  /\ MaxMoves \in Nat

VARIABLES
  inbox,        (* per sector, the tasks that wait                         *)
  running,      (* per sector, the rest of the task that runs              *)
  inEntities,   (* the sectors with the player in m_linkedHashMapForIocpEntity *)
  inSessions,   (* the same for m_linkedHashMapForSession                  *)
  objectLists,  (* the <<sector, worker>> with it in m_worldObjectList     *)
  sectorInfo,   (* IocpEntity::m_CurrentSectorInfo                         *)
  curSector,    (* Object::m_pCurSector                                    *)
  sectorRefs,   (* references to the session that sectors account for      *)
  ownerRef,     (* Object::m_pOwnerEntity is set                           *)
  ioRef,        (* operations and handlers hold references                 *)
  connected,    (* m_bConnected                                            *)
  hasPlayer,    (* ClientSession::m_pPlayer is set                         *)
  valid,        (* Object::m_bIsValid                                      *)
  login,        (* what DB_PlayerLogin::Dispatch does next, and its start_room *)
  handler,      (* what the packet handler does next, and its session_room *)
  moves,        (* packets handled                                         *)
  declined,     (* history: AddObjectEnqueue found the object invalid      *)
  fault         (* history: what was dereferenced, "none" if nothing was   *)

sectorVars == <<inbox, running>>
listVars   == <<inEntities, inSessions, objectLists>>
whereVars  == <<sectorInfo, curSector>>
refVars    == <<sectorRefs, ownerRef, ioRef>>
playerVars == <<connected, hasPlayer, valid>>
callVars   == <<login, handler, moves>>
histVars   == <<declined, fault>>
vars == <<sectorVars, listVars, whereVars, refVars, playerVars, callVars, histVars>>

Task(op, s) == [op |-> op, sector |-> s]
Step(pc, s) == [pc |-> pc, sector |-> s]
Idle == Step("idle", NoSector)

(* After ExecuteQuery has made the player, when its event is dispatched.   *)
Init ==
  /\ inbox = [s \in Sectors |-> <<>>]
  /\ running = [s \in Sectors |-> Idle]
  /\ inEntities = {} /\ inSessions = {} /\ objectLists = {}
  /\ sectorInfo = NoSector /\ curSector = NoSector
  /\ sectorRefs = 0 /\ ownerRef = TRUE /\ ioRef = TRUE
  /\ connected = TRUE /\ hasPlayer = TRUE /\ valid = TRUE
  /\ login = [pc |-> "check", room |-> NoSector]
  /\ handler = [pc |-> "idle", room |-> NoSector]
  /\ moves = 0
  /\ declined = FALSE /\ fault = "none"

(* The session is destroyed with its last reference.                       *)
Freed == sectorRefs = 0 /\ ~ ownerRef /\ ~ ioRef

Fault(what) ==
  /\ fault' = what
  /\ UNCHANGED <<sectorVars, listVars, whereVars, refVars, playerVars, callVars, declined>>

(* Sector s begins a task op by taking it out of the queue.                *)
Begins(s, op) ==
  /\ fault = "none"
  /\ running[s] = Idle
  /\ inbox[s] # <<>> /\ Head(inbox[s]).op = op

(* Sector s is at pc of the task it runs.                                  *)
At(s, pc) == fault = "none" /\ running[s].pc = pc

Popped(s)     == [inbox EXCEPT ![s] = Tail(@)]
Sent(s, task) == [inbox EXCEPT ![s] = Append(@, task)]

-----------------------------------------------------------------------------
(* DB_PlayerLogin::Dispatch, its first test: the client may be gone, and   *)
(* its player reset.                                                       *)
LoginCheck ==
  /\ fault = "none" /\ login.pc = "check"
  /\ IF connected
     THEN /\ login' = [login EXCEPT !.pc = "addObject"]
          /\ UNCHANGED <<sectorVars, listVars, whereVars, refVars, playerVars, handler, moves, histVars>>
     ELSE IF hasPlayer
     THEN /\ ownerRef' = FALSE
          /\ login' = [login EXCEPT !.pc = "done"]
          /\ UNCHANGED <<sectorVars, listVars, whereVars, sectorRefs, ioRef, playerVars,
                         handler, moves, histVars>>
     ELSE Fault("player")

(* AddObjectEnqueue on the sector of the starting point. Only an object    *)
(* that is valid is added; in no list yet, it keeps its owner.             *)
LoginAddObject(s) ==
  /\ fault = "none" /\ login.pc = "addObject"
  /\ IF hasPlayer
     THEN /\ inbox' = IF valid THEN Sent(s, Task("AddObject", NoSector)) ELSE inbox
          /\ declined' = (declined \/ ~ valid)
          /\ login' = [pc |-> "enter", room |-> s]
          /\ UNCHANGED <<running, listVars, whereVars, refVars, playerVars, handler, moves, fault>>
     ELSE Fault("player")

(* Mutant: the login takes a reference of its own, as the call that is     *)
(* commented out before it did.                                            *)
LoginIncRef ==
  /\ fault = "none" /\ login.pc = "enter"
  /\ sectorRefs' = sectorRefs + 2
  /\ sectorInfo' = login.room
  /\ login' = [login EXCEPT !.pc = "enqueue"]
  /\ UNCHANGED <<sectorVars, listVars, curSector, ownerRef, ioRef, playerVars,
                 handler, moves, histVars>>

(* EnterEnqueue: the reference of the sectors, and where the player is.    *)
LoginEnter ==
  /\ fault = "none" /\ login.pc = "enter"
  /\ sectorRefs' = sectorRefs + 1
  /\ sectorInfo' = login.room
  /\ login' = [login EXCEPT !.pc = "enqueue"]
  /\ UNCHANGED <<sectorVars, listVars, curSector, ownerRef, ioRef, playerVars,
                 handler, moves, histVars>>

LoginEnqueue ==
  /\ fault = "none" /\ login.pc = "enqueue"
  /\ inbox' = Sent(login.room, Task("Enter", NoSector))
  /\ login' = [login EXCEPT !.pc = "done"]
  /\ UNCHANGED <<running, listVars, whereVars, refVars, playerVars, handler, moves, histVars>>

-----------------------------------------------------------------------------
(* A packet that moves the player: the handler reads the current sector... *)
ReadSector ==
  /\ fault = "none" /\ handler.pc = "idle"
  /\ ioRef /\ sectorInfo # NoSector
  /\ moves < MaxMoves
  /\ handler' = [pc |-> "move", room |-> sectorInfo]
  /\ moves' = moves + 1
  /\ UNCHANGED <<sectorVars, listVars, whereVars, refVars, playerVars, login, histVars>>

(* There is none before LoginEnter: Handle_c2s_TRY_NEW_ROOM uses it        *)
(* untested.                                                               *)
ReadNoSector ==
  /\ fault = "none" /\ handler.pc = "idle"
  /\ ioRef /\ sectorInfo = NoSector
  /\ moves < MaxMoves
  /\ Fault("sector")

(* ... and later asks it to hand the player over to another one, or, when  *)
(* the world is changed, to any one.                                       *)
ImmigrationEnqueue(to) ==
  /\ fault = "none" /\ handler.pc = "move" /\ hasPlayer
  /\ inbox' = Sent(handler.room, Task("Immigration", to))
  /\ handler' = [handler EXCEPT !.pc = "idle", !.room = NoSector]
  /\ UNCHANGED <<running, listVars, whereVars, refVars, playerVars, login, moves, histVars>>

(* The player was reset meanwhile: Handle_c2s_MOVE uses it untested,       *)
(* ImigrationWorldChunk tests it and returns.                              *)
MoveNobody ==
  /\ fault = "none" /\ handler.pc = "move" /\ ~ hasPlayer
  /\ \/ Fault("player")
     \/ /\ handler' = [handler EXCEPT !.pc = "idle", !.room = NoSector]
        /\ UNCHANGED <<sectorVars, listVars, whereVars, refVars, playerVars, login, moves, histVars>>

-----------------------------------------------------------------------------
(* The connection ends at any time; then, in the completion of the         *)
(* disconnect, OnDisconnected; and then no operation is left.              *)
Disconnect ==
  /\ fault = "none" /\ connected
  /\ connected' = FALSE
  /\ UNCHANGED <<sectorVars, listVars, whereVars, refVars, hasPlayer, valid, callVars, histVars>>

SetInvalid ==
  /\ fault = "none" /\ ~ connected /\ valid
  /\ valid' = FALSE
  /\ UNCHANGED <<sectorVars, listVars, whereVars, refVars, connected, hasPlayer, callVars, histVars>>

ResetPlayer ==
  /\ fault = "none" /\ ~ valid /\ hasPlayer
  /\ hasPlayer' = FALSE
  /\ UNCHANGED <<sectorVars, listVars, whereVars, refVars, connected, valid, callVars, histVars>>

ReleaseIocpObject ==
  /\ fault = "none" /\ ~ hasPlayer /\ ioRef
  /\ handler.pc = "idle" /\ login.pc = "done"
  /\ ioRef' = FALSE
  /\ UNCHANGED <<sectorVars, listVars, whereVars, sectorRefs, ownerRef, playerVars, callVars, histVars>>

-----------------------------------------------------------------------------
(* Mutant: the item is found and not extracted.                            *)
FindAndImmigrate(s) ==
  /\ Begins(s, "Immigration")
  /\ inbox' = Popped(s)
  /\ running' = IF s \in inEntities
                THEN [running EXCEPT ![s] = Step("eraseSession", Head(inbox[s]).sector)]
                ELSE running
  /\ UNCHANGED <<listVars, whereVars, refVars, playerVars, callVars, histVars>>

(* Sector::Immigration: the player leaves both lists, and a task for the   *)
(* other sector takes the reference along.                                 *)
Immigration(s) ==
  /\ Begins(s, "Immigration")
  /\ inbox' = Popped(s)
  /\ inEntities' = inEntities \ {s}
  /\ running' = IF s \in inEntities
                THEN [running EXCEPT ![s] = Step("eraseSession", Head(inbox[s]).sector)]
                ELSE running
  /\ UNCHANGED <<inSessions, objectLists, whereVars, refVars, playerVars, callVars, histVars>>

(* Of Immigration or LeaveAndDisconnect.                                   *)
EraseSession(s) ==
  /\ At(s, "eraseSession")
  /\ inSessions' = inSessions \ {s}
  /\ running' = [running EXCEPT ![s].pc =
                   IF running[s].sector = NoSector THEN "decRef" ELSE "sendArrival"]
  /\ UNCHANGED <<inbox, inEntities, objectLists, whereVars, refVars, playerVars, callVars, histVars>>

SendArrival(s) ==
  /\ At(s, "sendArrival")
  /\ inbox' = Sent(running[s].sector, Task("Arrive", s))
  /\ running' = [running EXCEPT ![s] = Idle]
  /\ UNCHANGED <<listVars, whereVars, refVars, playerVars, callVars, histVars>>

(* Mutant: the task that arrives forgets SetSectorInfo.                     *)
ArriveUnnoticed(s) ==
  /\ Begins(s, "Arrive")
  /\ inbox' = Popped(s)
  /\ running' = [running EXCEPT ![s] = Step("check", Head(inbox[s]).sector)]
  /\ UNCHANGED <<listVars, whereVars, refVars, playerVars, callVars, histVars>>

(* The task it sent: SetSectorInfo, then Enter, then                       *)
(* TRWorldRoom::ImigrationAfterBehavior.                                   *)
Arrive(s) ==
  /\ Begins(s, "Arrive")
  /\ inbox' = Popped(s)
  /\ running' = [running EXCEPT ![s] = Step("check", Head(inbox[s]).sector)]
  /\ sectorInfo' = s
  /\ UNCHANGED <<listVars, curSector, refVars, playerVars, callVars, histVars>>

BeginEnter(s) ==
  /\ Begins(s, "Enter")
  /\ inbox' = Popped(s)
  /\ running' = [running EXCEPT ![s] = Step("check", NoSector)]
  /\ UNCHANGED <<listVars, whereVars, refVars, playerVars, callVars, histVars>>

(* What follows Enter: the before sector is known only when migrating.     *)
AfterEnter(s) ==
  IF running[s].sector = NoSector THEN Idle ELSE Step("leaveObject", running[s].sector)

(* Sector::Enter: a session that is no longer connected is let go.         *)
EnterSession(s) ==
  /\ At(s, "check")
  /\ IF connected
     THEN /\ inSessions' = inSessions \cup {s}
          /\ running' = [running EXCEPT ![s].pc = "addEntity"]
          /\ UNCHANGED sectorRefs
     ELSE /\ sectorRefs' = sectorRefs - 1
          /\ running' = [running EXCEPT ![s] = AfterEnter(s)]
          /\ UNCHANGED inSessions
  /\ UNCHANGED <<inbox, inEntities, objectLists, whereVars, ownerRef, ioRef,
                 playerVars, callVars, histVars>>

EnterEntity(s) ==
  /\ At(s, "addEntity")
  /\ inEntities' = inEntities \cup {s}
  /\ running' = [running EXCEPT ![s] = AfterEnter(s)]
  /\ UNCHANGED <<inbox, inSessions, objectLists, whereVars, refVars, playerVars, callVars, histVars>>

(* Who holds the object apart from its session.                            *)
ObjectHeld ==
  \/ hasPlayer \/ objectLists # {}
  \/ \E s \in Sectors : \/ running[s].pc \in {"isSession", "sendLeave", "resetEntity", "storeSector"}
                        \/ \E i \in DOMAIN inbox[s] : inbox[s][i].op = "AddObject"

LeaveObjectEnqueue(s) ==
  /\ At(s, "leaveObject")
  /\ IF Freed
     THEN Fault("session")
     ELSE /\ inbox' = Sent(running[s].sector, Task("LeaveObject", NoSector))
          /\ running' = [running EXCEPT ![s].pc = "addObject"]
          /\ UNCHANGED <<listVars, whereVars, refVars, playerVars, callVars, histVars>>

AddObjectEnqueue(s) ==
  /\ At(s, "addObject")
  /\ IF Freed /\ ~ ObjectHeld
     THEN Fault("session")
     ELSE /\ declined' = (declined \/ ~ valid)
          /\ running' = IF valid THEN [running EXCEPT ![s].pc = "isSession"]
                        ELSE [running EXCEPT ![s] = Idle]
          /\ UNCHANGED <<inbox, listVars, whereVars, refVars, playerVars, callVars, fault>>

(* AddObjectEnqueue goes on: it asks the owner whether it is a session, and *)
(* an Update of another sector may have reset the owner.                   *)
IsSession(s) ==
  /\ At(s, "isSession")
  /\ IF ownerRef
     THEN /\ inbox' = Sent(s, Task("AddObject", NoSector))
          /\ running' = [running EXCEPT ![s] = Idle]
          /\ UNCHANGED <<listVars, whereVars, refVars, playerVars, callVars, histVars>>
     ELSE Fault("entity")

-----------------------------------------------------------------------------
(* Mutant: only the entity list forgets the player.                         *)
LeaveEntityList(s) ==
  /\ Begins(s, "Leave")
  /\ inbox' = Popped(s)
  /\ inEntities' = inEntities \ {s}
  /\ running' = IF s \in inEntities
                THEN [running EXCEPT ![s] = Step("decRef", NoSector)]
                ELSE running
  /\ UNCHANGED <<inSessions, objectLists, whereVars, refVars, playerVars, callVars, histVars>>

(* Sector::LeaveAndDisconnect.                                             *)
LeaveAndDisconnect(s) ==
  /\ Begins(s, "Leave")
  /\ inbox' = Popped(s)
  /\ inEntities' = inEntities \ {s}
  /\ running' = IF s \in inEntities
                THEN [running EXCEPT ![s] = Step("eraseSession", NoSector)]
                ELSE running
  /\ UNCHANGED <<inSessions, objectLists, whereVars, refVars, playerVars, callVars, histVars>>

DecRef(s) ==
  /\ At(s, "decRef")
  /\ sectorRefs' = sectorRefs - 1
  /\ running' = [running EXCEPT ![s] = Idle]
  /\ UNCHANGED <<inbox, listVars, whereVars, ownerRef, ioRef, playerVars, callVars, histVars>>

(* Mutant: the list of one thread is forgotten.                             *)
LeaveObjectButOne(s) ==
  /\ Begins(s, "LeaveObject")
  /\ inbox' = Popped(s)
  /\ \E w \in Workers : objectLists' = objectLists \ ({s} \X (Workers \ {w}))
  /\ UNCHANGED <<running, inEntities, inSessions, whereVars, refVars, playerVars, callVars, histVars>>

(* TRWorldRoom::AddObject and LeaveObject: the lists of all threads.       *)
AddObject(s) ==
  /\ Begins(s, "AddObject")
  /\ inbox' = Popped(s)
  /\ objectLists' = objectLists \cup ({s} \X Workers)
  /\ running' = [running EXCEPT ![s] = Step("storeSector", NoSector)]
  /\ UNCHANGED <<inEntities, inSessions, whereVars, refVars, playerVars, callVars, histVars>>

StoreSector(s) ==
  /\ At(s, "storeSector")
  /\ curSector' = s
  /\ running' = [running EXCEPT ![s] = Idle]
  /\ UNCHANGED <<inbox, listVars, sectorInfo, refVars, playerVars, callVars, histVars>>

LeaveObject(s) ==
  /\ Begins(s, "LeaveObject")
  /\ inbox' = Popped(s)
  /\ objectLists' = objectLists \ ({s} \X Workers)
  /\ UNCHANGED <<running, inEntities, inSessions, whereVars, refVars, playerVars, callVars, histVars>>

(* TRWorldRoom::Update on worker w, which a timer starts again and again,  *)
(* between any two tasks. It drops the object from the list of that worker *)
(* only, once it is invalid; whoever clears m_pCurSector sends the player  *)
(* away. Only tasks of s use its lists, so the object may go at once.      *)
Update(s, w) ==
  /\ fault = "none" /\ running[s] = Idle
  /\ <<s, w>> \in objectLists /\ ~ valid
  /\ objectLists' = objectLists \ {<<s, w>>}
  /\ curSector' = NoSector
  /\ running' = IF curSector = NoSector
                THEN running
                ELSE [running EXCEPT ![s] = Step("sendLeave", NoSector)]
  /\ UNCHANGED <<inbox, inEntities, inSessions, sectorInfo, refVars, playerVars, callVars, histVars>>

(* Mutant: the sector that updates the object is told, as in the call that *)
(* is commented out below the real one.                                    *)
SendLeaveHere(s) ==
  /\ At(s, "sendLeave")
  /\ IF ownerRef
     THEN /\ inbox' = Sent(s, Task("Leave", NoSector))
          /\ running' = [running EXCEPT ![s].pc = "resetEntity"]
          /\ UNCHANGED <<listVars, whereVars, refVars, playerVars, callVars, histVars>>
     ELSE Fault("entity")

SendLeave(s) ==
  /\ At(s, "sendLeave")
  /\ IF ownerRef
     THEN /\ inbox' = IF sectorInfo = NoSector THEN inbox
                      ELSE Sent(sectorInfo, Task("Leave", NoSector))
          /\ running' = [running EXCEPT ![s].pc = "resetEntity"]
          /\ UNCHANGED <<listVars, whereVars, refVars, playerVars, callVars, histVars>>
     ELSE Fault("entity")

ResetEntity(s) ==
  /\ At(s, "resetEntity")
  /\ ownerRef' = FALSE
  /\ running' = [running EXCEPT ![s] = Idle]
  /\ UNCHANGED <<inbox, listVars, whereVars, sectorRefs, ioRef, playerVars, callVars, histVars>>

-----------------------------------------------------------------------------
(* What a sector does by itself, in tasks of its own.                      *)
SectorStep(s) ==
  \/ Immigration(s) \/ EraseSession(s) \/ SendArrival(s)
  \/ Arrive(s) \/ BeginEnter(s) \/ EnterSession(s) \/ EnterEntity(s)
  \/ LeaveObjectEnqueue(s) \/ AddObjectEnqueue(s) \/ IsSession(s)
  \/ LeaveAndDisconnect(s) \/ DecRef(s)
  \/ AddObject(s) \/ StoreSector(s) \/ LeaveObject(s)
  \/ \E w \in Workers : Update(s, w)
  \/ SendLeave(s) \/ ResetEntity(s)

Login == LoginCheck \/ (\E s \in Sectors : LoginAddObject(s)) \/ LoginEnter \/ LoginEnqueue
Move == MoveNobody \/ \E to \in Sectors : ImmigrationEnqueue(to)
Handler == ReadSector \/ ReadNoSector \/ Move
OnDisconnected == SetInvalid \/ ResetPlayer \/ ReleaseIocpObject

Next ==
  \/ Login \/ Handler
  \/ Disconnect \/ OnDisconnected
  \/ \E s \in Sectors : SectorStep(s)

SafetySpec == Init /\ [][Next]_vars

(* Actors run what they are given, and the timer of Update never stops; a  *)
(* handler and the login go on; a lost connection is completed.            *)
Spec ==
  /\ SafetySpec
  /\ \A s \in Sectors : WF_vars(SectorStep(s)) /\ WF_vars(\E w \in Workers : Update(s, w))
  /\ WF_vars(Login)
  /\ WF_vars(Move)
  /\ WF_vars(OnDisconnected)

-----------------------------------------------------------------------------
Ops == {"AddObject", "Enter", "Immigration", "Arrive", "LeaveObject", "Leave"}
Places == Sectors \cup {NoSector}

TypeOK ==
  /\ inbox \in [Sectors -> Seq([op : Ops, sector : Places])]
  /\ running \in [Sectors -> [pc : {"idle", "eraseSession", "sendArrival", "check", "addEntity",
                                    "leaveObject", "addObject", "isSession", "decRef", "storeSector",
                                    "sendLeave", "resetEntity"},
                              sector : Places]]
  /\ inEntities \subseteq Sectors /\ inSessions \subseteq Sectors
  /\ objectLists \subseteq Sectors \X Workers
  /\ sectorInfo \in Places /\ curSector \in Places
  /\ sectorRefs \in {0, 1} /\ ownerRef \in BOOLEAN /\ ioRef \in BOOLEAN
  /\ connected \in BOOLEAN /\ hasPlayer \in BOOLEAN /\ valid \in BOOLEAN
  /\ login \in [pc : {"check", "addObject", "enter", "enqueue", "done"}, room : Places]
  /\ handler \in [pc : {"idle", "move"}, room : Places]
  /\ moves \in 0..MaxMoves
  /\ declined \in BOOLEAN
  /\ fault \in {"none", "player", "session", "entity", "sector"}

(* Where the reference of the sectors is: with a list, with a task that    *)
(* waits, or with one that runs.                                           *)
Carriers == {"Enter", "Arrive"}
Waiting  == {p \in UNION {{s} \X DOMAIN inbox[s] : s \in Sectors} :
               inbox[p[1]][p[2]].op \in Carriers}
Carrying == {s \in Sectors : running[s].pc \in
               {"eraseSession", "sendArrival", "check", "addEntity", "decRef"}}
Holders  == Cardinality(inEntities) + Cardinality(Waiting) + Cardinality(Carrying)
            + IF login.pc = "enqueue" THEN 1 ELSE 0

(* A player is in one place: the entity list of one sector or one task on  *)
(* its way, and the one reference EnterEnqueue took is what that place     *)
(* holds. None is leaked or released twice when migrations, disconnects    *)
(* and Update overlap.                                                     *)
OneReferenceOnePlace == Holders = sectorRefs

(* m_linkedHashMapForSession holds raw pointers, which broadcasts of other *)
(* threads follow: a session in it is kept alive by the same sector.       *)
ListedSessionIsHeld ==
  \A s \in inSessions :
    s \in inEntities \/ running[s].pc \in {"eraseSession", "addEntity"}

(* GetCurSector leads to the sector that has the player: a Leave or an     *)
(* Immigration sent after it arrived finds it there.                       *)
SectorInfoIsCurrent == \A s \in inEntities : sectorInfo = s

(* When nothing is under way, the object lists of all threads agree with   *)
(* the entity list: a connected player is updated by its own sector only.  *)
Settled ==
  /\ fault = "none" /\ login.pc = "done" /\ handler.pc = "idle"
  /\ \A s \in Sectors : inbox[s] = <<>> /\ running[s] = Idle

ObjectsFollowTheEntity ==
  Settled /\ connected => objectLists = inEntities \X Workers

(* The session of a player who is gone is destroyed, unless the object was *)
(* found invalid by AddObjectEnqueue, which then tells nobody, or the      *)
(* server has faulted.                                                     *)
GoneSessionIsFreed == ~ connected ~> (Freed \/ declined \/ fault # "none")
=============================================================================
