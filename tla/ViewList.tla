------------------------------- MODULE ViewList -------------------------------
(***************************************************************************)
(* What the clients show: the view lists of players and monsters           *)
(* (ServerCore/MoveBroadcaster.cpp) and the packets a tick sends by them.  *)
(*                                                                         *)
(* The tick of an entity is BroadcastMove, called by the handler of its    *)
(* MOVE packets or by its timer: one at a time for an entity, at once for  *)
(* two. Its list is its own. What it tells a client is put into the send   *)
(* queue of that client's session, which keeps the order (Session), so a   *)
(* packet is shown here when it is queued. A move packet changes nothing:  *)
(* a client ignores it unless it shows the object already.                 *)
(*                                                                         *)
(* The entities stay in one neighbourhood of sectors, wider than the view, *)
(* so the lists of the nine sectors are one list. Where the player is      *)
(* among the sectors and how it enters and leaves them is in Sector; when  *)
(* the timer of a monster fires is in TimerObject.                         *)
(*                                                                         *)
(* Whoever kills a monster has it taken off the clients of the sectors     *)
(* near the attacker, by a task of each (CollisionResolver.cpp): packets   *)
(* that no tick sends and no list knows of.                                *)
(***************************************************************************)
EXTENDS Integers, FiniteSets

CONSTANTS
  Players, Npcs,
  NoOne,
  Places,              (* where an entity can be, on a line                *)
  ViewRange,           (* VIEW_RANGE                                       *)
  WakeRange,           (* TimerNPC::CanAwake: two thirds of it             *)
  MaxMoves,            (* bound: changes of place                          *)
  NearSectors,         (* bound: sectors that broadcast a kill, five in    *)
                       (* the code: the attacker's and four next to it     *)
  Crowds,              (* bound: who may be in the game                    *)
  Leavers              (* bound: the entities that may leave it            *)

Entities == Players \cup Npcs

ASSUME ViewListAssumption ==
  /\ IsFiniteSet(Entities) /\ Players \cap Npcs = {} /\ NoOne \notin Entities
  /\ Places \subseteq Int /\ ViewRange \in Nat /\ WakeRange \in 0..ViewRange
  /\ MaxMoves \in Nat /\ NearSectors \in Nat /\ Leavers \subseteq Entities
  /\ Crowds \subseteq SUBSET Entities

VARIABLES
  place,     (* per entity, its position                                   *)
  moves,     (* changes of place so far                                    *)
  stage,     (* per entity: a player is connected, then disconnected, then *)
             (* its object is invalid; a monster is valid, then invalid    *)
  listed,    (* the entities in the lists of the sectors                   *)
  awake,     (* the monsters whose timer runs                              *)
  released,  (* the entities whose m_viewListPtr is null                   *)
  outs,      (* per monster, the BroadCast tasks of its kill that wait     *)
  gone,      (* history: per player, the killed monsters that a broadcast  *)
             (* took off its client and that told it of themselves no more *)
  list,      (* per entity, its view_list                                  *)
  ticking,   (* the entities whose BroadcastMove runs                      *)
  copy,      (* per entity, entity_copy, what is left to compare           *)
  seen,      (* per entity, new_view_list                                  *)
  peer,      (* per entity, whom the loop is at                            *)
  shows      (* per player, what its client shows                          *)

worldVars == <<place, moves, stage, listed, awake>>
leaveVars == <<released, outs, gone>>
tickVars  == <<ticking, copy, seen, peer>>
vars == <<worldVars, leaveVars, list, tickVars, shows>>

(* Those who are not in the game have left it.                             *)
Init ==
  /\ place \in [Entities -> Places]
  /\ moves = 0
  /\ \E crowd \in Crowds :
       /\ stage = [e \in Entities |-> IF e \in crowd THEN "in" ELSE "invalid"]
       /\ listed = crowd \cap Npcs
       /\ released = Entities \ crowd
  /\ awake = {} /\ ticking = {}
  /\ outs = [n \in Npcs |-> 0]
  /\ gone = [x \in Players |-> {}]
  /\ list  = [e \in Entities |-> {}]
  /\ copy  = [e \in Entities |-> {}]
  /\ seen  = [e \in Entities |-> {}]
  /\ peer  = [e \in Entities |-> NoOne]
  /\ shows = [x \in Players |-> {}]

Within(range, e, f) == place[e] - place[f] \in -range..range

(* g_huristic: two valid objects in the range of the view.                 *)
InView(e, f) ==
  stage[e] # "invalid" /\ stage[f] # "invalid" /\ Within(ViewRange, e, f)

(* ExecuteTimer for the monster, if they are a player and a monster.       *)
Woken(e, f) ==
  IF {e, f} \cap Players # {} /\ Within(WakeRange, e, f) THEN {e, f} \cap Npcs ELSE {}

(* The client of x gets s2c_APPEAR_NEW_OBJECT or s2c_LEAVE_OBJECT of e; a  *)
(* monster has no client.                                                  *)
Appear(x, e) == shows' = IF x \in Players THEN [shows EXCEPT ![x] = @ \cup {e}] ELSE shows
Vanish(x, e) == shows' = IF x \in Players THEN [shows EXCEPT ![x] = @ \ {e}] ELSE shows

-----------------------------------------------------------------------------
(* Mutant: e is not taken out of what it copied.                           *)
BeginWithSelf(e) ==
  /\ e \notin ticking /\ e \notin released
  /\ IF e \in Players THEN stage[e] = "in" ELSE e \in awake /\ stage[e] # "invalid"
  /\ ticking' = ticking \cup {e}
  /\ copy' = [copy EXCEPT ![e] = IF e \in Players THEN listed ELSE listed \cap Players]
  /\ UNCHANGED <<worldVars, leaveVars, list, seen, peer, shows>>

(* BroadcastMove begins: the list is held for the whole of it; a player    *)
(* copies the entities of the sectors, a monster the sessions.             *)
Begin(e) ==
  /\ e \notin ticking /\ e \notin released
  /\ IF e \in Players THEN stage[e] = "in" ELSE e \in awake /\ stage[e] # "invalid"
  /\ ticking' = ticking \cup {e}
  /\ copy' = [copy EXCEPT ![e] = (IF e \in Players THEN listed ELSE listed \cap Players) \ {e}]
  /\ UNCHANGED <<worldVars, leaveVars, list, seen, peer, shows>>

Compare(e, f) ==
  /\ f \in copy[e]
  /\ copy' = [copy EXCEPT ![e] = @ \ {f}]
  /\ IF InView(e, f)
     THEN seen' = [seen EXCEPT ![e] = @ \cup {f}] /\ awake' = awake \cup Woken(e, f)
     ELSE UNCHANGED <<seen, awake>>
  /\ UNCHANGED <<place, moves, stage, listed, leaveVars, list, ticking, peer, shows>>

(* The loop is done, and no packet of a pair is missing.                   *)
Between(e) == e \in ticking /\ copy[e] = {} /\ peer[e] = NoOne

(* For one that is not in the list yet: it is told of e,                   *)
TellPeer(e, f) ==
  /\ Between(e) /\ f \in seen[e] \ list[e]
  /\ Appear(f, e)
  /\ gone' = IF f \in Players THEN [gone EXCEPT ![f] = @ \ {e}] ELSE gone
  /\ peer' = [peer EXCEPT ![e] = f]
  /\ UNCHANGED <<worldVars, released, outs, list, ticking, copy, seen>>

(* Mutant: e is not told of it.                                            *)
TellPeerOnly(e, f) ==
  /\ peer[e] = f /\ f \in seen[e]
  /\ list' = [list EXCEPT ![e] = @ \cup {f}]
  /\ peer' = [peer EXCEPT ![e] = NoOne]
  /\ UNCHANGED <<worldVars, leaveVars, ticking, copy, seen, shows>>

(* and e of it, and it is put into the list.                               *)
TellSelf(e, f) ==
  /\ peer[e] = f /\ f \in seen[e]
  /\ Appear(e, f)
  /\ list' = [list EXCEPT ![e] = @ \cup {f}]
  /\ peer' = [peer EXCEPT ![e] = NoOne]
  /\ UNCHANGED <<worldVars, leaveVars, ticking, copy, seen>>

(* Then, for one of the list that was not seen: it is told that e is gone, *)
LeavePeer(e, f) ==
  /\ Between(e) /\ seen[e] \subseteq list[e]
  /\ f \in list[e] \ seen[e]
  /\ Vanish(f, e)
  /\ peer' = [peer EXCEPT ![e] = f]
  /\ UNCHANGED <<worldVars, leaveVars, list, ticking, copy, seen>>

(* and e that it is.                                                       *)
LeaveSelf(e, f) ==
  /\ peer[e] = f /\ f \in list[e] \ seen[e]
  /\ Vanish(e, f)
  /\ list' = [list EXCEPT ![e] = @ \ {f}]
  /\ peer' = [peer EXCEPT ![e] = NoOne]
  /\ UNCHANGED <<worldVars, leaveVars, ticking, copy, seen>>

(* Mutant: the loop over those that were not seen is left out.             *)
EndTickEarly(e) ==
  /\ Between(e) /\ seen[e] \subseteq list[e]
  /\ ticking' = ticking \ {e}
  /\ seen' = [seen EXCEPT ![e] = {}]
  /\ list' = IF e \in released THEN [list EXCEPT ![e] = {}] ELSE list
  /\ awake' = IF seen[e] = {} THEN awake \ {e} ELSE awake
  /\ UNCHANGED <<place, moves, stage, listed, leaveVars, copy, peer, shows>>

(* The end; a list that was released meanwhile dies with the tick. A       *)
(* monster that saw no player goes to sleep.                               *)
EndTick(e) ==
  /\ Between(e) /\ seen[e] = list[e]
  /\ ticking' = ticking \ {e}
  /\ seen' = [seen EXCEPT ![e] = {}]
  /\ list' = IF e \in released THEN [list EXCEPT ![e] = {}] ELSE list
  /\ awake' = IF seen[e] = {} THEN awake \ {e} ELSE awake
  /\ UNCHANGED <<place, moves, stage, listed, leaveVars, copy, peer, shows>>

TickStep(e) ==
  \/ EndTick(e)
  \/ \E f \in Entities : \/ Compare(e, f) \/ TellPeer(e, f) \/ TellSelf(e, f)
                         \/ LeavePeer(e, f) \/ LeaveSelf(e, f)

-----------------------------------------------------------------------------
(* TimerUpdate of a monster without a tick: it is invalid, or ExecuteAI    *)
(* finds that the player it is after is not there or too far to wake it.   *)
Doze(n) ==
  /\ n \in awake /\ n \notin ticking
  /\ awake' = awake \ {n}
  /\ UNCHANGED <<place, moves, stage, listed, leaveVars, list, tickVars, shows>>

Move(e, p) ==
  /\ moves < MaxMoves /\ stage[e] = "in" /\ p # place[e]
  /\ place' = [place EXCEPT ![e] = p]
  /\ moves' = moves + 1
  /\ UNCHANGED <<stage, listed, awake, leaveVars, list, tickVars, shows>>

(* Sector::Enter; a session that is not connected any more stays out.      *)
Enter(x) ==
  /\ x \in Players /\ stage[x] = "in" /\ x \notin listed
  /\ listed' = listed \cup {x}
  /\ UNCHANGED <<place, moves, stage, awake, leaveVars, list, tickVars, shows>>

(* Session::Disconnect, and OnDisconnected, which tells no client.         *)
Disconnect(x) ==
  /\ x \in Players \cap Leavers /\ stage[x] = "in"
  /\ stage' = [stage EXCEPT ![x] = "disconnected"]
  /\ UNCHANGED <<place, moves, listed, awake, leaveVars, list, tickVars, shows>>

SetInvalid(x) ==
  /\ x \in Players \cap Leavers /\ stage[x] = "disconnected"
  /\ stage' = [stage EXCEPT ![x] = "invalid"]
  /\ UNCHANGED <<place, moves, listed, awake, leaveVars, list, tickVars, shows>>

(* ResolveCollision: an attacker that is in a sector kills the monster;    *)
(* of several, the one that wins SetInvalid has it broadcast.              *)
Kill(n) ==
  /\ n \in Npcs \cap Leavers /\ stage[n] = "in"
  /\ \E x \in Players : x \in listed \ released
  /\ stage' = [stage EXCEPT ![n] = "invalid"]
  /\ outs' = [outs EXCEPT ![n] = NearSectors]
  /\ UNCHANGED <<place, moves, listed, awake, released, gone, list, tickVars, shows>>

(* Sector::BroadCast, the task of one sector: every session in its list is *)
(* sent s2c_LEAVE_OBJECT. Those who are in sectors further away, diagonal  *)
(* to the attacker or between two sectors are not; those who change        *)
(* sectors meanwhile may be twice.                                         *)
BroadCast(n) ==
  /\ n \in Npcs /\ outs[n] > 0
  /\ outs' = [outs EXCEPT ![n] = @ - 1]
  /\ \E audience \in SUBSET (listed \cap Players) :
       /\ shows' = [x \in Players |-> IF x \in audience THEN shows[x] \ {n} ELSE shows[x]]
       /\ gone' = [x \in Players |-> IF x \in audience THEN gone[x] \cup {n} ELSE gone[x]]
  /\ UNCHANGED <<worldVars, released, list, tickVars>>

(* TRWorldRoom::Update finds the object invalid: ReleaseViewList; the list *)
(* dies unless a tick holds it.                                            *)
ReleaseViewList(e) ==
  /\ stage[e] = "invalid" /\ e \notin released
  /\ released' = released \cup {e}
  /\ list' = IF e \notin ticking THEN [list EXCEPT ![e] = {}] ELSE list
  /\ UNCHANGED <<worldVars, outs, gone, tickVars, shows>>

(* LeaveAndDisconnect tells no client either.                              *)
LeaveAndDisconnect(e) ==
  /\ e \in released \cap listed
  /\ listed' = listed \ {e}
  /\ UNCHANGED <<place, moves, stage, awake, leaveVars, list, tickVars, shows>>

Leave(e) == \/ Disconnect(e) \/ SetInvalid(e) \/ Kill(e) \/ BroadCast(e)
            \/ ReleaseViewList(e) \/ LeaveAndDisconnect(e)

Next == \E e \in Entities :
  \/ Begin(e) \/ TickStep(e) \/ Doze(e) \/ Enter(e) \/ Leave(e)
  \/ \E p \in Places : Move(e, p)

SafetySpec == Init /\ [][Next]_vars

(* A client sends MOVE every 150 ms at least (Hero.cpp:528) as long as it  *)
(* is connected, and its login has queued the Enter. A worker goes on with *)
(* the handler it runs, and a sector runs its tasks (TaskQueueable). That  *)
(* a monster ticks at all is not assumed: ExecuteAI may put it to sleep    *)
(* any time.                                                               *)
Spec ==
  /\ SafetySpec
  /\ \A x \in Players : WF_vars(Begin(x)) /\ WF_vars(Enter(x))
  /\ \A e \in Entities : WF_vars(TickStep(e))
  /\ \A n \in Npcs : WF_vars(BroadCast(n))

-----------------------------------------------------------------------------
(* Nobody lists itself, and a tick that is over leaves nothing behind.     *)
TypeOK ==
  /\ place \in [Entities -> Places] /\ moves \in 0..MaxMoves
  /\ stage \in [Entities -> {"in", "disconnected", "invalid"}]
  /\ listed \subseteq Entities /\ awake \subseteq Npcs /\ released \subseteq Entities
  /\ outs \in [Npcs -> 0..NearSectors] /\ gone \in [Players -> SUBSET Npcs]
  /\ ticking \subseteq Entities
  /\ list \in [Entities -> SUBSET Entities]
  /\ copy \in [Entities -> SUBSET Entities] /\ seen \in [Entities -> SUBSET Entities]
  /\ peer \in [Entities -> Entities \cup {NoOne}]
  /\ shows \in [Players -> SUBSET Entities]
  /\ \A e \in Entities :
       /\ e \notin copy[e] \cup seen[e] \cup list[e]
       /\ (copy[e] # {} \/ seen[e] # {} \/ peer[e] # NoOne) => e \in ticking

(* Two ticks that meet each send the packets of both, in any order, and    *)
(* the broadcasts of a kill come in between: what comes last must still be *)
(* what the lists say. Two that list each other are shown to each other,   *)
(* for neither will tell it again, unless a kill took one off; what a      *)
(* client shows is in a list, the other's or its own, until the other's is *)
(* released, so that a tick is left that takes it away; and a killed       *)
(* monster that a tick brought back after the broadcast is in the client's *)
(* own list, for its own will not tick again. Only the tick of the other   *)
(* is between its packet and its list for a while.                         *)
ViewsMatchLists ==
  \A x \in Players : \A y \in Entities \ {x} :
    stage[x] = "in" /\ peer[y] # x =>
      /\ y \in list[x] /\ x \in list[y] => y \in shows[x] \cup gone[x]
      /\ y \in shows[x] => y \in list[x] \/ x \in list[y] \/ y \in released
      /\ y \in shows[x] \cap gone[x] => y \in list[x]

(* A monster in view that fell asleep after it told x that it left, while  *)
(* x still lists it: x sees nothing of it before it wakes.                 *)
Overlooked(x, y) == y \in Npcs /\ y \in list[x] /\ x \notin list[y]

(* What x was told of by the other only, which then left the game or fell  *)
(* asleep before a tick of x saw it: x shows it until it ends. Of a killed *)
(* monster, only one that told x after the broadcasts that reached x, if   *)
(* any did.                                                                *)
Ghost(x, y) ==
  y \notin list[x] \cup gone[x] /\ (y \in Npcs \/ stage[y] # "in")

Settled(x, y) ==
  /\ stage[y] = "in" /\ y \in listed /\ InView(x, y) => y \in shows[x] \/ Overlooked(x, y)
  /\ y \in shows[x] => (y \in listed /\ InView(x, y)) \/ Ghost(x, y)

(* When nobody moves any more, every client that stays connected comes to  *)
(* show who is in its view and nobody else, short of the two exceptions:   *)
(* a killed monster that a running tick of x shows again is gone for good. *)
ViewsConverge ==
  \A x \in Players : \A y \in Entities \ {x} :
    <>[](stage[x] = "in") => <>[]Settled(x, y)
=============================================================================
