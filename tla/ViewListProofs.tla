---------------------------- MODULE ViewListProofs ----------------------------
(***************************************************************************)
(* What clients show agrees with the view lists, for any players and       *)
(* monsters, any places and any number of moves.                           *)
(*                                                                         *)
(* Seen from the client of x, an entity y lists x from the packet it sends *)
(* to x on, which is one step before x is in list[y] (Lists). Then every   *)
(* step of either that puts one into its list shows y at x, and every step *)
(* that takes one out removes it: whichever came last, lists and client    *)
(* agree (Agree). The broadcasts of a kill only take off, and mark what    *)
(* they took in gone, until the monster tells x of itself again.           *)
(***************************************************************************)
EXTENDS ViewList, TLAPS

(* y lists x, as the client of x was told.                                 *)
Lists(y, x) == IF peer[y] = x THEN x \in seen[y] ELSE x \in list[y]

Agree ==
  \A x \in Players : \A y \in Entities \ {x} :
    stage[x] = "in" =>
      /\ y \in list[x] /\ Lists(y, x) => y \in shows[x] \cup gone[x]
      /\ y \in shows[x] => y \in list[x] \/ Lists(y, x) \/ y \in released
      /\ y \in shows[x] \cap gone[x] => y \in list[x]

Stages ==
  /\ \A e \in released : stage[e] = "invalid"
  /\ \A e \in Entities : peer[e] # NoOne => copy[e] = {}

IInv == TypeOK /\ Stages /\ Agree

USE ViewListAssumption
-----------------------------------------------------------------------------
LEMMA InitInv == Init => IInv
  BY DEF Init, IInv, TypeOK, Stages, Agree, Lists, Entities

LEMMA TypeStep == IInv /\ [Next]_vars => TypeOK'
<1> SUFFICES ASSUME IInv, [Next]_vars PROVE TypeOK'
  OBVIOUS
<1> USE DEF IInv, TypeOK, worldVars, leaveVars, tickVars, Between, Appear, Vanish
<1>1. CASE UNCHANGED vars
  BY <1>1 DEF vars
<1> SUFFICES ASSUME NEW e \in Entities,
                    \/ Begin(e) \/ TickStep(e) \/ Doze(e) \/ Enter(e)
                    \/ Leave(e) \/ \E p \in Places : Move(e, p)
             PROVE  TypeOK'
  BY <1>1 DEF Next
<1>2. CASE Begin(e)
  BY <1>2 DEF Begin, Entities
<1>3. ASSUME NEW f \in Entities, Compare(e, f) PROVE TypeOK'
  <2>1. awake' \subseteq Npcs
    BY <1>3 DEF Compare, Woken
  <2> QED
    BY <1>3, <2>1 DEF Compare
<1>4. ASSUME NEW f \in Entities, TellPeer(e, f) PROVE TypeOK'
  BY <1>4 DEF TellPeer
<1>5. ASSUME NEW f \in Entities, TellSelf(e, f) PROVE TypeOK'
  BY <1>5 DEF TellSelf
<1>6. ASSUME NEW f \in Entities, LeavePeer(e, f) PROVE TypeOK'
  BY <1>6 DEF LeavePeer
<1>7. ASSUME NEW f \in Entities, LeaveSelf(e, f) PROVE TypeOK'
  BY <1>7 DEF LeaveSelf
<1>8. CASE EndTick(e)
  BY <1>8 DEF EndTick
<1>9. CASE Doze(e) \/ Enter(e)
  BY <1>9 DEF Doze, Enter, Entities
<1>10. CASE Leave(e)
  <2>1. CASE Disconnect(e) \/ SetInvalid(e) \/ ReleaseViewList(e) \/ LeaveAndDisconnect(e)
    BY <2>1 DEF Disconnect, SetInvalid, ReleaseViewList, LeaveAndDisconnect
  <2>2. CASE Kill(e)
    BY <2>2 DEF Kill
  <2>3. CASE BroadCast(e)
    BY <2>3 DEF BroadCast, Entities
  <2> QED
    BY <1>10, <2>1, <2>2, <2>3 DEF Leave
<1>11. ASSUME NEW p \in Places, Move(e, p) PROVE TypeOK'
  BY <1>11 DEF Move
<1> QED
  BY <1>2, <1>3, <1>4, <1>5, <1>6, <1>7, <1>8, <1>9, <1>10, <1>11 DEF TickStep

LEMMA StagesStep == IInv /\ [Next]_vars => Stages'
<1> SUFFICES ASSUME IInv, [Next]_vars PROVE Stages'
  OBVIOUS
<1> USE DEF IInv, TypeOK, Stages, worldVars, leaveVars, tickVars, Between
<1>1. CASE UNCHANGED vars
  BY <1>1 DEF vars
<1> SUFFICES ASSUME NEW e \in Entities,
                    \/ Begin(e) \/ TickStep(e) \/ Doze(e) \/ Enter(e)
                    \/ Leave(e) \/ \E p \in Places : Move(e, p)
             PROVE  Stages'
  BY <1>1 DEF Next
<1>2. CASE Begin(e)
  BY <1>2 DEF Begin
<1>3. ASSUME NEW f \in Entities,
             Compare(e, f) \/ TellPeer(e, f) \/ TellSelf(e, f) \/ LeavePeer(e, f) \/ LeaveSelf(e, f)
      PROVE  Stages'
  BY <1>3 DEF Compare, TellPeer, TellSelf, LeavePeer, LeaveSelf
<1>4. CASE EndTick(e)
  BY <1>4 DEF EndTick
<1>5. CASE Doze(e) \/ Enter(e)
  BY <1>5 DEF Doze, Enter
<1>6. CASE Leave(e)
  BY <1>6 DEF Leave, Disconnect, SetInvalid, Kill, BroadCast, ReleaseViewList, LeaveAndDisconnect
<1>7. ASSUME NEW p \in Places, Move(e, p) PROVE Stages'
  BY <1>7 DEF Move
<1> QED
  BY <1>2, <1>3, <1>4, <1>5, <1>6, <1>7 DEF TickStep

-----------------------------------------------------------------------------
(* A step that leaves lists and packets alone.                             *)
LEMMA Staying ==
  ASSUME Agree, UNCHANGED <<list, peer, shows, gone>>,
         \A e \in Entities : peer[e] # NoOne => seen'[e] = seen[e],
         released \subseteq released',
         \A e \in Entities : stage'[e] = "in" => stage[e] = "in"
  PROVE  Agree'
<1> SUFFICES ASSUME NEW x \in Players, NEW y \in Entities \ {x}, stage'[x] = "in"
             PROVE  /\ y \in list'[x] /\ Lists(y, x)' => y \in shows'[x] \cup gone'[x]
                    /\ y \in shows'[x] => y \in list'[x] \/ Lists(y, x)' \/ y \in released'
                    /\ y \in shows'[x] \cap gone'[x] => y \in list'[x]
  BY DEF Agree
<1>1. x \in Entities /\ x # NoOne
  BY DEF Entities
<1>2. Lists(y, x)' <=> Lists(y, x)
  BY <1>1 DEF Lists
<1> QED
  BY <1>1, <1>2 DEF Agree

(* A packet of the tick of e to the client of f.                           *)
LEMMA PacketToPeer ==
  ASSUME IInv, NEW e \in Entities, NEW f \in Entities, TellPeer(e, f) \/ LeavePeer(e, f)
  PROVE  Agree'
<1> SUFFICES ASSUME NEW x \in Players, NEW y \in Entities \ {x}, stage'[x] = "in"
             PROVE  /\ y \in list'[x] /\ Lists(y, x)' => y \in shows'[x] \cup gone'[x]
                    /\ y \in shows'[x] => y \in list'[x] \/ Lists(y, x)' \/ y \in released'
                    /\ y \in shows'[x] \cap gone'[x] => y \in list'[x]
  BY DEF Agree
<1>1. x \in Entities /\ x # NoOne /\ e # f
  BY DEF Entities, IInv, TypeOK, TellPeer, LeavePeer
<1>2. stage' = stage /\ list' = list /\ seen' = seen /\ released' = released
  BY DEF TellPeer, LeavePeer, worldVars, leaveVars
<1>3. peer' = [peer EXCEPT ![e] = f] /\ peer \in [Entities -> Entities \cup {NoOne}]
      /\ peer[e] = NoOne /\ shows \in [Players -> SUBSET Entities]
      /\ gone \in [Players -> SUBSET Npcs]
  BY DEF TellPeer, LeavePeer, Between, IInv, TypeOK
<1>4. /\ y \in list[x] /\ Lists(y, x) => y \in shows[x] \cup gone[x]
      /\ y \in shows[x] => y \in list[x] \/ Lists(y, x) \/ y \in released
      /\ y \in shows[x] \cap gone[x] => y \in list[x]
  BY <1>2 DEF IInv, Agree
<1>5. CASE x = f /\ y = e
  <2>1. Lists(y, x)' <=> f \in seen[e]
    BY <1>2, <1>3, <1>5 DEF Lists
  <2>2. CASE TellPeer(e, f)
    <3>1. f \in seen[e] /\ y \in shows'[x] /\ y \notin gone'[x]
      BY <1>3, <1>5, <2>2 DEF TellPeer, Appear
    <3> QED
      BY <2>1, <3>1
  <2>3. CASE LeavePeer(e, f)
    <3>1. f \notin seen[e] /\ y \notin shows'[x]
      BY <1>3, <1>5, <2>3 DEF LeavePeer, Vanish
    <3> QED
      BY <2>1, <3>1
  <2> QED
    BY <2>2, <2>3
<1>6. CASE ~ (x = f /\ y = e)
  <2>1. /\ y \in shows'[x] <=> y \in shows[x]
        /\ y \in gone'[x] <=> y \in gone[x]
    BY <1>3, <1>6 DEF TellPeer, LeavePeer, leaveVars, Appear, Vanish
  <2>2. Lists(y, x)' <=> Lists(y, x)
    BY <1>1, <1>2, <1>3, <1>6 DEF Lists
  <2> QED
    BY <1>2, <1>4, <2>1, <2>2
<1> QED
  BY <1>5, <1>6

(* A packet of the tick of e to its own client, and its list.              *)
LEMMA PacketToSelf ==
  ASSUME IInv, NEW e \in Entities, NEW f \in Entities, TellSelf(e, f) \/ LeaveSelf(e, f)
  PROVE  Agree'
<1> SUFFICES ASSUME NEW x \in Players, NEW y \in Entities \ {x}, stage'[x] = "in"
             PROVE  /\ y \in list'[x] /\ Lists(y, x)' => y \in shows'[x] \cup gone'[x]
                    /\ y \in shows'[x] => y \in list'[x] \/ Lists(y, x)' \/ y \in released'
                    /\ y \in shows'[x] \cap gone'[x] => y \in list'[x]
  BY DEF Agree
<1>1. x \in Entities /\ x # NoOne /\ f # NoOne /\ e # f
  BY DEF Entities, IInv, TypeOK, TellSelf, LeaveSelf
<1>2. stage' = stage /\ seen' = seen /\ released' = released /\ gone' = gone
  BY DEF TellSelf, LeaveSelf, worldVars, leaveVars
<1>3. peer[e] = f /\ peer' = [peer EXCEPT ![e] = NoOne]
  BY DEF TellSelf, LeaveSelf
<1>4. /\ peer \in [Entities -> Entities \cup {NoOne}]
      /\ list \in [Entities -> SUBSET Entities] /\ shows \in [Players -> SUBSET Entities]
  BY DEF IInv, TypeOK
<1>5. /\ y \in list[x] /\ Lists(y, x) => y \in shows[x] \cup gone[x]
      /\ y \in shows[x] => y \in list[x] \/ Lists(y, x) \/ y \in released
      /\ y \in shows[x] \cap gone[x] => y \in list[x]
  BY <1>2 DEF IInv, Agree
<1>6. Lists(y, x)' <=> Lists(y, x)
  <2>1. CASE y # e
    BY <1>2, <1>3, <1>4, <2>1 DEF TellSelf, LeaveSelf, Lists
  <2>2. CASE y = e /\ x # f
    BY <1>1, <1>2, <1>3, <1>4, <2>2 DEF TellSelf, LeaveSelf, Lists
  <2>3. CASE y = e /\ x = f
    BY <1>1, <1>2, <1>3, <1>4, <2>3 DEF TellSelf, LeaveSelf, Lists
  <2> QED
    BY <2>1, <2>2, <2>3
<1>7. CASE x = e /\ y = f
  <2>1. \/ y \in list'[x] /\ y \in shows'[x]
        \/ y \notin list'[x] /\ y \notin shows'[x]
    BY <1>4, <1>7 DEF TellSelf, LeaveSelf, Appear, Vanish
  <2> QED
    BY <2>1
<1>8. CASE ~ (x = e /\ y = f)
  <2>1. /\ y \in list'[x] <=> y \in list[x]
        /\ y \in shows'[x] <=> y \in shows[x]
    BY <1>1, <1>4, <1>8 DEF TellSelf, LeaveSelf, Appear, Vanish
  <2> QED
    BY <1>2, <1>5, <1>6, <2>1
<1> QED
  BY <1>7, <1>8

(* The list of e dies, with its tick or with its release.                  *)
LEMMA ListDies ==
  ASSUME IInv, NEW e \in Entities, stage[e] # "in", peer[e] = NoOne,
         list' = [list EXCEPT ![e] = {}], UNCHANGED <<stage, peer, shows, gone>>,
         \A f \in Entities : f # e => seen'[f] = seen[f],
         released' = released \cup {e}
  PROVE  Agree'
<1> SUFFICES ASSUME NEW x \in Players, NEW y \in Entities \ {x}, stage'[x] = "in"
             PROVE  /\ y \in list'[x] /\ Lists(y, x)' => y \in shows'[x] \cup gone'[x]
                    /\ y \in shows'[x] => y \in list'[x] \/ Lists(y, x)' \/ y \in released'
                    /\ y \in shows'[x] \cap gone'[x] => y \in list'[x]
  BY DEF Agree
<1>1. x \in Entities /\ x # NoOne /\ x # e /\ list \in [Entities -> SUBSET Entities]
  BY DEF Entities, IInv, TypeOK
<1>2. list'[x] = list[x]
  BY <1>1
<1>3. /\ y \in list[x] /\ Lists(y, x) => y \in shows[x] \cup gone[x]
      /\ y \in shows[x] => y \in list[x] \/ Lists(y, x) \/ y \in released
      /\ y \in shows[x] \cap gone[x] => y \in list[x]
  BY DEF IInv, Agree
<1>4. CASE y = e
  <2>1. ~ Lists(y, x)'
    BY <1>1, <1>4 DEF Lists
  <2> QED
    BY <1>2, <1>3, <1>4, <2>1
<1>5. CASE y # e
  <2>1. Lists(y, x)' <=> Lists(y, x)
    BY <1>1, <1>5 DEF Lists
  <2> QED
    BY <1>2, <1>3, <2>1
<1> QED
  BY <1>4, <1>5

(* A sector tells its sessions that n was killed.                          *)
LEMMA KillIsTold ==
  ASSUME IInv, NEW n \in Entities, BroadCast(n)
  PROVE  Agree'
<1> SUFFICES ASSUME NEW x \in Players, NEW y \in Entities \ {x}, stage'[x] = "in"
             PROVE  /\ y \in list'[x] /\ Lists(y, x)' => y \in shows'[x] \cup gone'[x]
                    /\ y \in shows'[x] => y \in list'[x] \/ Lists(y, x)' \/ y \in released'
                    /\ y \in shows'[x] \cap gone'[x] => y \in list'[x]
  BY DEF Agree
<1>1. stage' = stage /\ list' = list /\ seen' = seen /\ peer' = peer /\ released' = released
  BY DEF BroadCast, worldVars, tickVars
<1>2. /\ y \in list[x] /\ Lists(y, x) => y \in shows[x] \cup gone[x]
      /\ y \in shows[x] => y \in list[x] \/ Lists(y, x) \/ y \in released
      /\ y \in shows[x] \cap gone[x] => y \in list[x]
  BY <1>1 DEF IInv, Agree
<1>3. Lists(y, x)' <=> Lists(y, x)
  BY <1>1 DEF Lists
<1>4. \/ y \notin shows'[x] /\ y \in gone'[x]
      \/ /\ y \in shows'[x] <=> y \in shows[x]
         /\ y \in gone'[x] <=> y \in gone[x]
  BY DEF BroadCast
<1> QED
  BY <1>1, <1>2, <1>3, <1>4

LEMMA AgreeStep == IInv /\ [Next]_vars => Agree'
<1> SUFFICES ASSUME IInv, [Next]_vars PROVE Agree'
  OBVIOUS
<1>1. CASE UNCHANGED vars
  BY <1>1, Staying DEF vars, worldVars, leaveVars, tickVars, IInv
<1> SUFFICES ASSUME NEW e \in Entities,
                    \/ Begin(e) \/ TickStep(e) \/ Doze(e) \/ Enter(e)
                    \/ Leave(e) \/ \E p \in Places : Move(e, p)
             PROVE  Agree'
  BY <1>1 DEF Next
<1> USE DEF worldVars, leaveVars, tickVars
<1>2. Agree /\ TypeOK /\ Stages
  BY DEF IInv
<1>3. CASE Begin(e)
  BY <1>2, <1>3, Staying DEF Begin
<1>4. ASSUME NEW f \in Entities, Compare(e, f) PROVE Agree'
  <2>1. \A g \in Entities : peer[g] # NoOne => seen'[g] = seen[g]
    BY <1>2, <1>4 DEF Compare, Stages, TypeOK
  <2> QED
    BY <1>2, <1>4, <2>1, Staying DEF Compare
<1>5. ASSUME NEW f \in Entities,
             TellPeer(e, f) \/ TellSelf(e, f) \/ LeavePeer(e, f) \/ LeaveSelf(e, f)
      PROVE  Agree'
  BY <1>5, PacketToPeer, PacketToSelf
<1>6. CASE EndTick(e)
  <2>1. \A g \in Entities : g # e \/ peer[g] # NoOne => seen'[g] = seen[g]
    BY <1>2, <1>6 DEF EndTick, Between, TypeOK
  <2>2. peer[e] = NoOne /\ UNCHANGED <<stage, peer, shows, gone, released>>
    BY <1>6 DEF EndTick, Between
  <2>3. CASE e \in released
    <3>1. stage[e] # "in" /\ released' = released \cup {e}
      BY <1>2, <2>2, <2>3 DEF Stages
    <3>2. list' = [list EXCEPT ![e] = {}]
      BY <1>6, <2>3 DEF EndTick
    <3> QED
      BY <2>1, <2>2, <3>1, <3>2, ListDies
  <2>4. CASE e \notin released
    <3>1. list' = list
      BY <1>6, <2>4 DEF EndTick
    <3> QED
      BY <1>2, <2>1, <2>2, <3>1, Staying
  <2> QED
    BY <2>3, <2>4
<1>7. CASE Doze(e) \/ Enter(e)
  BY <1>2, <1>7, Staying DEF Doze, Enter
<1>8. CASE Disconnect(e) \/ SetInvalid(e) \/ Kill(e)
  <2>1. \A g \in Entities : stage'[g] = "in" => stage[g] = "in"
    BY <1>2, <1>8 DEF Disconnect, SetInvalid, Kill, TypeOK
  <2> QED
    BY <1>2, <1>8, <2>1, Staying DEF Disconnect, SetInvalid, Kill
<1>9. CASE ReleaseViewList(e)
  <2>1. CASE e \in ticking
    BY <1>2, <1>9, <2>1, Staying DEF ReleaseViewList
  <2>2. CASE e \notin ticking
    <3>1. peer[e] = NoOne
      BY <1>2, <2>2 DEF TypeOK
    <3> QED
      BY <1>9, <2>2, <3>1, ListDies DEF ReleaseViewList
  <2> QED
    BY <2>1, <2>2
<1>10. CASE LeaveAndDisconnect(e)
  BY <1>2, <1>10, Staying DEF LeaveAndDisconnect
<1>11. ASSUME NEW p \in Places, Move(e, p) PROVE Agree'
  BY <1>2, <1>11, Staying DEF Move
<1>12. CASE BroadCast(e)
  BY <1>12, KillIsTold
<1> QED
  BY <1>3, <1>4, <1>5, <1>6, <1>7, <1>8, <1>9, <1>10, <1>11, <1>12 DEF TickStep, Leave

THEOREM Invariance == SafetySpec => []IInv
<1>1. IInv /\ [Next]_vars => IInv'
  BY TypeStep, StagesStep, AgreeStep DEF IInv
<1> QED
  BY <1>1, InitInv, PTL DEF SafetySpec

(* The lists keep their types: nobody lists itself, and a tick that is     *)
(* over leaves nothing behind.                                             *)
THEOREM TypeCorrect == SafetySpec => []TypeOK
<1>1. IInv => TypeOK
  BY DEF IInv
<1> QED
  BY <1>1, Invariance, PTL

(* Whatever order the packets of two ticks and of the broadcasts of a kill *)
(* are sent in, clients show those who list each other unless a kill took  *)
(* them off, nothing that is in no list, and no killed monster after its   *)
(* broadcast but one that their own tick will take off.                    *)
THEOREM ViewsAgree == SafetySpec => []ViewsMatchLists
<1>1. IInv => ViewsMatchLists
  BY DEF IInv, Agree, Lists, ViewsMatchLists
<1> QED
  BY <1>1, Invariance, PTL
=============================================================================
