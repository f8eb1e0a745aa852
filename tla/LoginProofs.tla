----------------------------- MODULE LoginProofs -----------------------------
(***************************************************************************)
(* The two invariants of the names, and the types of handler and query     *)
(* thread, for any sessions, any names and any choice of who sends what.   *)
(*                                                                         *)
(* What a session has of a name depends on where its handler is (Stages):  *)
(* it owns the flag from the exchange or the insert on, and its m_name is  *)
(* the user's from SetName on. OnDisconnected gives the flag back exactly  *)
(* when there is a name, so an owner is left behind only where it came     *)
(* before SetName.                                                         *)
(***************************************************************************)
EXTENDS Login, TLAPS

Named == {"swapTail", "linkNode", "notify", "requested"}

Stages == \A s \in Sessions :
  /\ name[s] = IF pc[s] \in Named THEN user[s] ELSE NoName
  /\ s \in owners => pc[s] \in Named \cup {"setName"}
  /\ pc[s] \in Named \cup {"setName"} /\ conn[s] # "closed" => s \in owners
  /\ conn[s] = "closed" /\ (pc[s] \in BeforeSetName \/ s \in owners) => s \in overtaken
  /\ s \in owners => flags[user[s]] # "absent"
  /\ pc[s] = "idle" /\ conn[s] = "none" => s \notin owners

FlagHasOwner == \A n \in Names : flags[n] = "up" => \E s \in Sessions : Owns(s, n)

Types ==
  /\ flags \in [Names -> Flags]
  /\ conn \in [Sessions -> {"none", "up", "lost", "closed"}]
  /\ pc \in [Sessions -> {"idle", "find", "exchange", "insert", "setName", "swapTail",
                          "linkNode", "notify", "requested"}]
  /\ name \in [Sessions -> Names \cup {NoName}]
  /\ answered \subseteq linked
  /\ owners \subseteq Sessions
  /\ raced \subseteq Names
  /\ overtaken \subseteq Sessions

IInv == TypeOK /\ Stages /\ FlagHasOwner /\ NameHasOneOwner

USE LoginAssumption
-----------------------------------------------------------------------------
LEMMA InitInv == Init => IInv
<1> SUFFICES ASSUME Init PROVE IInv
  OBVIOUS
<1>1. TypeOKDB
  <2>1. \A S : <<>> \in Seq(S)
    OBVIOUS
  <2>2. InitDB
    BY DEF Init
  <2> QED
    BY <2>1, <2>2 DEF InitDB, TypeOKDB
<1>2. TypeOK
  BY <1>1 DEF Init, InitDB, TypeOK, Flags
<1>3. Stages /\ FlagHasOwner /\ NameHasOneOwner
  BY DEF Init, Stages, BeforeSetName, FlagHasOwner, NameHasOneOwner, Owns, Named
<1> QED
  BY <1>2, <1>3 DEF IInv

(* The flush takes linked events only, and what is left is a queue.        *)
LEMMA FlushTypes ==
  ASSUME TypeOKDB, TryFlush
  PROVE  TypeOKDB'
<1> PICK k \in Reachable :
     Flush(k) /\ query' = IF k = 0 THEN "test" ELSE "execute"
  BY DEF TryFlush
<1>1. k \in 0..Len(queue) /\ \A i \in 1..k : queue[i] \in linked
  BY DEF Reachable
<1>2. queue \in Seq(Events) /\ Len(queue) \in Nat
  BY DEF TypeOKDB
<1>3. batch' \in Seq(linked) /\ Len(batch') = k
  BY <1>1, <1>2 DEF Flush
<1>4. queue' \in Seq(Events)
  BY <1>1, <1>2 DEF Flush
<1>5. k = 0 <=> batch' = <<>>
  BY <1>3
<1> QED
  BY <1>3, <1>4, <1>5 DEF TryFlush, TypeOKDB

LEMMA ExecuteTypes ==
  ASSUME TypeOKDB, NEW e \in Events, ExecuteQuery(e)
  PROVE  TypeOKDB'
<1>1. batch \in Seq(linked) /\ batch # <<>> /\ Head(batch) = e
  BY DEF ExecuteQuery, TypeOKDB
<1>2. Head(batch) \in linked /\ Tail(batch) \in Seq(linked)
  BY <1>1
<1> QED
  BY <1>1, <1>2 DEF ExecuteQuery, TypeOKDB, queueVars

LEMMA DBStep ==
  ASSUME TypeOK, [Next]_vars
  PROVE  TypeOKDB' /\ linked \subseteq linked'
<1> TypeOKDB
  BY DEF TypeOK
<1> USE DEF dbVars, queueVars, queryVars
<1>1. CASE UNCHANGED dbVars
  BY <1>1 DEF TypeOKDB
<1>2. ASSUME NEW s \in Sessions, Request(s) PROVE TypeOKDB' /\ linked \subseteq linked'
  <2>1. CASE SwapTail(s)
    BY <2>1 DEF SwapTail, TypeOKDB
  <2>2. CASE LinkNode(s)
    <3>1. linked \subseteq linked' /\ linked' \subseteq Events
      BY <2>2 DEF LinkNode, TypeOKDB
    <3>2. batch \in Seq(linked')
      BY <2>2, <3>1 DEF TypeOKDB
    <3> QED
      BY <2>2, <3>1, <3>2 DEF LinkNode, TypeOKDB
  <2>3. CASE NotifyOne
    <3>1. query' = "execute" <=> query = "execute"
      BY <2>3 DEF NotifyOne
    <3>2. query' \in {"test", "drowsy", "asleep", "flush", "execute"} /\ missed' \in BOOLEAN
      BY <2>3 DEF NotifyOne, TypeOKDB
    <3> QED
      BY <2>3, <3>1, <3>2 DEF NotifyOne, TypeOKDB
  <2> QED
    BY <1>2, <2>1, <2>2, <2>3 DEF Request
<1>3. CASE QueryStep
  <2>1. CASE TestEmpty \/ FallAsleep
    BY <2>1 DEF TestEmpty, FallAsleep, TypeOKDB
  <2>2. CASE TryFlush
    BY <2>2, FlushTypes DEF TryFlush
  <2>3. CASE \E e \in Events : ExecuteQuery(e)
    BY <2>3, ExecuteTypes DEF ExecuteQuery
  <2> QED
    BY <1>3, <2>1, <2>2, <2>3 DEF QueryStep, QueryThread
<1>4. CASE Wake
  BY <1>4 DEF Wake, WakeSpuriously, TypeOKDB
<1>5. ASSUME NEW s \in Sessions, DispatchLogin(s) PROVE TypeOKDB' /\ linked \subseteq linked'
  BY <1>5 DEF DispatchLogin, Dispatch, TypeOKDB
<1> QED
  BY <1>1, <1>2, <1>3, <1>4, <1>5 DEF Next, Handler, Receive, Find, TakeFlag, Refuse, Insert,
     SetName, Disconnect, OnDisconnected, vars
-----------------------------------------------------------------------------
LEMMA TypeStep == TypeOK /\ Stages /\ [Next]_vars => TypeOK'
<1> SUFFICES ASSUME TypeOK, Stages, [Next]_vars PROVE TypeOK'
  OBVIOUS
<1>1. TypeOKDB' /\ linked \subseteq linked'
  BY DBStep
<1>2. Types
  BY DEF TypeOK, Types
<1>3. \A s \in Sessions : user[s] \in Names /\ (name[s] # NoName => name[s] \in Names)
  BY DEF TypeOK
<1> USE DEF dbVars, sessionVars, historyVars
<1>4. ASSUME UNCHANGED vars PROVE Types'
  BY <1>2, <1>4 DEF Types, vars, queueVars
<1>5. ASSUME NEW s \in Sessions, Receive(s) PROVE Types'
  BY <1>2, <1>5 DEF Types, Receive, Goto, queueVars
<1>6. ASSUME NEW s \in Sessions, Handler(s) PROVE Types'
  <2>1. CASE Find(s)
    BY <1>2, <2>1 DEF Types, Find, Goto, queueVars
  <2>2. CASE TakeFlag(s)
    BY <1>2, <1>3, <2>2 DEF Types, TakeFlag, Goto, SetFlag, Flags, queueVars
  <2>3. CASE Refuse(s)
    BY <1>2, <2>3 DEF Types, Refuse, Goto, queueVars
  <2>4. CASE Insert(s)
    BY <1>2, <1>3, <2>4 DEF Types, Insert, Goto, SetFlag, Flags, queueVars
  <2>5. CASE SetName(s)
    BY <1>2, <1>3, <2>5 DEF Types, SetName, Goto, queueVars
  <2>6. CASE Request(s)
    BY <1>1, <1>2, <2>6 DEF Types, Request, Goto
  <2> QED
    BY <1>6, <2>1, <2>2, <2>3, <2>4, <2>5, <2>6 DEF Handler
<1>7. ASSUME NEW s \in Sessions, Disconnect(s) PROVE Types'
  BY <1>2, <1>7 DEF Types, Disconnect, queueVars
<1>8. ASSUME NEW s \in Sessions, OnDisconnected(s) PROVE Types'
  BY <1>2, <1>3, <1>8 DEF Types, OnDisconnected, SetFlag, Flags, queueVars
<1>9. ASSUME NEW s \in Sessions, DispatchLogin(s) PROVE Types'
  <2>1. s \in linked
    BY <1>9 DEF DispatchLogin, Dispatch, TypeOK, TypeOKDB
  <2>2. answered' \subseteq linked'
    BY <1>1, <1>2, <1>9, <2>1 DEF DispatchLogin, Types
  <2> QED
    BY <1>2, <1>9, <2>2 DEF Types, DispatchLogin
<1>10. ASSUME QueryStep \/ Wake PROVE Types'
  BY <1>1, <1>2, <1>10 DEF Types, QueryStep, Wake
<1>11. Types'
  BY <1>4, <1>5, <1>6, <1>7, <1>8, <1>9, <1>10 DEF Next
<1> QED
  BY <1>1, <1>11 DEF Types, TypeOK

(* Stages, one action at a time: s moves, the others do not.               *)
LEMMA StagesStep == TypeOK /\ Stages /\ [Next]_vars => Stages'
<1> SUFFICES ASSUME TypeOK, Stages, [Next]_vars PROVE Stages'
  OBVIOUS
<1>1. Types
  BY DEF TypeOK, Types
<1> USE DEF dbVars, sessionVars, historyVars
<1>2. CASE UNCHANGED vars
  BY <1>2 DEF Stages, vars
<1>3. ASSUME NEW s \in Sessions, Receive(s) PROVE Stages'
  BY <1>1, <1>3 DEF Types, Stages, Named, BeforeSetName, Receive, Goto
<1>4. ASSUME NEW s \in Sessions, Handler(s) PROVE Stages'
  <2>1. CASE Find(s)
    BY <1>1, <2>1 DEF Types, Stages, Named, BeforeSetName, Find, Goto
  <2>2. CASE TakeFlag(s)
    BY <1>1, <2>2 DEF Types, Stages, Named, BeforeSetName, TakeFlag, Goto, SetFlag
  <2>3. CASE Refuse(s)
    BY <1>1, <2>3 DEF Types, Stages, Named, BeforeSetName, Refuse, Goto
  <2>4. CASE Insert(s)
    BY <1>1, <2>4 DEF Types, Stages, Named, BeforeSetName, Insert, Goto, SetFlag
  <2>5. CASE SetName(s)
    BY <1>1, <2>5 DEF Types, Stages, Named, BeforeSetName, SetName, Goto
  <2>6. CASE Request(s)
    BY <1>1, <2>6 DEF Types, Stages, Named, BeforeSetName, Request, Goto
  <2> QED
    BY <1>4, <2>1, <2>2, <2>3, <2>4, <2>5, <2>6 DEF Handler
<1>5. ASSUME NEW s \in Sessions, Disconnect(s) PROVE Stages'
  BY <1>1, <1>5 DEF Types, Stages, Named, BeforeSetName, Disconnect
<1>6. ASSUME NEW s \in Sessions, OnDisconnected(s) PROVE Stages'
  BY <1>1, <1>6 DEF Types, Stages, Named, BeforeSetName, OnDisconnected, SetFlag
<1>7. ASSUME NEW s \in Sessions, DispatchLogin(s) PROVE Stages'
  BY <1>1, <1>7 DEF Types, Stages, Named, BeforeSetName, DispatchLogin
<1>8. CASE QueryStep \/ Wake
  BY <1>8 DEF Stages, QueryStep, Wake
<1> QED
  BY <1>2, <1>3, <1>4, <1>5, <1>6, <1>7, <1>8 DEF Next
-----------------------------------------------------------------------------
(* Who owns a name and its flag, when neither is touched.                  *)
NamesStay == UNCHANGED <<flags, owners, raced>>

LEMMA StayingNames ==
  ASSUME FlagHasOwner, NameHasOneOwner, NamesStay
  PROVE  FlagHasOwner' /\ NameHasOneOwner'
  BY DEF FlagHasOwner, NameHasOneOwner, Owns, NamesStay

(* A session takes a flag that was not up, and that nobody owned.          *)
LEMMA TakenName ==
  ASSUME Types, FlagHasOwner, NameHasOneOwner, NEW s \in Sessions,
         SetFlag(user[s], "up"), owners' = owners \cup {s}, raced' = raced,
         user[s] \in raced \/ \A t \in Sessions : ~ Owns(t, user[s])
  PROVE  FlagHasOwner' /\ NameHasOneOwner'
<1>1. user[s] \in Names
  OBVIOUS
<1>2. \A n \in Names : flags'[n] = IF n = user[s] THEN "up" ELSE flags[n]
  BY <1>1 DEF SetFlag, Types
<1>3. \A t \in Sessions, n \in Names : Owns(t, n)' <=> Owns(t, n) \/ (t = s /\ n = user[s])
  BY DEF Owns
<1>4. FlagHasOwner'
  BY <1>1, <1>2, <1>3 DEF FlagHasOwner
<1>5. NameHasOneOwner'
  <2> SUFFICES ASSUME NEW n \in Names, n \notin raced
               PROVE  /\ \A t, u \in Sessions : Owns(t, n)' /\ Owns(u, n)' => t = u
                      /\ flags'[n] = "up" <=> \E t \in Sessions : Owns(t, n)'
    BY DEF NameHasOneOwner
  <2>1. CASE n = user[s]
    BY <1>2, <1>3, <2>1
  <2>2. CASE n # user[s]
    BY <1>2, <1>3, <2>2 DEF NameHasOneOwner
  <2> QED
    BY <2>1, <2>2
<1> QED
  BY <1>4, <1>5

LEMMA InsertNames ==
  ASSUME Types, Stages, FlagHasOwner, NameHasOneOwner, NEW s \in Sessions, Insert(s)
  PROVE  FlagHasOwner' /\ NameHasOneOwner'
<1>1. user[s] \in Names
  OBVIOUS
<1>2. CASE flags[user[s]] = "absent"
  <2>1. \A t \in Sessions : ~ Owns(t, user[s])
    BY <1>2 DEF Stages, Owns
  <2> QED
    BY <1>2, <2>1, TakenName DEF Insert
<1>3. CASE flags[user[s]] # "absent"
  <2>1. flags' = flags /\ raced' = raced \cup {user[s]} /\ owners' = owners \cup {s}
    BY <1>3 DEF Insert
  <2>2. \A t \in Sessions, n \in Names : Owns(t, n)' <=> Owns(t, n) \/ (t = s /\ n = user[s])
    BY <2>1 DEF Owns
  <2>3. FlagHasOwner'
    BY <2>1, <2>2 DEF FlagHasOwner
  <2>4. NameHasOneOwner'
    BY <2>1, <2>2 DEF NameHasOneOwner
  <2> QED
    BY <2>3, <2>4
<1> QED
  BY <1>2, <1>3

LEMMA OnDisconnectedNames ==
  ASSUME Types, Stages, FlagHasOwner, NameHasOneOwner, NEW s \in Sessions, OnDisconnected(s)
  PROVE  FlagHasOwner' /\ NameHasOneOwner'
<1>1. CASE name[s] = NoName
  BY <1>1, StayingNames DEF OnDisconnected, NamesStay
<1>2. CASE name[s] # NoName
  <2>1. name[s] = user[s] /\ user[s] \in Names /\ s \in owners
    BY <1>2 DEF Stages, OnDisconnected, Named
  <2>2. owners' = owners \ {s} /\ raced' = raced
    BY <1>2 DEF OnDisconnected
  <2>3. \A n \in Names : flags'[n] = IF n = user[s] THEN "down" ELSE flags[n]
    BY <1>2, <2>1 DEF OnDisconnected, SetFlag, Types
  <2>4. \A t \in Sessions, n \in Names : Owns(t, n)' <=> Owns(t, n) /\ t # s
    BY <2>2 DEF Owns
  <2>5. \A n \in Names : Owns(s, n) <=> n = user[s]
    BY <2>1 DEF Owns
  <2>6. FlagHasOwner'
    <3> SUFFICES ASSUME NEW n \in Names, flags'[n] = "up"
                 PROVE  \E t \in Sessions : Owns(t, n)'
      BY DEF FlagHasOwner
    <3>1. n # user[s] /\ flags[n] = "up"
      BY <2>3
    <3>2. PICK t \in Sessions : Owns(t, n)
      BY <3>1 DEF FlagHasOwner
    <3> QED
      BY <3>1, <3>2, <2>4, <2>5
  <2>7. NameHasOneOwner'
    <3> SUFFICES ASSUME NEW n \in Names, n \notin raced
                 PROVE  /\ \A t, u \in Sessions : Owns(t, n)' /\ Owns(u, n)' => t = u
                        /\ flags'[n] = "up" <=> \E t \in Sessions : Owns(t, n)'
      BY <2>2 DEF NameHasOneOwner
    <3>1. \A t, u \in Sessions : Owns(t, n) /\ Owns(u, n) => t = u
      BY DEF NameHasOneOwner
    <3>2. CASE n = user[s]
      BY <3>1, <3>2, <2>1, <2>3, <2>4, <2>5
    <3>3. CASE n # user[s]
      BY <3>1, <3>3, <2>3, <2>4, <2>5 DEF NameHasOneOwner
    <3> QED
      BY <3>2, <3>3
  <2> QED
    BY <2>6, <2>7
<1> QED
  BY <1>1, <1>2

LEMMA NamesStep == IInv /\ [Next]_vars => FlagHasOwner' /\ NameHasOneOwner'
<1> SUFFICES ASSUME IInv, [Next]_vars PROVE FlagHasOwner' /\ NameHasOneOwner'
  OBVIOUS
<1>1. Types /\ Stages /\ FlagHasOwner /\ NameHasOneOwner
  BY DEF IInv, TypeOK, Types
<1>2. CASE NamesStay
  BY <1>1, <1>2, StayingNames
<1>3. ASSUME NEW s \in Sessions, TakeFlag(s) PROVE FlagHasOwner' /\ NameHasOneOwner'
  <2>1. user[s] \in Names /\ flags[user[s]] # "up"
    BY <1>3 DEF TakeFlag
  <2>2. user[s] \in raced \/ \A t \in Sessions : ~ Owns(t, user[s])
    BY <1>1, <2>1 DEF NameHasOneOwner
  <2> QED
    BY <1>1, <1>3, <2>2, TakenName DEF TakeFlag
<1>4. ASSUME NEW s \in Sessions, Insert(s) PROVE FlagHasOwner' /\ NameHasOneOwner'
  BY <1>1, <1>4, InsertNames
<1>5. ASSUME NEW s \in Sessions, OnDisconnected(s) PROVE FlagHasOwner' /\ NameHasOneOwner'
  BY <1>1, <1>5, OnDisconnectedNames
<1>6. \/ NamesStay
      \/ \E s \in Sessions : TakeFlag(s) \/ Insert(s) \/ OnDisconnected(s)
  BY DEF Next, Handler, Receive, Find, Refuse, SetName, Request, Disconnect, DispatchLogin,
         QueryStep, Wake, NamesStay, historyVars, vars
<1> QED
  BY <1>2, <1>3, <1>4, <1>5, <1>6

THEOREM Invariance == Spec => []IInv
<1>1. IInv /\ [Next]_vars => IInv'
  BY TypeStep, StagesStep, NamesStep DEF IInv
<1> QED
  BY <1>1, InitInv, PTL DEF Spec

(* The handlers, the query thread and the table of names keep their types: *)
(* the query thread takes only events it can reach.                        *)
THEOREM TypeCorrect == Spec => []TypeOK
<1>1. IInv => TypeOK
  BY DEF IInv
<1> QED
  BY <1>1, Invariance, PTL

(* Short of two first logins that meet in insert, a name has one session.  *)
THEOREM OneOwner == Spec => []NameHasOneOwner
<1>1. IInv => NameHasOneOwner
  BY DEF IInv
<1> QED
  BY <1>1, Invariance, PTL

(* A flag is up only for a session that will give it back, or for one      *)
(* whose OnDisconnected came before SetName.                               *)
THEOREM NamesAreFreed == Spec => []NoNameIsLockedOut
<1>1. IInv => NoNameIsLockedOut
  <2> SUFFICES ASSUME IInv, NEW n \in Names, flags[n] = "up"
               PROVE  \E s \in Sessions :
                        Owns(s, n) /\ (conn[s] # "closed" \/ s \in overtaken)
    BY DEF NoNameIsLockedOut
  <2>1. PICK s \in Sessions : Owns(s, n)
    BY DEF IInv, FlagHasOwner
  <2>2. conn[s] # "closed" \/ s \in overtaken
    BY <2>1 DEF IInv, Stages, Owns
  <2> QED
    BY <2>1, <2>2
<1> QED
  BY <1>1, Invariance, PTL
=============================================================================
