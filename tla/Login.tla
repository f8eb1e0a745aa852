-------------------------------- MODULE Login --------------------------------
(***************************************************************************)
(* Logging in: Handle_c2s_LOGIN takes the flag of a name in g_connectHash  *)
(* and asks the query thread (DBQueue) for the player; OnDisconnected of   *)
(* ClientSession gives the flag back, by the name the session has then.    *)
(*                                                                         *)
(* The client sends one LOGIN in a connection and exits when it is refused *)
(* (Terraria-Replica.cpp:110, Handle_s2c_LOGIN_FAIL), so a session is one  *)
(* attempt. The connection may be lost at any time, by a send of the       *)
(* handler itself, too, and OnDisconnected then runs on another worker     *)
(* while the handler goes on. What a login does with the player is in      *)
(* Sector.                                                                 *)
(*                                                                         *)
(* m_name is written and read without a lock. A reader that meets strcpy_s *)
(* finds a beginning of the name; no such beginning is taken for a name.   *)
(***************************************************************************)
EXTENDS DBQueue, FiniteSets

CONSTANTS
  Sessions, Names, NoName,
  user,         (* per session, the name its client sends                  *)
  Lossy         (* bound: the sessions whose connection may be lost        *)

ASSUME LoginAssumption ==
  /\ NoName \notin Names /\ Events = Sessions
  /\ user \in [Sessions -> Names] /\ Lossy \subseteq Sessions

VARIABLES
  flags,     (* g_connectHash: the names in it, and their atomic_bool      *)
  conn,      (* per session, its connection                                *)
  pc,        (* per session, where its handler is                          *)
  name,      (* per session, m_name                                        *)
  answered,  (* sessions whose login event has been dispatched             *)
  owners,    (* history: sessions let in that have not given a flag back   *)
  raced,     (* history: names two sessions were let in with by insert     *)
  overtaken  (* history: sessions whose OnDisconnected came before SetName *)

sessionVars == <<conn, pc, name>>
historyVars == <<owners, raced, overtaken>>
vars == <<dbVars, flags, sessionVars, answered, historyVars>>

Flags == {"absent", "down", "up"}

Init ==
  /\ InitDB
  /\ flags = [n \in Names |-> "absent"]
  /\ conn = [s \in Sessions |-> "none"]
  /\ pc = [s \in Sessions |-> "idle"]
  /\ name = [s \in Sessions |-> NoName]
  /\ answered = {} /\ owners = {} /\ raced = {} /\ overtaken = {}

Goto(s, from, to) == pc[s] = from /\ pc' = [pc EXCEPT ![s] = to]

SetFlag(n, value) == flags' = [flags EXCEPT ![n] = value]

(* The connection is made and its LOGIN received.                          *)
Receive(s) ==
  /\ conn[s] = "none"
  /\ conn' = [conn EXCEPT ![s] = "up"]
  /\ Goto(s, "idle", "find")
  /\ UNCHANGED <<dbVars, flags, name, answered, historyVars>>

Find(s) ==
  /\ Goto(s, "find", IF flags[user[s]] = "absent" THEN "insert" ELSE "exchange")
  /\ UNCHANGED <<dbVars, flags, conn, name, answered, historyVars>>

(* Mutant: the flag is stored without an exchange.                         *)
StoreFlag(s) ==
  /\ Goto(s, "exchange", "setName")
  /\ SetFlag(user[s], "up")
  /\ owners' = owners \cup {s}
  /\ UNCHANGED <<dbVars, conn, name, answered, raced, overtaken>>

(* compare_exchange_strong succeeds, or the client is told that it is      *)
(* connected already.                                                      *)
TakeFlag(s) ==
  /\ Goto(s, "exchange", "setName") /\ flags[user[s]] = "down"
  /\ SetFlag(user[s], "up")
  /\ owners' = owners \cup {s}
  /\ UNCHANGED <<dbVars, conn, name, answered, raced, overtaken>>

Refuse(s) ==
  /\ Goto(s, "exchange", "idle") /\ flags[user[s]] = "up"
  /\ UNCHANGED <<dbVars, flags, conn, name, answered, historyVars>>

(* insert keeps the entry that is there, and nobody looks at its result.   *)
Insert(s) ==
  /\ Goto(s, "insert", "setName")
  /\ IF flags[user[s]] = "absent"
     THEN SetFlag(user[s], "up") /\ UNCHANGED raced
     ELSE raced' = raced \cup {user[s]} /\ UNCHANGED flags
  /\ owners' = owners \cup {s}
  /\ UNCHANGED <<dbVars, conn, name, answered, overtaken>>

(* The replies are sent and m_name is set.                                 *)
SetName(s) ==
  /\ Goto(s, "setName", "swapTail")
  /\ name' = [name EXCEPT ![s] = user[s]]
  /\ UNCHANGED <<dbVars, flags, conn, answered, historyVars>>

(* RequestQuery.                                                           *)
Request(s) ==
  /\ \/ Goto(s, "swapTail", "linkNode") /\ SwapTail(s)
     \/ Goto(s, "linkNode", "notify") /\ LinkNode(s)
     \/ Goto(s, "notify", "requested") /\ NotifyOne
  /\ UNCHANGED <<flags, conn, name, answered, historyVars>>

-----------------------------------------------------------------------------
(* Session::Disconnect, whoever calls it.                                  *)
Disconnect(s) ==
  /\ s \in Lossy /\ conn[s] = "up"
  /\ conn' = [conn EXCEPT ![s] = "lost"]
  /\ UNCHANGED <<dbVars, flags, pc, name, answered, historyVars>>

BeforeSetName == {"find", "exchange", "insert", "setName"}

(* Mutant: the flag of the name is left alone.                             *)
CloseOnly(s) ==
  /\ conn[s] = "lost"
  /\ conn' = [conn EXCEPT ![s] = "closed"]
  /\ overtaken' = IF pc[s] \in BeforeSetName THEN overtaken \cup {s} ELSE overtaken
  /\ UNCHANGED <<dbVars, flags, owners, pc, name, answered, raced>>

(* OnDisconnected, at its last step: it finds the flag of m_name, if there *)
(* is one, and stores false. Nothing can happen between the two that the   *)
(* one would tell from the other: an entry is never erased.                *)
OnDisconnected(s) ==
  /\ conn[s] = "lost"
  /\ conn' = [conn EXCEPT ![s] = "closed"]
  /\ overtaken' = IF pc[s] \in BeforeSetName THEN overtaken \cup {s} ELSE overtaken
  /\ IF name[s] = NoName
     THEN UNCHANGED <<flags, owners>>
     ELSE SetFlag(name[s], "down") /\ owners' = owners \ {s}
  /\ UNCHANGED <<dbVars, pc, name, answered, raced>>

-----------------------------------------------------------------------------
QueryStep ==
  /\ QueryThread
  /\ UNCHANGED <<flags, sessionVars, answered, historyVars>>

Wake ==
  /\ WakeSpuriously
  /\ UNCHANGED <<flags, sessionVars, answered, historyVars>>

(* DB_PlayerLogin::Dispatch: the player enters, unless the query failed,   *)
(* which disconnects the session, or the session is disconnected.          *)
DispatchLogin(s) ==
  /\ Dispatch(s)
  /\ answered' = answered \cup {s}
  /\ \/ UNCHANGED conn
     \/ s \in Lossy /\ conn[s] = "up" /\ conn' = [conn EXCEPT ![s] = "lost"]
  /\ UNCHANGED <<flags, pc, name, historyVars>>

Handler(s) == Find(s) \/ TakeFlag(s) \/ Refuse(s) \/ Insert(s) \/ SetName(s) \/ Request(s)

Next ==
  \/ \E s \in Sessions :
       \/ Receive(s) \/ Handler(s)
       \/ Disconnect(s) \/ OnDisconnected(s) \/ DispatchLogin(s)
  \/ QueryStep \/ Wake

(* The threads are scheduled. Whether a connection is lost, and whether a  *)
(* condition variable wakes without being notified, is nobody's duty.      *)
Workers == \E s \in Sessions : Handler(s) \/ DispatchLogin(s)

Spec == Init /\ [][Next]_vars /\ WF_vars(QueryStep) /\ WF_vars(Workers)
-----------------------------------------------------------------------------
TypeOK ==
  /\ TypeOKDB
  /\ flags \in [Names -> Flags]
  /\ conn \in [Sessions -> {"none", "up", "lost", "closed"}]
  /\ pc \in [Sessions -> {"idle", "find", "exchange", "insert", "setName", "swapTail",
                          "linkNode", "notify", "requested"}]
  /\ name \in [Sessions -> Names \cup {NoName}]
  /\ answered \subseteq linked
  /\ owners \subseteq Sessions
  /\ raced \subseteq Names
  /\ overtaken \subseteq Sessions

Owns(s, n) == s \in owners /\ user[s] = n

(* Unless two first logins of a name met in insert, one session at a time  *)
(* plays under a name, and the flag is up exactly while one does.          *)
NameHasOneOwner ==
  \A n \in Names \ raced :
    /\ \A s, t \in Sessions : Owns(s, n) /\ Owns(t, n) => s = t
    /\ flags[n] = "up" <=> \E s \in Sessions : Owns(s, n)

(* A name nobody plays under can be taken: a flag is up for a session that *)
(* is there and will give it back, or for one whose OnDisconnected came    *)
(* before SetName and found no name to look up.                            *)
NoNameIsLockedOut ==
  \A n \in Names : flags[n] = "up" =>
    \E s \in Sessions :
      Owns(s, n) /\ (conn[s] # "closed" \/ s \in overtaken)

(* Every login that was queued is answered, unless the one notification    *)
(* after the query thread found nothing came before it was asleep: then it *)
(* waits for the next login.                                               *)
RequestIsServed ==
  \A s \in Sessions : pc[s] = "requested" ~> (s \in answered \/ missed)
=============================================================================
