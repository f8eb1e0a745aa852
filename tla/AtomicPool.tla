------------------------------ MODULE AtomicPool ------------------------------
(***************************************************************************)
(* One pool of memory blocks (ServerCore/AtomicNonTemplate.cpp): a free    *)
(* list whose head is one word, the pointer packed with a tag that counts  *)
(* the changes of the head. AtomicMemoryPool.hpp is the same code for one  *)
(* type.                                                                   *)
(*                                                                         *)
(* Every thread has pools of its own to allocate from, by its number       *)
(* modulo NUM_OF_THREADS (MemoryMgr::Allocate), so few threads allocate    *)
(* from one pool: the owner, and for three of the ten pools a second one   *)
(* (the main, the timer and the query thread). Any thread gives blocks     *)
(* back (MemoryMgr::Release).                                              *)
(*                                                                         *)
(* The header of a block is no part of what its holder is given, so the    *)
(* next pointer may be read after another thread has taken the block.      *)
(***************************************************************************)
EXTENDS Integers, Sequences

CONSTANTS
  Threads, Allocators,
  Blocks, NoBlock,
  Chunk,       (* the blocks of blockStart, in the order of initialize     *)
  Tags         (* the number of tags, 2^19 in the code                     *)

ASSUME PoolAssumption ==
  /\ Allocators \subseteq Threads
  /\ NoBlock \notin Blocks
  /\ Chunk \in Seq(Blocks)
  /\ \A i, j \in 1..Len(Chunk) : Chunk[i] = Chunk[j] => i = j
  /\ Tags \in Nat \ {0}

VARIABLES
  head,      (* pointer and tag                                            *)
  next,      (* per block, the pointer in its Block::combined              *)
  fresh,     (* blocks _aligned_malloc may still return                    *)
  given,     (* per block, how many callers were given it and have it      *)
  pc,
  old,       (* per thread, oldCombined or oldHead                         *)
  block,     (* per thread, nextBlock in allocate, blockPtr in deallocate  *)
  age,       (* history: changes of head since allocate read it, to Tags   *)
  free,      (* history: the blocks of the free list, in order             *)
  wrapped    (* history: a pop succeeded after a whole cycle of the tags   *)

listVars   == <<head, next, fresh, free>>
threadVars == <<pc, old, block>>
vars == <<listVars, threadVars, given, age, wrapped>>

Word == [ptr : Blocks \cup {NoBlock}, tag : 0..(Tags - 1)]
NullWord == [ptr |-> NoBlock, tag |-> 0]
First(s) == IF s = <<>> THEN NoBlock ELSE s[1]

(* initialize chains the blocks of the chunk.                              *)
Init ==
  /\ head = [ptr |-> First(Chunk), tag |-> 0]
  /\ fresh = {b \in Blocks : \A i \in 1..Len(Chunk) : Chunk[i] # b}
  /\ next \in [Blocks -> Blocks \cup {NoBlock}]
  /\ \A i \in 1..Len(Chunk) :
       next[Chunk[i]] = IF i = Len(Chunk) THEN NoBlock ELSE Chunk[i + 1]
  /\ \A b \in fresh : next[b] = NoBlock
  /\ given = [b \in Blocks |-> 0]
  /\ pc = [t \in Threads |-> "idle"]
  /\ old = [t \in Threads |-> NullWord]
  /\ block = [t \in Threads |-> NoBlock]
  /\ age = [t \in Threads |-> 0]
  /\ free = Chunk
  /\ wrapped = FALSE

(* Thread t reads head: at first, and by a compare_exchange that fails.    *)
LoadHead(t, label) ==
  /\ old' = [old EXCEPT ![t] = head]
  /\ age' = [age EXCEPT ![t] = 0]
  /\ pc' = [pc EXCEPT ![t] = label]

(* Mutants: the tag is packed as it was, or is not cut to its bits.        *)
SameTag(tag) == tag
WideTag(tag) == tag + 1

(* unpackTag plus one, cut to the bits packPointerAndTag has for it.       *)
NextTag(tag) == IF tag = Tags - 1 THEN 0 ELSE tag + 1

(* The call of t is over, and its local variables with it.                 *)
Return(t) ==
  /\ pc' = [pc EXCEPT ![t] = "idle"]
  /\ old' = [old EXCEPT ![t] = NullWord]
  /\ block' = [block EXCEPT ![t] = NoBlock]

(* The compare_exchange of t succeeds: head is what t read.                *)
Exchange(t, ptr) ==
  /\ head = old[t]
  /\ head' = [ptr |-> ptr, tag |-> NextTag(old[t].tag)]
  /\ age' = [u \in Threads |-> IF u # t /\ pc[u] \in {"allocate", "pop"}
                               THEN IF age[u] = Tags THEN Tags ELSE age[u] + 1
                               ELSE 0]
  /\ Return(t)

-----------------------------------------------------------------------------
Allocate(t) ==
  /\ t \in Allocators /\ pc[t] = "idle"
  /\ LoadHead(t, "allocate")
  /\ UNCHANGED <<listVars, block, given, wrapped>>

(* allocateNewBlock, which also notes the block for the destructor.        *)
AllocateNewBlock(t, b) ==
  /\ pc[t] = "allocate" /\ old[t].ptr = NoBlock
  /\ b \in fresh
  /\ fresh' = fresh \ {b}
  /\ given' = [given EXCEPT ![b] = @ + 1]
  /\ age' = [age EXCEPT ![t] = 0]
  /\ Return(t)
  /\ UNCHANGED <<head, next, free, wrapped>>

ReadNext(t) ==
  /\ pc[t] = "allocate" /\ old[t].ptr # NoBlock
  /\ block' = [block EXCEPT ![t] = next[old[t].ptr]]
  /\ pc' = [pc EXCEPT ![t] = "pop"]
  /\ UNCHANGED <<listVars, old, given, age, wrapped>>

Pop(t) ==
  /\ pc[t] = "pop" /\ ~ wrapped
  /\ Exchange(t, block[t])
  /\ given' = [given EXCEPT ![old[t].ptr] = @ + 1]
  /\ free' = IF free = <<>> THEN <<>> ELSE Tail(free)
  /\ wrapped' = IF age[t] = Tags /\ Allocators # {t} THEN TRUE ELSE wrapped
  /\ UNCHANGED <<next, fresh>>

RetryPop(t) ==
  /\ pc[t] = "pop"
  /\ LoadHead(t, "allocate")
  /\ UNCHANGED <<listVars, block, given, wrapped>>

-----------------------------------------------------------------------------
(* A caller gives back a block, whichever thread it was given to.          *)
Deallocate(t, b) ==
  /\ pc[t] = "idle" /\ given[b] > 0
  /\ given' = [given EXCEPT ![b] = @ - 1]
  /\ block' = [block EXCEPT ![t] = b]
  /\ LoadHead(t, "link")
  /\ UNCHANGED <<listVars, wrapped>>

Link(t) ==
  /\ pc[t] = "link"
  /\ next' = [next EXCEPT ![block[t]] = old[t].ptr]
  /\ pc' = [pc EXCEPT ![t] = "push"]
  /\ UNCHANGED <<head, fresh, free, old, block, given, age, wrapped>>

Push(t) ==
  /\ pc[t] = "push"
  /\ Exchange(t, block[t])
  /\ free' = <<block[t]>> \o free
  /\ UNCHANGED <<next, fresh, given, wrapped>>

RetryPush(t) ==
  /\ pc[t] = "push"
  /\ LoadHead(t, "link")
  /\ UNCHANGED <<listVars, block, given, wrapped>>

Next == \E t \in Threads :
  \/ Allocate(t) \/ (\E b \in Blocks : AllocateNewBlock(t, b))
  \/ ReadNext(t) \/ Pop(t) \/ RetryPop(t)
  \/ (\E b \in Blocks : Deallocate(t, b))
  \/ Link(t) \/ Push(t) \/ RetryPush(t)

Spec == Init /\ [][Next]_vars
-----------------------------------------------------------------------------
TypeOK ==
  /\ head \in Word
  /\ next \in [Blocks -> Blocks \cup {NoBlock}]
  /\ fresh \subseteq Blocks
  /\ given \in [Blocks -> Nat]
  /\ pc \in [Threads -> {"idle", "allocate", "pop", "link", "push"}]
  /\ old \in [Threads -> Word]
  /\ block \in [Threads -> Blocks \cup {NoBlock}]
  /\ age \in [Threads -> 0..Tags]
  /\ free \in Seq(Blocks)
  /\ wrapped \in BOOLEAN

(* The list that starts at head is free: it ends, and visits no block twice. *)
ListIsFree ==
  /\ head.ptr = First(free)
  /\ \A i \in 1..Len(free) : next[free[i]] = IF i = Len(free) THEN NoBlock ELSE free[i + 1]
  /\ \A i, j \in 1..Len(free) : free[i] = free[j] => i = j

InList(b) == \E i \in 1..Len(free) : free[i] = b
Giving(t, b) == pc[t] \in {"link", "push"} /\ block[t] = b

(* A block is in the list, not used yet, with one caller, or being given   *)
(* back by one thread: in one of the four, and at least in one.            *)
OneOwner(b) ==
  /\ given[b] \in {0, 1}
  /\ \A t, u \in Threads : Giving(t, b) /\ Giving(u, b) => t = u
  /\ \A t \in Threads : Giving(t, b) => given[b] = 0 /\ b \notin fresh /\ ~ InList(b)
  /\ given[b] = 1 => b \notin fresh /\ ~ InList(b)
  /\ b \in fresh => ~ InList(b)
NotLost(b) ==
  b \in fresh \/ given[b] > 0 \/ InList(b) \/ \E t \in Threads : Giving(t, b)

(* Unless a thread slept in its pop through a whole cycle of the tags while *)
(* another one allocates from the pool, the pool gives every block to one  *)
(* caller at a time and loses none.                                        *)
BlocksArePartitioned ==
  ~ wrapped => ListIsFree /\ \A b \in Blocks : OneOwner(b) /\ NotLost(b)
=============================================================================
