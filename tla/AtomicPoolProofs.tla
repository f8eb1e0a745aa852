--------------------------- MODULE AtomicPoolProofs ---------------------------
(***************************************************************************)
(* BlocksArePartitioned, for any threads, blocks and number of tags.       *)
(*                                                                         *)
(* The compare_exchange of a pop compares a pointer and a tag. The tag     *)
(* tells apart any two heads fewer than Tags changes from each other       *)
(* (Ages), so a pop that succeeds and did not sleep through a whole cycle  *)
(* saw the present head, and what it read in the block is still there      *)
(* (Pops). Where one thread allocates, the block it looks at cannot leave  *)
(* the list, and its pop is right whatever the tag says.                   *)
(***************************************************************************)
EXTENDS AtomicPool, TLAPS

Popping(t) == pc[t] \in {"allocate", "pop"}

(* What t saw of the list still holds.                                     *)
Current(t) == age[t] = 0 \/ Allocators = {t}

AllocatorsPop == \A t \in Threads : Popping(t) => t \in Allocators

Ages == \A t \in Threads : Popping(t) =>
  /\ age[t] = 0 => old[t] = head
  /\ age[t] < Tags => \/ head.tag = old[t].tag + age[t]
                      \/ head.tag = old[t].tag + age[t] - Tags

PopsSomething == \A t \in Threads : pc[t] = "pop" => old[t].ptr \in Blocks

Pops == \A t \in Threads :
  Popping(t) /\ Current(t) /\ old[t].ptr # NoBlock =>
    /\ InList(old[t].ptr)
    /\ pc[t] = "pop" => block[t] = next[old[t].ptr]

GivesSomething == \A t \in Threads : pc[t] \in {"link", "push"} => block[t] \in Blocks

Gives == \A t \in Threads : pc[t] = "push" => next[block[t]] = old[t].ptr

Owners == \A b \in Blocks : OneOwner(b)
NoneLost == \A b \in Blocks : NotLost(b)

ListInv == ListIsFree /\ Owners /\ NoneLost /\ Pops /\ Gives

Moves == AllocatorsPop /\ Ages /\ PopsSomething /\ GivesSomething

IInv == TypeOK /\ Moves /\ (~ wrapped => ListInv)
-----------------------------------------------------------------------------
LEMMA InitInv == Init => IInv
<1> SUFFICES ASSUME Init PROVE IInv
  OBVIOUS
<1> USE PoolAssumption
<1>1. First(Chunk) \in Blocks \cup {NoBlock}
  BY DEF First
<1>2. TypeOK
  <2>1. head \in Word /\ NullWord \in Word
    BY <1>1 DEF Init, Word, NullWord
  <2>2. free \in Seq(Blocks) /\ wrapped \in BOOLEAN /\ fresh \subseteq Blocks
    BY DEF Init
  <2>3. given \in [Blocks -> Nat] /\ age \in [Threads -> 0..Tags]
    BY DEF Init
  <2>4. old \in [Threads -> Word] /\ block \in [Threads -> Blocks \cup {NoBlock}]
    BY <2>1 DEF Init
  <2> QED
    BY <2>1, <2>2, <2>3, <2>4 DEF Init, TypeOK
<1>3. ListIsFree
  <2>1. free = Chunk /\ head.ptr = First(free)
    BY DEF Init
  <2>2. \A i \in 1..Len(free) : next[free[i]] = IF i = Len(free) THEN NoBlock ELSE free[i + 1]
    BY <2>1 DEF Init
  <2> QED
    BY <2>1, <2>2 DEF ListIsFree
<1>4. Owners /\ NoneLost
  <2> SUFFICES ASSUME NEW b \in Blocks PROVE OneOwner(b) /\ NotLost(b)
    BY DEF Owners, NoneLost
  <2>1. given[b] = 0 /\ \A t \in Threads : ~ Giving(t, b)
    BY DEF Init, Giving
  <2>2. b \in fresh <=> ~ InList(b)
    BY DEF Init, InList
  <2> QED
    BY <2>1, <2>2 DEF OneOwner, NotLost
<1> QED
  BY <1>2, <1>3, <1>4 DEF Init, IInv, ListInv, Moves, GivesSomething, AllocatorsPop, Ages, PopsSomething, Pops, Gives, Popping
-----------------------------------------------------------------------------
LEMMA TagsCycle == \A tag \in 0..(Tags - 1) : NextTag(tag) \in 0..(Tags - 1)
  BY PoolAssumption DEF NextTag

LEMMA ExchangeTypes ==
  ASSUME TypeOK, NEW t \in Threads, NEW ptr \in Blocks \cup {NoBlock}, Exchange(t, ptr)
  PROVE  /\ head' \in Word
         /\ pc' \in [Threads -> {"idle", "allocate", "pop", "link", "push"}]
         /\ old' \in [Threads -> Word]
         /\ block' \in [Threads -> Blocks \cup {NoBlock}]
         /\ age' \in [Threads -> 0..Tags]
<1>1. old[t].tag \in 0..(Tags - 1) /\ NullWord \in Word
  BY PoolAssumption DEF TypeOK, Word, NullWord
<1>2. head' \in Word
  BY <1>1, TagsCycle DEF Exchange, Word
<1>3. \A u \in Threads : age[u] \in 0..Tags
  BY DEF TypeOK
<1>4. age' \in [Threads -> 0..Tags]
  BY <1>3, PoolAssumption DEF Exchange
<1> QED
  BY <1>1, <1>2, <1>4 DEF Exchange, Return, TypeOK

LEMMA TypeStep == TypeOK /\ Moves /\ [Next]_vars => TypeOK'
<1> SUFFICES ASSUME TypeOK, Moves, Next PROVE TypeOK'
  BY DEF TypeOK, vars, listVars, threadVars
<1> PICK t \in Threads :
     \/ Allocate(t) \/ (\E b \in Blocks : AllocateNewBlock(t, b))
     \/ ReadNext(t) \/ Pop(t) \/ RetryPop(t)
     \/ (\E b \in Blocks : Deallocate(t, b))
     \/ Link(t) \/ Push(t) \/ RetryPush(t)
  BY DEF Next
<1> NullWord \in Word /\ 0 \in 0..Tags
  BY PoolAssumption DEF Word, NullWord
<1> old[t].ptr \in Blocks \cup {NoBlock}
  BY DEF TypeOK, Word
<1>1. CASE Allocate(t)
  BY <1>1 DEF Allocate, LoadHead, TypeOK, listVars
<1>2. CASE \E b \in Blocks : AllocateNewBlock(t, b)
  BY <1>2 DEF AllocateNewBlock, Return, TypeOK
<1>3. CASE ReadNext(t)
  BY <1>3 DEF ReadNext, TypeOK, listVars
<1>4. CASE Pop(t)
  <2>1. Exchange(t, block[t]) /\ block[t] \in Blocks \cup {NoBlock}
    BY <1>4 DEF Pop, TypeOK
  <2>2. given' \in [Blocks -> Nat]
    <3>1. old[t].ptr \in Blocks /\ given[old[t].ptr] \in Nat
      BY <1>4 DEF Pop, TypeOK, Moves, PopsSomething
    <3> QED
      BY <1>4, <3>1 DEF Pop, TypeOK
  <2>3. free' \in Seq(Blocks)
    BY <1>4 DEF Pop, TypeOK
  <2>4. wrapped' \in BOOLEAN
    BY <1>4 DEF Pop, TypeOK
  <2> QED
    BY <1>4, <2>1, <2>2, <2>3, <2>4, ExchangeTypes DEF Pop, TypeOK
<1>5. CASE RetryPop(t)
  BY <1>5 DEF RetryPop, LoadHead, TypeOK, listVars
<1>6. CASE \E b \in Blocks : Deallocate(t, b)
  <2> PICK b \in Blocks : Deallocate(t, b)
    BY <1>6
  <2>1. given[b] - 1 \in Nat
    BY DEF Deallocate, TypeOK
  <2> QED
    BY <2>1 DEF Deallocate, LoadHead, TypeOK, listVars
<1>7. CASE Link(t)
  BY <1>7 DEF Link, TypeOK
<1>8. CASE Push(t)
  <2>1. Exchange(t, block[t]) /\ block[t] \in Blocks \cup {NoBlock}
    BY <1>8 DEF Push, TypeOK
  <2>2. free' \in Seq(Blocks)
    BY <1>8 DEF Push, TypeOK, Moves, GivesSomething
  <2> QED
    BY <1>8, <2>1, <2>2, ExchangeTypes DEF Push, TypeOK
<1>9. CASE RetryPush(t)
  BY <1>9 DEF RetryPush, LoadHead, TypeOK, listVars
<1> QED
  BY <1>1, <1>2, <1>3, <1>4, <1>5, <1>6, <1>7, <1>8, <1>9
-----------------------------------------------------------------------------
(* Head stays, and t alone moves.                                          *)
Still(t) ==
  /\ head' = head
  /\ \A u \in Threads : u # t =>
       pc'[u] = pc[u] /\ old'[u] = old[u] /\ block'[u] = block[u] /\ age'[u] = age[u]

LEMMA StillMoves ==
  ASSUME TypeOK, Moves, NEW t \in Threads, Still(t),
         Popping(t)' => /\ t \in Allocators
                        /\ \/ old'[t] = head /\ age'[t] = 0
                           \/ Popping(t) /\ old'[t] = old[t] /\ age'[t] = age[t],
         pc'[t] = "pop" => old'[t].ptr \in Blocks,
         pc'[t] \in {"link", "push"} => block'[t] \in Blocks
  PROVE  Moves'
<1>1. head.tag \in Nat
  BY PoolAssumption DEF TypeOK, Word
<1>2. AllocatorsPop' /\ PopsSomething' /\ GivesSomething'
  BY DEF Moves, Still, AllocatorsPop, PopsSomething, GivesSomething, Popping
<1>3. Ages'
  <2> SUFFICES ASSUME NEW u \in Threads, Popping(u)'
               PROVE  /\ age'[u] = 0 => old'[u] = head'
                      /\ age'[u] < Tags => \/ head'.tag = old'[u].tag + age'[u]
                                           \/ head'.tag = old'[u].tag + age'[u] - Tags
    BY DEF Ages
  <2>1. CASE old'[u] = head /\ age'[u] = 0
    BY <1>1, <2>1 DEF Still
  <2>2. CASE Popping(u) /\ old'[u] = old[u] /\ age'[u] = age[u]
    BY <2>2 DEF Moves, Ages, Still
  <2> QED
    BY <2>1, <2>2 DEF Still, Popping
<1> QED
  BY <1>2, <1>3 DEF Moves

LEMMA ExchangeMoves ==
  ASSUME TypeOK, Moves, NEW t \in Threads, NEW ptr \in Blocks \cup {NoBlock}, Exchange(t, ptr)
  PROVE  Moves'
<1>1. \A u \in Threads : u # t => pc'[u] = pc[u] /\ old'[u] = old[u] /\ block'[u] = block[u]
  BY DEF Exchange, Return, TypeOK
<1>2. pc'[t] = "idle"
  BY DEF Exchange, Return, TypeOK
<1>3. AllocatorsPop' /\ PopsSomething' /\ GivesSomething'
  BY <1>1, <1>2 DEF Moves, AllocatorsPop, PopsSomething, GivesSomething, Popping
<1>4. Ages'
  <2> SUFFICES ASSUME NEW u \in Threads, Popping(u)'
               PROVE  /\ age'[u] = 0 => old'[u] = head'
                      /\ age'[u] < Tags => \/ head'.tag = old'[u].tag + age'[u]
                                           \/ head'.tag = old'[u].tag + age'[u] - Tags
    BY DEF Ages
  <2>1. u # t /\ Popping(u) /\ old'[u] = old[u]
    BY <1>1, <1>2 DEF Popping
  <2>2. age[u] \in 0..Tags /\ old[u].tag \in 0..(Tags - 1) /\ head.tag \in 0..(Tags - 1)
    BY DEF TypeOK, Word
  <2>3. age'[u] = IF age[u] = Tags THEN Tags ELSE age[u] + 1
    BY <2>1 DEF Exchange, Popping
  <2>4. head'.tag = IF head.tag = Tags - 1 THEN 0 ELSE head.tag + 1
    BY DEF Exchange, NextTag
  <2>5. age[u] < Tags => head.tag = old[u].tag + age[u] \/ head.tag = old[u].tag + age[u] - Tags
    BY <2>1 DEF Moves, Ages
  <2>6. age'[u] # 0
    BY <2>2, <2>3, PoolAssumption
  <2>7. ASSUME age'[u] < Tags
        PROVE  head'.tag = old[u].tag + age'[u] \/ head'.tag = old[u].tag + age'[u] - Tags
    <3>1. age[u] < Tags /\ age'[u] = age[u] + 1
      BY <2>2, <2>3, <2>7, PoolAssumption
    <3> DEFINE h == head.tag  o == old[u].tag  a == age[u]  hh == head'.tag
    <3>2. h \in Int /\ o \in Int /\ a \in Int /\ Tags \in Int /\ 0 <= o /\ o < Tags /\ 0 <= a /\ a + 1 < Tags
      BY <2>2, <2>7, <3>1, PoolAssumption
    <3>3. h = o + a \/ h = o + a - Tags
      BY <2>5, <3>1
    <3>4. hh = IF h = Tags - 1 THEN 0 ELSE h + 1
      BY <2>4
    <3> HIDE DEF h, o, a, hh
    <3>5. hh = o + (a + 1) \/ hh = o + (a + 1) - Tags
      BY <3>2, <3>3, <3>4
    <3> QED
      BY <3>1, <3>5 DEF o, a, hh
  <2> QED
    BY <2>1, <2>6, <2>7
<1> QED
  BY <1>3, <1>4 DEF Moves

LEMMA MovesStep == TypeOK /\ Moves /\ [Next]_vars => Moves'
<1> SUFFICES ASSUME TypeOK, Moves, Next PROVE Moves'
  BY DEF TypeOK, Moves, AllocatorsPop, Ages, PopsSomething, GivesSomething, Popping,
         vars, listVars, threadVars
<1> PICK t \in Threads :
     \/ Allocate(t) \/ (\E b \in Blocks : AllocateNewBlock(t, b))
     \/ ReadNext(t) \/ Pop(t) \/ RetryPop(t)
     \/ (\E b \in Blocks : Deallocate(t, b))
     \/ Link(t) \/ Push(t) \/ RetryPush(t)
  BY DEF Next
<1>1. CASE Allocate(t)
  <2>1. Still(t) /\ t \in Allocators /\ pc'[t] = "allocate" /\ old'[t] = head /\ age'[t] = 0
    BY <1>1 DEF Allocate, LoadHead, Still, TypeOK, listVars
  <2> QED
    BY <2>1, StillMoves
<1>2. CASE \E b \in Blocks : AllocateNewBlock(t, b)
  <2>1. Still(t) /\ pc'[t] = "idle"
    BY <1>2 DEF AllocateNewBlock, Return, Still, TypeOK
  <2> QED
    BY <2>1, StillMoves DEF Popping
<1>3. CASE ReadNext(t)
  <2>1. Still(t) /\ Popping(t) /\ pc'[t] = "pop" /\ old'[t] = old[t] /\ age'[t] = age[t]
    BY <1>3 DEF ReadNext, Still, Popping, TypeOK, listVars
  <2>2. old[t].ptr \in Blocks /\ t \in Allocators
    BY <1>3, <2>1 DEF ReadNext, TypeOK, Word, Moves, AllocatorsPop
  <2> QED
    BY <2>1, <2>2, StillMoves
<1>4. CASE Pop(t)
  BY <1>4, ExchangeMoves DEF Pop, TypeOK
<1>5. CASE RetryPop(t)
  <2>1. Still(t) /\ Popping(t) /\ pc'[t] = "allocate" /\ old'[t] = head /\ age'[t] = 0
    BY <1>5 DEF RetryPop, LoadHead, Still, Popping, TypeOK, listVars
  <2>2. t \in Allocators
    BY <2>1 DEF Moves, AllocatorsPop
  <2> QED
    BY <2>1, <2>2, StillMoves
<1>6. CASE \E b \in Blocks : Deallocate(t, b)
  <2>1. Still(t) /\ pc'[t] = "link" /\ block'[t] \in Blocks
    BY <1>6 DEF Deallocate, LoadHead, Still, TypeOK, listVars
  <2> QED
    BY <2>1, StillMoves DEF Popping
<1>7. CASE Link(t)
  <2>1. Still(t) /\ pc[t] = "link" /\ pc'[t] = "push" /\ block'[t] = block[t]
    BY <1>7 DEF Link, Still, TypeOK
  <2>2. block[t] \in Blocks
    BY <2>1 DEF Moves, GivesSomething
  <2> QED
    BY <2>1, <2>2, StillMoves DEF Popping
<1>8. CASE Push(t)
  BY <1>8, ExchangeMoves DEF Push, TypeOK
<1>9. CASE RetryPush(t)
  <2>1. Still(t) /\ pc[t] = "push" /\ pc'[t] = "link" /\ block'[t] = block[t]
    BY <1>9 DEF RetryPush, LoadHead, Still, TypeOK, listVars
  <2>2. block[t] \in Blocks
    BY <2>1 DEF Moves, GivesSomething
  <2> QED
    BY <2>1, <2>2, StillMoves DEF Popping
<1> QED
  BY <1>1, <1>2, <1>3, <1>4, <1>5, <1>6, <1>7, <1>8, <1>9
-----------------------------------------------------------------------------
(* The list, the callers and the blocks being given back stay.             *)
SameBlocks ==
  /\ UNCHANGED <<listVars, given>>
  /\ \A u \in Threads, b \in Blocks : Giving(u, b)' <=> Giving(u, b)

LEMMA SameList ==
  ASSUME ListInv, NEW t \in Threads, SameBlocks, Still(t),
         Popping(t)' /\ Current(t)' /\ old'[t].ptr # NoBlock =>
            /\ InList(old'[t].ptr)
            /\ pc'[t] = "pop" => block'[t] = next[old'[t].ptr],
         pc'[t] # "push"
  PROVE  ListInv'
<1>1. ListIsFree'
  BY DEF ListInv, ListIsFree, SameBlocks, listVars
<1>2. \A x : InList(x)' <=> InList(x)
  BY DEF InList, SameBlocks, listVars
<1>3. Owners' /\ NoneLost'
  BY <1>2 DEF ListInv, Owners, OneOwner, NoneLost, NotLost, SameBlocks, listVars
<1>4. Pops'
  BY <1>2 DEF ListInv, Pops, Current, Popping, Still, SameBlocks, listVars
<1>5. Gives'
  BY DEF ListInv, Gives, Still, SameBlocks, listVars
<1> QED
  BY <1>1, <1>3, <1>4, <1>5 DEF ListInv

(* What head points at is in the list.                                     *)
LEMMA HeadInList ==
  ASSUME TypeOK, ListIsFree, head.ptr # NoBlock
  PROVE  free # <<>> /\ head.ptr = free[1] /\ InList(head.ptr)
  BY DEF TypeOK, ListIsFree, First, InList

LEMMA AllocateList ==
  ASSUME TypeOK, ListInv, NEW t \in Threads, Allocate(t) \/ RetryPop(t)
  PROVE  ListInv'
<1>1. Still(t) /\ SameBlocks /\ pc'[t] = "allocate" /\ old'[t] = head
  BY DEF Allocate, RetryPop, LoadHead, Still, SameBlocks, Giving, TypeOK, listVars
<1>2. head.ptr # NoBlock => InList(head.ptr)
  BY HeadInList DEF ListInv
<1> QED
  BY <1>1, <1>2, SameList

LEMMA ReadNextList ==
  ASSUME TypeOK, ListInv, NEW t \in Threads, ReadNext(t)
  PROVE  ListInv'
<1>1. /\ Still(t) /\ SameBlocks /\ Popping(t) /\ pc'[t] = "pop"
      /\ old'[t] = old[t] /\ age'[t] = age[t] /\ block'[t] = next[old[t].ptr]
  BY DEF ReadNext, Still, SameBlocks, Giving, Popping, TypeOK, listVars
<1>2. Current(t)' => Current(t)
  BY <1>1 DEF Current
<1> QED
  BY <1>1, <1>2, SameList DEF ListInv, Pops

LEMMA RetryPushList ==
  ASSUME TypeOK, ListInv, NEW t \in Threads, RetryPush(t)
  PROVE  ListInv'
<1>1. Still(t) /\ SameBlocks /\ pc'[t] = "link"
  BY DEF RetryPush, LoadHead, Still, SameBlocks, Giving, TypeOK, listVars
<1> QED
  BY <1>1, SameList DEF Popping

LEMMA AllocateNewBlockList ==
  ASSUME TypeOK, ListInv, NEW t \in Threads, NEW b \in Blocks, AllocateNewBlock(t, b)
  PROVE  ListInv'
<1>1. /\ Still(t) /\ pc'[t] = "idle" /\ next' = next /\ free' = free
      /\ \A u \in Threads, c \in Blocks : Giving(u, c)' <=> Giving(u, c)
  BY DEF AllocateNewBlock, Return, Still, Giving, TypeOK
<1>2. \A x : InList(x)' <=> InList(x)
  BY <1>1 DEF InList
<1>3. b \in fresh /\ fresh' = fresh \ {b}
  BY DEF AllocateNewBlock
<1>4. \A c \in Blocks : given'[c] = IF c = b THEN given[b] + 1 ELSE given[c]
  BY DEF AllocateNewBlock, TypeOK
<1>5. /\ given[b] = 0 /\ ~ InList(b)
      /\ \A u \in Threads : ~ Giving(u, b)
  BY <1>3 DEF ListInv, Owners, OneOwner
<1>6. ListIsFree'
  BY <1>1 DEF ListInv, ListIsFree, Still
<1>7. Owners'
  <2> SUFFICES ASSUME NEW c \in Blocks PROVE OneOwner(c)'
    BY DEF Owners
  <2>1. CASE c = b
    BY <1>1, <1>2, <1>3, <1>4, <1>5, <2>1 DEF OneOwner
  <2>2. CASE c # b
    BY <1>1, <1>2, <1>3, <1>4, <2>2 DEF ListInv, Owners, OneOwner
  <2> QED
    BY <2>1, <2>2
<1>8. NoneLost'
  <2> SUFFICES ASSUME NEW c \in Blocks PROVE NotLost(c)'
    BY DEF NoneLost
  <2>1. CASE c = b
    BY <1>4, <1>5, <2>1 DEF NotLost
  <2>2. CASE c # b
    BY <1>1, <1>2, <1>3, <1>4, <2>2 DEF ListInv, NoneLost, NotLost
  <2> QED
    BY <2>1, <2>2
<1>9. Pops' /\ Gives'
  BY <1>1, <1>2 DEF ListInv, Pops, Gives, Current, Popping, Still
<1> QED
  BY <1>6, <1>7, <1>8, <1>9 DEF ListInv

LEMMA DeallocateList ==
  ASSUME TypeOK, ListInv, NEW t \in Threads, NEW b \in Blocks, Deallocate(t, b)
  PROVE  ListInv'
<1>1. /\ Still(t) /\ pc[t] = "idle" /\ pc'[t] = "link" /\ block'[t] = b
      /\ next' = next /\ free' = free /\ fresh' = fresh /\ given[b] > 0
  BY DEF Deallocate, LoadHead, Still, TypeOK, listVars
<1>2. \A x : InList(x)' <=> InList(x)
  BY <1>1 DEF InList
<1>3. \A u \in Threads, c \in Blocks : Giving(u, c)' <=> Giving(u, c) \/ (u = t /\ c = b)
  BY <1>1 DEF Giving, Still
<1>4. \A c \in Blocks : given'[c] = IF c = b THEN given[b] - 1 ELSE given[c]
  BY DEF Deallocate, TypeOK
<1>5. /\ given[b] = 1 /\ b \notin fresh /\ ~ InList(b)
      /\ \A u \in Threads : ~ Giving(u, b)
  BY <1>1 DEF ListInv, Owners, OneOwner
<1>6. ListIsFree'
  BY <1>1 DEF ListInv, ListIsFree, Still
<1>7. Owners'
  <2> SUFFICES ASSUME NEW c \in Blocks PROVE OneOwner(c)'
    BY DEF Owners
  <2>1. CASE c = b
    BY <1>1, <1>2, <1>3, <1>4, <1>5, <2>1 DEF OneOwner
  <2>2. CASE c # b
    BY <1>1, <1>2, <1>3, <1>4, <2>2 DEF ListInv, Owners, OneOwner
  <2> QED
    BY <2>1, <2>2
<1>8. NoneLost'
  <2> SUFFICES ASSUME NEW c \in Blocks PROVE NotLost(c)'
    BY DEF NoneLost
  <2>1. CASE c = b
    BY <1>3, <2>1 DEF NotLost
  <2>2. CASE c # b
    BY <1>1, <1>2, <1>3, <1>4, <2>2 DEF ListInv, NoneLost, NotLost
  <2> QED
    BY <2>1, <2>2
<1>9. Pops' /\ Gives'
  BY <1>1, <1>2 DEF ListInv, Pops, Gives, Current, Popping, Still
<1> QED
  BY <1>6, <1>7, <1>8, <1>9 DEF ListInv
-----------------------------------------------------------------------------
LEMMA LinkList ==
  ASSUME TypeOK, Moves, ListInv, NEW t \in Threads, Link(t)
  PROVE  ListInv'
<1> DEFINE b == block[t]
<1>1. /\ Still(t) /\ pc[t] = "link" /\ pc'[t] = "push" /\ block'[t] = b /\ old'[t] = old[t]
      /\ free' = free /\ fresh' = fresh /\ given' = given
  BY DEF Link, Still, TypeOK
<1>2. b \in Blocks /\ Giving(t, b)
  BY <1>1 DEF Moves, GivesSomething, Giving
<1>3. ~ InList(b) /\ \A u \in Threads : u # t => ~ Giving(u, b)
  BY <1>2 DEF ListInv, Owners, OneOwner
<1>4. next'[b] = old[t].ptr /\ \A c \in Blocks : c # b => next'[c] = next[c]
  BY <1>2 DEF Link, TypeOK
<1>5. \A x : InList(x)' <=> InList(x)
  BY <1>1 DEF InList
<1>6. \A u \in Threads, c \in Blocks : Giving(u, c)' <=> Giving(u, c)
  BY <1>1 DEF Giving, Still
<1>7. ListIsFree'
  <2>1. \A i \in 1..Len(free) : free[i] \in Blocks /\ free[i] # b
    BY <1>3 DEF TypeOK, InList
  <2>2. \A i \in 1..Len(free) : next'[free[i]] = next[free[i]]
    BY <2>1, <1>4
  <2> QED
    BY <1>1, <2>2 DEF ListInv, ListIsFree, Still
<1>8. Owners' /\ NoneLost'
  BY <1>1, <1>5, <1>6 DEF ListInv, Owners, OneOwner, NoneLost, NotLost
<1>9. Pops'
  <2> SUFFICES ASSUME NEW u \in Threads, Popping(u)', Current(u)', old'[u].ptr # NoBlock
               PROVE  InList(old[u].ptr)' /\ (pc'[u] = "pop" => block'[u] = next'[old'[u].ptr])
    BY DEF Pops
  <2>1. u # t /\ Popping(u) /\ Current(u) /\ old'[u] = old[u] /\ pc'[u] = pc[u] /\ block'[u] = block[u]
    BY <1>1 DEF Still, Popping, Current
  <2>2. InList(old[u].ptr) /\ (pc[u] = "pop" => block[u] = next[old[u].ptr])
    BY <2>1 DEF ListInv, Pops
  <2>3. old[u].ptr \in Blocks /\ old[u].ptr # b
    BY <2>1, <2>2, <1>3 DEF TypeOK, Word
  <2> QED
    BY <2>1, <2>2, <2>3, <1>4, <1>5
<1>10. Gives'
  <2> SUFFICES ASSUME NEW u \in Threads, pc'[u] = "push"
               PROVE  next'[block'[u]] = old'[u].ptr
    BY DEF Gives
  <2>1. CASE u = t
    BY <2>1, <1>1, <1>4
  <2>2. CASE u # t
    <3>1. pc[u] = "push" /\ block'[u] = block[u] /\ old'[u] = old[u]
      BY <2>2, <1>1 DEF Still
    <3>2. block[u] \in Blocks /\ Giving(u, block[u])
      BY <3>1 DEF Moves, GivesSomething, Giving
    <3>3. next'[block[u]] = next[block[u]]
      BY <3>2, <2>2, <1>3, <1>4
    <3> QED
      BY <3>1, <3>3 DEF ListInv, Gives
  <2> QED
    BY <2>1, <2>2
<1> QED
  BY <1>7, <1>8, <1>9, <1>10 DEF ListInv

(* A pop that may trust what it read: the others have not changed head.     *)
LEMMA ExchangeAges ==
  ASSUME TypeOK, NEW t \in Threads, NEW ptr, Exchange(t, ptr), NEW u \in Threads, Popping(u)'
  PROVE  u # t /\ Popping(u) /\ age'[u] # 0 /\ old'[u] = old[u] /\ block'[u] = block[u] /\ pc'[u] = pc[u]
<1>1. u # t /\ Popping(u) /\ old'[u] = old[u] /\ block'[u] = block[u] /\ pc'[u] = pc[u]
  BY DEF Exchange, Return, Popping, TypeOK
<1>2. age[u] \in 0..Tags
  BY DEF TypeOK
<1>3. age'[u] = IF age[u] = Tags THEN Tags ELSE age[u] + 1
  BY <1>1 DEF Exchange, Popping
<1> QED
  BY <1>1, <1>2, <1>3, PoolAssumption

LEMMA PushList ==
  ASSUME TypeOK, Moves, ListInv, NEW t \in Threads, Push(t)
  PROVE  ListInv'
<1> DEFINE b == block[t]
<1>1. /\ pc[t] = "push" /\ Exchange(t, b) /\ head = old[t] /\ head'.ptr = b
      /\ next' = next /\ fresh' = fresh /\ given' = given /\ free' = <<b>> \o free
  BY DEF Push, Exchange
<1>2. b \in Blocks /\ Giving(t, b)
  BY <1>1 DEF Moves, GivesSomething, Giving
<1>3. ~ InList(b) /\ b \notin fresh /\ given[b] = 0 /\ \A u \in Threads : u # t => ~ Giving(u, b)
  BY <1>2 DEF ListInv, Owners, OneOwner
<1>4. next[b] = First(free)
  BY <1>1 DEF ListInv, Gives, ListIsFree
<1>5. /\ Len(free') = Len(free) + 1 /\ free'[1] = b
      /\ \A i \in 1..Len(free) : free'[i + 1] = free[i]
      /\ \A i \in 2..Len(free') : i - 1 \in 1..Len(free) /\ free'[i] = free[i - 1]
  BY <1>1, <1>2 DEF TypeOK
<1>6. Len(free) \in Nat
  BY DEF TypeOK
<1>7. \A x : InList(x)' <=> InList(x) \/ x = b
  <2> SUFFICES ASSUME NEW x PROVE InList(x)' <=> InList(x) \/ x = b
    OBVIOUS
  <2>1. InList(x)' => InList(x) \/ x = b
    BY <1>5, <1>6 DEF InList
  <2>2. InList(x) => InList(x)'
    <3> SUFFICES ASSUME NEW i \in 1..Len(free), free[i] = x PROVE InList(x)'
      BY DEF InList
    <3>1. i + 1 \in 1..Len(free') /\ free'[i + 1] = x
      BY <1>5, <1>6
    <3> QED
      BY <3>1 DEF InList
  <2>3. x = b => InList(x)'
    BY <1>5, <1>6 DEF InList
  <2> QED
    BY <2>1, <2>2, <2>3
<1>8. \A u \in Threads, c \in Blocks : Giving(u, c)' <=> Giving(u, c) /\ u # t
  BY <1>1 DEF Giving, Exchange, Return, TypeOK
<1>9. ListIsFree'
  <2>1. head'.ptr = First(free')
    BY <1>1, <1>5, <1>6 DEF First
  <2>2. \A i \in 1..Len(free') :
           next'[free'[i]] = IF i = Len(free') THEN NoBlock ELSE free'[i + 1]
    <3> SUFFICES ASSUME NEW i \in 1..Len(free')
                 PROVE  next'[free'[i]] = IF i = Len(free') THEN NoBlock ELSE free'[i + 1]
      OBVIOUS
    <3>1. CASE i = 1
      BY <3>1, <1>1, <1>4, <1>5, <1>6 DEF First
    <3>2. CASE i # 1
      <4>1. i - 1 \in 1..Len(free) /\ free'[i] = free[i - 1]
        BY <3>2, <1>5, <1>6
      <4>2. next[free[i - 1]] = IF i - 1 = Len(free) THEN NoBlock ELSE free[(i - 1) + 1]
        BY <4>1 DEF ListInv, ListIsFree
      <4>3. i - 1 # Len(free) => i \in 1..Len(free) /\ free'[i + 1] = free[i]
        BY <4>1, <1>5, <1>6
      <4> QED
        BY <4>1, <4>2, <4>3, <1>1, <1>5, <1>6
    <3> QED
      BY <3>1, <3>2
  <2>3. \A i, j \in 1..Len(free') : free'[i] = free'[j] => i = j
    <3> SUFFICES ASSUME NEW i \in 1..Len(free'), NEW j \in 1..Len(free'), free'[i] = free'[j]
                 PROVE  i = j
      OBVIOUS
    <3>1. \A k \in 2..Len(free') : free'[k] # b
      BY <1>3, <1>5 DEF InList
    <3>2. \A k, l \in 1..Len(free) : free[k] = free[l] => k = l
      BY DEF ListInv, ListIsFree
    <3>3. CASE i = 1 \/ j = 1
      BY <3>1, <3>3, <1>5, <1>6
    <3>4. CASE i # 1 /\ j # 1
      <4>1. i \in 2..Len(free') /\ j \in 2..Len(free')
        BY <3>4
      <4>2. i - 1 \in 1..Len(free) /\ j - 1 \in 1..Len(free) /\ free[i - 1] = free[j - 1]
        BY <4>1, <1>5
      <4> QED
        BY <4>1, <4>2, <3>2
    <3> QED
      BY <3>3, <3>4
  <2> QED
    BY <2>1, <2>2, <2>3 DEF ListIsFree
<1>10. Owners'
  <2> SUFFICES ASSUME NEW c \in Blocks PROVE OneOwner(c)'
    BY DEF Owners
  <2>1. CASE c = b
    BY <1>1, <1>3, <1>8, <2>1 DEF OneOwner
  <2>2. CASE c # b
    BY <1>1, <1>7, <1>8, <2>2 DEF ListInv, Owners, OneOwner
  <2> QED
    BY <2>1, <2>2
<1>11. NoneLost'
  <2> SUFFICES ASSUME NEW c \in Blocks PROVE NotLost(c)'
    BY DEF NoneLost
  <2>1. CASE c = b
    BY <1>7, <2>1 DEF NotLost
  <2>2. CASE c # b
    <3>1. ~ Giving(t, c)
      BY <2>2 DEF Giving
    <3> QED
      BY <1>1, <1>7, <1>8, <3>1, <2>2 DEF ListInv, NoneLost, NotLost
  <2> QED
    BY <2>1, <2>2
<1>12. Pops'
  <2> SUFFICES ASSUME NEW u \in Threads, Popping(u)', Current(u)', old'[u].ptr # NoBlock
               PROVE  InList(old[u].ptr)' /\ (pc'[u] = "pop" => block'[u] = next'[old'[u].ptr])
    BY DEF Pops
  <2>1. Popping(u) /\ age'[u] # 0 /\ old'[u] = old[u] /\ block'[u] = block[u] /\ pc'[u] = pc[u]
    BY <1>1, ExchangeAges
  <2>2. Current(u)
    BY <2>1 DEF Current
  <2> QED
    BY <2>1, <2>2, <1>1, <1>7 DEF ListInv, Pops
<1>13. Gives'
  BY <1>1 DEF ListInv, Gives, Exchange, Return, TypeOK
<1> QED
  BY <1>9, <1>10, <1>11, <1>12, <1>13 DEF ListInv

LEMMA PopList ==
  ASSUME TypeOK, Moves, ListInv, NEW t \in Threads, Pop(t), ~ wrapped'
  PROVE  ListInv'
<1> DEFINE b == old[t].ptr
<1>1. /\ pc[t] = "pop" /\ Exchange(t, block[t]) /\ head = old[t] /\ head'.ptr = block[t]
      /\ next' = next /\ fresh' = fresh /\ free' = IF free = <<>> THEN <<>> ELSE Tail(free)
  BY DEF Pop, Exchange
<1>2. b \in Blocks /\ t \in Allocators
  BY <1>1 DEF Moves, PopsSomething, AllocatorsPop, Popping
<1>3. Current(t)
  <2>1. age[t] = Tags => Allocators = {t}
    BY DEF Pop, TypeOK
  <2>2. age[t] \in 0..Tags /\ head.tag \in 0..(Tags - 1)
    BY DEF TypeOK, Word
  <2>3. age[t] < Tags => head.tag = head.tag + age[t] \/ head.tag = head.tag + age[t] - Tags
    BY <1>1 DEF Moves, Ages, Popping
  <2> QED
    BY <2>1, <2>2, <2>3, PoolAssumption DEF Current
<1>4. block[t] = next[b] /\ b = head.ptr /\ b # NoBlock
  BY <1>1, <1>2, <1>3, PoolAssumption DEF ListInv, Pops, Popping
<1>5. free # <<>> /\ b = free[1] /\ InList(b)
  BY <1>4, HeadInList DEF ListInv
<1>6. b \notin fresh /\ given[b] = 0 /\ \A u \in Threads : ~ Giving(u, b)
  BY <1>2, <1>5 DEF ListInv, Owners, OneOwner
<1>7. given'[b] = 1 /\ \A c \in Blocks : c # b => given'[c] = given[c]
  BY <1>2, <1>6 DEF Pop, TypeOK
<1>8. /\ Len(free) \in Nat \ {0} /\ Len(free') = Len(free) - 1
      /\ \A i \in 1..Len(free') : free'[i] = free[i + 1]
  BY <1>1, <1>5 DEF TypeOK
<1>9. \A i, j \in 1..Len(free) : free[i] = free[j] => i = j
  BY DEF ListInv, ListIsFree
<1>10. \A x : InList(x)' <=> InList(x) /\ x # b
  <2> SUFFICES ASSUME NEW x PROVE InList(x)' <=> InList(x) /\ x # b
    OBVIOUS
  <2>1. ASSUME NEW i \in 1..Len(free'), free'[i] = x PROVE InList(x) /\ x # b
    <3>1. i + 1 \in 1..Len(free) /\ 1 \in 1..Len(free) /\ free[i + 1] = x
      BY <2>1, <1>8
    <3> QED
      BY <3>1, <1>5, <1>9 DEF InList
  <2>2. ASSUME NEW i \in 1..Len(free), free[i] = x, x # b PROVE InList(x)'
    <3>1. i # 1
      BY <2>2, <1>5
    <3>2. i - 1 \in 1..Len(free') /\ free'[i - 1] = x
      BY <3>1, <2>2, <1>8
    <3> QED
      BY <3>2 DEF InList
  <2> QED
    BY <2>1, <2>2 DEF InList
<1>11. \A u \in Threads, c \in Blocks : Giving(u, c)' <=> Giving(u, c)
  BY <1>1 DEF Giving, Exchange, Return, TypeOK
<1>12. ListIsFree'
  <2>1. \A i \in 1..Len(free) : next[free[i]] = IF i = Len(free) THEN NoBlock ELSE free[i + 1]
    BY DEF ListInv, ListIsFree
  <2>2. next[b] = IF 1 = Len(free) THEN NoBlock ELSE free[2]
    BY <1>5, <1>8, <2>1
  <2>3. head'.ptr = First(free')
    <3>1. CASE Len(free) = 1
      <4>1. free' = <<>>
        BY <3>1, <1>1, <1>5 DEF TypeOK
      <4> QED
        BY <3>1, <4>1, <1>1, <1>4, <2>2 DEF First
    <3>2. CASE Len(free) # 1
      <4>1. 1 \in 1..Len(free') /\ free'[1] = free[1 + 1]
        BY <3>2, <1>8
      <4>2. free' # <<>>
        BY <4>1
      <4> QED
        BY <3>2, <4>1, <4>2, <1>1, <1>4, <2>2 DEF First
    <3> QED
      BY <3>1, <3>2
  <2>4. \A i \in 1..Len(free') :
           next'[free'[i]] = IF i = Len(free') THEN NoBlock ELSE free'[i + 1]
    <3> SUFFICES ASSUME NEW i \in 1..Len(free')
                 PROVE  next'[free'[i]] = IF i = Len(free') THEN NoBlock ELSE free'[i + 1]
      OBVIOUS
    <3>1. i + 1 \in 1..Len(free) /\ free'[i] = free[i + 1]
      BY <1>8
    <3>2. i # Len(free') => free'[i + 1] = free[(i + 1) + 1]
      BY <1>8
    <3>3. next[free[i + 1]] = IF i + 1 = Len(free) THEN NoBlock ELSE free[(i + 1) + 1]
      BY <2>1, <3>1
    <3>4. CASE i = Len(free')
      BY <3>4, <3>1, <3>3, <1>1, <1>8
    <3>5. CASE i # Len(free')
      <4>1. i + 1 # Len(free)
        BY <3>5, <1>8
      <4>2. next'[free'[i]] = free[(i + 1) + 1]
        BY <4>1, <3>1, <3>3, <1>1
      <4> QED
        BY <4>2, <3>2, <3>5
    <3> QED
      BY <3>4, <3>5
  <2>5. \A i, j \in 1..Len(free') : free'[i] = free'[j] => i = j
    <3> SUFFICES ASSUME NEW i \in 1..Len(free'), NEW j \in 1..Len(free'), free'[i] = free'[j]
                 PROVE  i = j
      OBVIOUS
    <3>1. i + 1 \in 1..Len(free) /\ j + 1 \in 1..Len(free) /\ free[i + 1] = free[j + 1]
      BY <1>8
    <3> QED
      BY <3>1, <1>9
  <2> QED
    BY <2>3, <2>4, <2>5 DEF ListIsFree
<1>13. Owners'
  <2> SUFFICES ASSUME NEW c \in Blocks PROVE OneOwner(c)'
    BY DEF Owners
  <2>1. CASE c = b
    BY <1>1, <1>6, <1>7, <1>10, <1>11, <2>1 DEF OneOwner
  <2>2. CASE c # b
    BY <1>1, <1>7, <1>10, <1>11, <2>2 DEF ListInv, Owners, OneOwner
  <2> QED
    BY <2>1, <2>2
<1>14. NoneLost'
  <2> SUFFICES ASSUME NEW c \in Blocks PROVE NotLost(c)'
    BY DEF NoneLost
  <2>1. CASE c = b
    BY <1>7, <2>1 DEF NotLost
  <2>2. CASE c # b
    BY <1>1, <1>7, <1>10, <1>11, <2>2 DEF ListInv, NoneLost, NotLost
  <2> QED
    BY <2>1, <2>2
<1>15. Pops'
  <2> SUFFICES ASSUME NEW u \in Threads, Popping(u)', Current(u)' PROVE FALSE
    BY DEF Pops
  <2>1. u # t /\ age'[u] # 0
    BY <1>1, ExchangeAges
  <2> QED
    BY <2>1, <1>2 DEF Current
<1>16. Gives'
  BY <1>1 DEF ListInv, Gives, Exchange, Return, TypeOK
<1> QED
  BY <1>12, <1>13, <1>14, <1>15, <1>16 DEF ListInv
-----------------------------------------------------------------------------
LEMMA ListStep == IInv /\ [Next]_vars => (~ wrapped' => ListInv')
<1> SUFFICES ASSUME IInv, [Next]_vars, ~ wrapped' PROVE ListInv'
  OBVIOUS
<1>1. TypeOK /\ Moves
  BY DEF IInv
<1>2. CASE UNCHANGED vars
  BY <1>2 DEF IInv, ListInv, ListIsFree, Owners, OneOwner, NoneLost, NotLost, Pops, Gives,
              Current, Popping, Giving, InList, vars, listVars, threadVars
<1>3. CASE Next
  <2> PICK t \in Threads :
       \/ Allocate(t) \/ (\E b \in Blocks : AllocateNewBlock(t, b))
       \/ ReadNext(t) \/ Pop(t) \/ RetryPop(t)
       \/ (\E b \in Blocks : Deallocate(t, b))
       \/ Link(t) \/ Push(t) \/ RetryPush(t)
    BY <1>3 DEF Next
  <2>1. ListInv
    <3>1. ~ wrapped
      BY DEF Allocate, AllocateNewBlock, ReadNext, Pop, RetryPop, Deallocate, Link, Push, RetryPush
    <3> QED
      BY <3>1 DEF IInv
  <2>2. CASE Allocate(t) \/ RetryPop(t)
    BY <1>1, <2>1, <2>2, AllocateList
  <2>3. CASE \E b \in Blocks : AllocateNewBlock(t, b)
    BY <1>1, <2>1, <2>3, AllocateNewBlockList
  <2>4. CASE ReadNext(t)
    BY <1>1, <2>1, <2>4, ReadNextList
  <2>5. CASE Pop(t)
    BY <1>1, <2>1, <2>5, PopList
  <2>6. CASE \E b \in Blocks : Deallocate(t, b)
    BY <1>1, <2>1, <2>6, DeallocateList
  <2>7. CASE Link(t)
    BY <1>1, <2>1, <2>7, LinkList
  <2>8. CASE Push(t)
    BY <1>1, <2>1, <2>8, PushList
  <2>9. CASE RetryPush(t)
    BY <1>1, <2>1, <2>9, RetryPushList
  <2> QED
    BY <2>2, <2>3, <2>4, <2>5, <2>6, <2>7, <2>8, <2>9
<1> QED
  BY <1>2, <1>3

LEMMA Invariant == Spec => []IInv
<1>1. IInv /\ [Next]_vars => IInv'
  BY TypeStep, MovesStep, ListStep DEF IInv
<1> QED
  BY <1>1, InitInv, PTL DEF Spec

(* The pool's words, lists and local variables have their types: a pop     *)
(* never takes the null block, and the tag fits its bits.                  *)
THEOREM TypeCorrect == Spec => []TypeOK
<1>1. IInv => TypeOK
  BY DEF IInv
<1> QED
  BY <1>1, Invariant, PTL

(* Unless a pop slept through a whole cycle of the tags while another      *)
(* thread may allocate, no block has two owners and none is lost.          *)
THEOREM Partitioned == Spec => []BlocksArePartitioned
<1>1. IInv => BlocksArePartitioned
  BY DEF IInv, ListInv, Owners, NoneLost, BlocksArePartitioned
<1> QED
  BY <1>1, Invariant, PTL

(* A pool that one thread allocates from needs no exception: its pops are  *)
(* right however often the tags come round.                                *)
THEOREM OneAllocatorPartitioned ==
  ASSUME NEW t \in Threads, Allocators = {t}
  PROVE  Spec => [](ListIsFree /\ \A b \in Blocks : OneOwner(b) /\ NotLost(b))
<1>1. Init => wrapped = FALSE
  BY DEF Init
<1>2. TypeOK /\ Moves /\ (wrapped = FALSE) /\ [Next]_vars => (wrapped = FALSE)'
  <2> SUFFICES ASSUME TypeOK, Moves, wrapped = FALSE, [Next]_vars PROVE wrapped' = FALSE
    OBVIOUS
  <2>1. \A u \in Threads : Pop(u) => wrapped' = FALSE
    BY DEF Pop, Moves, AllocatorsPop, Popping
  <2> QED
    BY <2>1 DEF Next, Allocate, AllocateNewBlock, ReadNext, RetryPop, Deallocate, Link, Push,
                RetryPush, vars
<1>3. Spec => []((wrapped = FALSE) /\ IInv)
  <2>1. IInv => TypeOK /\ Moves
    BY DEF IInv
  <2> QED
    BY <1>1, <1>2, <2>1, Invariant, PTL DEF Spec
<1>4. (wrapped = FALSE) /\ IInv => ListIsFree /\ \A b \in Blocks : OneOwner(b) /\ NotLost(b)
  BY DEF IInv, ListInv, Owners, NoneLost
<1> QED
  BY <1>3, <1>4, PTL
=============================================================================
