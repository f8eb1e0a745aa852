# TLA+ models of the game server core

This directory holds a formal model of the server of the repository: TLA+
modules, the TLC configurations that check them on small instances, and proofs
checked by TLAPS. The server is a multi-threaded MMO server for a replica of a
2D sandbox game. `src/Server/ServerCore` is a reusable core (completion port,
sessions, actors, timers, memory, database thread); `src/Server` is the contents
layer (sectors, NPCs, items, login); `src/Server/Libraries/Protocols` holds the
packet handlers. The other directories are the client and vendored code.

## Inventory

Everything runs on the threads of `ThreadMgr`: workers block in
`IocpCore::Dispatch` on one completion port. One thread hands over due timer
tasks (`DistributeTask`), and one more executes database queries. There are no automated
tests and no design document in the repository; the reference is the source and its
(Korean) comments.

| Part | State | Operations | What is hard |
|---|---|---|---|
| `TaskQueueable`, `MPSCQueue`, `IocpCore` | `m_taskCount`, linked list with a swapped tail, one task event | `EnqueueAsyncTask`, `Execute`, `Dispatch` | count, tail swap and link are three steps; the consumer re-posts itself; nobody may be left out, or in twice |
| `TaskTimerMgr` | priority queue of due times | `ReserveAsyncTask`, `DistributeTask` | tasks handed over while the actor runs |
| `Session` | three connection flags, send queue, send flag, four events, reference count | `ProcessRecv`, `SendAsync`, `RegisterSend`, `ProcessSend`, `Disconnect`, ... | every operation completes on any worker; sends and disconnects come from any thread; every call may fail |
| `PacketSession`, `RecvBuffer` | read and write cursor | `OnWrite`, `OnRecv`, `OnRead`, `Clear` | TCP cuts packets anywhere; the buffer is linear |
| `Listener`, `Service` | slots, free slot numbers, id table | `ProcessAccept`, `AddSession`, `GetSession`, `ReleaseSession`, `CloseService` | slots reused while others look sessions up |
| `TimerObject`, `TimerNPC` | RUN / PREPARE / IDLE, stop flag | `ExecuteTimer`, `Dispatch`, `TimerUpdate` | the end of a tick against a player who wakes the NPC |
| login | `g_connectHash`: name -> flag | `Handle_c2s_LOGIN`, `DB_PlayerLogin`, `OnDisconnected` | two logins with one name, a disconnect within a login |
| `Sector`, `TRWorldRoom` | entity and session lists | enter, leave, migrate, broadcast | an entity moves between two actors; lists are read by other threads |
| `MoveBroadcaster` | view list | `BroadcastMove`, `ReleaseViewList` | moves and departures at once |
| `DBMgr`, `DBPacketSender` | queue, condition variable, send flag | `EnqueueDBEvent`, `ExecuteQuery`, `RegisterDBPacket` | lost notification, failed send |
| party, `Status`, `Inventory` | two pointers; atomics for level, experience, gold | handlers | two-step updates, compare-and-swap loops |
| memory pool, send buffer chunks | tagged free list; reference counts | allocate, free | ABA |

How they interact: a completion calls `Session` on a worker; the packet handler
runs on that worker, enqueues tasks on sectors (actors) and sends to other
sessions it finds with `Service::GetSession` or in the lists of a sector;
timers post events of NPCs and enqueue tasks; the query thread posts the events
of finished queries back to the port. References (`S_ptr`) keep objects alive
across all of these. `PROJECT.json` lists each component with its status, and
each hazard at its line with the properties that cover it.

## Modules

| Module | Models | Checked by |
|---|---|---|
| `SerialMailbox` | abstract: what an actor promises | refined by `TaskQueueable` |
| `TaskQueueable` | actor, queue, port, timer threads | `TaskQueueable` |
| `TaskQueueableProofs` | proofs about `TaskQueueable` | TLAPS |
| `Session` | one connection with its references | `Session_safety`, `Session_liveness` |
| `SessionProofs` | proofs about `Session` and `RecvBuffer` | TLAPS |
| `RecvBuffer` | the receive buffer and its loop | `RecvBuffer_safety`, `RecvBuffer_pull` |
| `Service` | the slots of many sessions | `Service_safety` |
| `ServiceProofs` | proofs about `Service` | TLAPS |
| `Sector` | a player in the sectors of the world | `Sector_safety`, `Sector_liveness` |
| `SectorProofs` | proofs about `Sector` | TLAPS |
| `TimerObject` | the timer of an NPC | `TimerObject` |
| `TimerObjectProofs` | proofs about `TimerObject` | TLAPS |
| `AtomicPool` | a pool of memory blocks: the tagged free list | `AtomicPool` |
| `AtomicPoolProofs` | proofs about `AtomicPool` | TLAPS |
| `DBQueue` | the query thread: queue, condition variable, port | in `Login` |
| `Login` | the table of names over `DBQueue` | `Login` |
| `LoginProofs` | proofs about `Login` and `DBQueue` | TLAPS |
| `ViewList` | the view lists and what the clients show | `ViewList` |
| `ViewListProofs` | proofs about `ViewList` | TLAPS |
| `MCTaskQueueable`, `MCSession`, `MCService`, `MCSector`, `MCTimerObject`, `MCAtomicPool`, `MCLogin`, `MCViewList` | model values for TLC | |

How they fit together: `Login` EXTENDS `DBQueue`, with which it is composed;
`TaskQueueable` is shown to implement `SerialMailbox`, and `Sector` starts from
what that promises. The others meet at an interface that one proves and the other
assumes: the order of a session's packets (`Session`, used by `ViewList`), who
may reach a slot (`Service`), who ticks an NPC, and once at a time (`TimerObject`,
used by `ViewList`).

### TaskQueueable

One action per atomic step of the code: `CountTask` (`fetch_add`), `SwapTail`
(the compare-and-exchange of `MPSCQueue::emplace`), `LinkNode`
(`next.store` and the test of the previous count), then `ExecuteInline` or
`PostTaskEvent`; and for the executor `Dispatch`, `Flush` or `FlushNothing`,
`BeginTask`, `EndTask`, `FinishBatch` (`fetch_sub`), and `YieldActor` or
`KeepActor` for the time slice, whose expiry is nondeterministic. While a task
runs, its thread may call `EnqueueAsyncTask` itself. A flush reads the list up
to the first node that is not linked in one step: `Execute` is the only
consumer, and a node linked during the walk gives the walk of a later moment.
Threads in `Timers` stand for `DistributeTask`, which enqueues with `pushOnly`.
The order in which a batch is run is computed as the code does, by the two
loops over the vector (`ExecutionOrder`).

`SerialMailbox` says what the contents layer relies on: tasks of an actor are
started in the order of submission, one at a time, each once, and eventually.
A task counts as submitted at the swap of the tail.

### Session

One connection from its `AcceptEx` on. `pending[k]` counts the operations and
posted events of each kind that hold a reference; a worker takes one
(`Dispatch`), and its `pc` walks through the handler with one action per shared
step. The end is three of them, `CloseSocket`, `ReleaseSession` and
`OnDisconnected`, and others may find the session between the first two. A handler that finishes without handing its reference on releases it
(`Return`), one that starts a new operation hands it over (`Hand`). Every call
that can fail (WSARecv, WSASend, DisconnectEx, the accept itself) has its failure
action, with the order of `HandleError` and `ReleaseIocpObject` in the code.
The three connection flags are kept apart where the code keeps them apart
(`connected`, the atomic, and `connectedFast`, the two plain ones, which are
always written together). The store of the send flag in
`ProcessSend` and the load of the tail after it may be reordered by the
processor: `PeekQueueEarly` is that outcome. Borrowers are threads that found
the session with `GetSession`; they queue packets, try to send, disconnect, and
drop their reference.

`FoundEarly` says whether `GetSession` may return the session before
`ProcessConnect` has raised its flags. It can: then a borrower may win the send
flag, `RegisterSend` finds the session not connected and returns without
clearing the flag, and the session never sends again. `SendTokenDiscipline`
excludes a lost token only for `FoundEarly = FALSE`; the window is listed as a
hazard.

### Service

`Session` follows one connection; `Service` follows the table they share. A
session is its number, and goes through `stage`: accepted, given a slot by
`AddSession` (`PopIndex`, `EmplaceId`, `StoreIndex`, `StoreSlot`), connected,
disconnected by anyone, and taken out by `ReleaseSession` (`ExchangeIndex`,
`ResetSlot`, `PushIndex`) on whatever worker gets its last completion. The
listener has one `AcceptEvent`, hence one accept at a time
(`acceptPc`). Readers run `GetSession` in its two steps, and one thread runs
`CloseService` once. `IterateSession` loads a slot and calls `Disconnect`; the
model does both in one step, because a session that is connected stays
disconnectable until somebody disconnects it, and one that connects between the load and the
call is disconnected as by a visit a moment later.

`operator[]` in `GetSession` inserts the entry 0 for an unknown number, and the
`emplace` of `AddSession` keeps it. The model keeps this; `LookUpFindsLiveSession`
excludes such a session by name (`id2Index[...] # 0`), and the window is listed
as a hazard.

### Sector

A sector is an actor, and this module starts from what `SerialMailbox`
promises of one: `inbox[s]` is the queue of sector `s`, and `running[s]` is the
rest of the task it executes. One action per task, split wherever a task touches
something that threads outside the sector also touch: the two lists read under
their own locks, the reference count, `GetCurSector`, the queue of another
sector. `Update` is started by a timer, so it may come between any two tasks, on
any worker, and changes only the object list of that worker. Around the sectors
run the dispatch of the login event, a packet handler that migrates the player
(`Handle_c2s_MOVE`, or any sector of another world in `ImigrationWorldChunk`)
and the end of the connection. Players do not exchange anything in these steps,
so one player stands for all. The branch of the login for a failed query is the
interleaving in which the connection ends before the first test.

`sectorRefs` is the part of the reference count that `EnterEnqueue` adds; the
object's `m_pOwnerEntity` (`ownerRef`) and the events and handlers (`ioRef`) are
the others. Session and object refer to each other, so the session is only
freed once an `Update` has reset the owner.

Where the code would go through a null pointer or a freed session the model
records a `fault` and stops: `"player"` (`m_pPlayer` reset before the login event
or a movement is done with it), `"sector"` (`ReadNoSector`: a change of the world
before the login has entered one), `"session"` (`Enter` lets a disconnected session
go and the after-behaviour reads it) and `"entity"` (an object added after its
owner was reset, or in `IsSession`, when the reset falls between the two reads of
`AddObjectEnqueue`). All four are reached. The invariants hold up to that point;
the hazards list them, as nothing in the repository claims that they cannot
happen. Another behaviour is kept without a fault: `AddObjectEnqueue` declines
an invalid object, and then no `Update` ever sends it away (`declined`).

### TimerObject

One NPC and the threads that wake it, tick it and carry its one event from the
timer queue (`reserved`) to the port (`posted`). Each access to
`m_timer_state`, to the stop flag and to a queue is an action. A thread may call
`ExecuteTimer` from within a tick: the broadcast of an NPC that moves near a player
wakes that NPC itself. Due times are arbitrary.

The protocol has two holes, which the model records as history and the
properties name as exceptions (`Orderly`). `crossed`: a player takes PREPARE from
a tick that answers IDLE, so the event is reserved while the state says asleep.
`overtaken`: the event a player reserved in that window is due, and ticks,
before the previous tick has got past its exchange. Without the exceptions TLC
shows two ticks at once, and an NPC left in RUN with no event at all.

### RecvBuffer

Bytes are abstracted to counts; of the first packet that is not consumed only the size in its
header is known. `OnRecv` consumes any number of whole packets, and stops
before the first incomplete one. The assumption of the module says that two of
the largest packets fit in front of the low mark. With the code's numbers: the
client builds a packet in a chunk of `0x1000 * 2` bytes
(`src/ClientNetwork/SendBufferChunk.h:11`, asserted in `SendBufferChunk.cpp:17`), the capacity
is 8 * 8189 = 65512 and the low mark 4094, so 2 * 8192 + 4094 <= 65512.

### AtomicPool

`AtomicNonTemplate.cpp` and its twin `AtomicMemoryPool.hpp`: the head of the
free list is one word, a pointer and a tag. `Allocate` loads it, `ReadNext`
reads the next pointer of the block it names, `Pop` or `RetryPop` is the
`compare_exchange`; `Deallocate`, `Link`, `Push` or `RetryPush` give a block back.
`ReadNext` may read a block that another thread has been given since: the header
stays readable, and the `compare_exchange` is there to throw the value away.
Tags have a width (`NextTag` wraps), and `wrapped` notes the one way in which
the tag does not help: a thread sleeps in its pop while the head changes a
whole cycle of tags, and another one allocates from the same pool.
The code has 2^19 tags. A pool has one allocator or two
(`MemoryMgr::Allocate` takes the pool by the thread's number), but any thread releases.

### DBQueue and Login

`DBQueue` is `DBMgr`: `EnqueueDBEvent` in its three steps, and the query thread
with the predicate of `wait`, the moment before it sleeps, spurious wake-ups,
a flush that stops at the first node that is not linked, the
execution of the batch and the post of each event. `EnqueueDBEvent` notifies
without the mutex, so a notification can fall between the predicate and the sleep: `missed`.
`Login` adds `Handle_c2s_LOGIN` (find, then exchange or
insert, then the name, then the query), the dispatch of the login event and `OnDisconnected`, which
may run on another worker at any moment of the handler.

Two windows are history variables and the exceptions of the properties.
`raced`: two first logins of a name both miss it in `find`, and the second
`insert` changes nothing, yet both are let in. `overtaken`: `OnDisconnected`
runs before `m_name` is set, so that nobody gives the flag back and the name
cannot be used until the server restarts.

### ViewList

`MoveBroadcaster` keeps one list per entity and sends packets by the difference
to what a tick sees. `Begin` copies the entities of the sectors, `Compare` is
the loop over them (`huristic`, and the wake-up of monsters), `TellPeer` and
`TellSelf` the two packets of a pair that appears, with the list in between;
`LeavePeer` and `LeaveSelf` those of one that leaves; `EndTick`. The order of the two
packets and of the list matters, because the ticks of two entities interleave freely
and each sends packets to both clients. Around the ticks run the
movements, `Enter`, the two ways to leave, and the `Update` that finds an invalid
object (`ReleaseViewList`, `LeaveAndDisconnect`). A player who disconnects
(`SetInvalid`) leaves silently: others learn it from their ticks and from
`ReleaseViewList`. A monster a player kills (`Kill`: whoever wins the exchange in
`CollisionResolver`) is announced to all sessions of the sectors around
(`BroadCast`, a task of each of them), before the `Update` and behind the back of the
lists, in any order with the packets of the ticks. Who is in the sessions of a sector at that moment
is left open: the four sectors around the attacker's do not include the diagonal
ones, which a client may see into, and players migrate meanwhile. The item the monster drops is not modelled.
`gone[x]` remembers the broadcasts after which `x` has not been told of the monster again by
the monster's own tick. A monster ticks only while awake
and may be put to sleep at any time (`Doze`): what its AI decides is left open.
Places are on a line, as only the two ranges matter; the nine sectors around
are one list.

What a client shows need not be what is there, and the properties name the two
ways: `Overlooked`, a monster that fell asleep after telling a player it left, while the
player's list keeps it; `Ghost`, an entity that a player was told of by the other's
tick only, and which left the game, or fell asleep, before a tick of the player saw it. TLC finds a
counterexample to the properties without either. A killed monster is a ghost only for
a client its broadcast did not reach, or that the monster's running tick told of it
afterwards: one that the player's own tick shows after the broadcast is taken off again.

## Runs

All bounds are small because each run enumerates every interleaving. No run
checks deadlock: the inputs are bounded and a connection ends.

* `TaskQueueable`: two workers, one timer thread, two actors, four
  tasks, with fairness. Two actors are needed for enqueues across actors and for a thread that
  executes one while it feeds another; four tasks give a batch of two with a
  half-linked node behind it while another producer counts. Shows that a busy
  actor is in exactly one pair of hands and an idle one in none, and that the
  counter is exact; that the actor implements `SerialMailbox`
  (`ImplementsMailbox`: once, in order, one at a time) and that no submitted task
  is stranded (`TasksGetTheirTurn`: the fairness of `SerialMailbox`).
* `Session_safety`: three workers (a receive, a send and a disconnect completion
  at once), two borrowers, three packets. Symmetry over workers and over
  borrowers; no liveness is checked with it.
* `Session_liveness`: two workers, one borrower, two packets,
  `FoundEarly = TRUE`. Teardown always completes and frees the session; a packet
  linked while the register event of a connected session waits at the port is sent
  unless `OnDisconnected` tells that the session is gone. Three kinds of packet may stay,
  and the property does not promise them: those of a borrower that came before the
  session was connected (the token is lost then, and the packets stay although the
  session is never disconnected), what was behind an unlinked node when the queue was
  flushed, and what was queued after the last check; the latter two wait for
  the next `TrySend`.
* `Service_safety`: three sessions for two slots, so that a slot is reused and a
  client refused while the server is full; one reader, symmetry over
  sessions. Slots are neither lost nor shared, a session that is connected
  throughout a lookup is found, and `CloseService` reaches everyone connected
  when it began. One session can outlive it: the one whose accept was already
  posted, or whose slot was visited before its flag was up; never two.
* `Sector_safety`: three sectors, so that a player can go on before the sector
  it left first has noticed; two workers, hence two object lists; three moves.
  Symmetry over sectors and workers. The player is in one entity list or in one
  task on its way, with the one reference; no session list keeps a pointer that
  nothing keeps alive; `GetCurSector` is right wherever the player is
  listed; once nothing is under way, the object lists agree with the entity list.
* `Sector_liveness`: two sectors, two moves. The session of a lost connection
  is freed, except after a decline or a fault.
* `TimerObject`: three threads (one ticks, one wakes, one distributes), four
  calls of `ExecuteTimer`: one wakes the NPC, the others meet each step of a tick. Outside
  the two holes an awake NPC has one event and a sleeping one none; after the
  event's reference is released nobody has a pointer to it; a killed NPC comes
  to rest. An NPC killed asleep keeps the reference to itself for ever: the last
  property allows it.
* `AtomicPool`: three threads, two of which allocate; three blocks, one of them
  not used yet; four tags, so that a cycle of the tags is within reach.
  Symmetry over the two allocators. Outside `wrapped` every block has one owner and none is lost.
* `Login`: three sessions of one user, two of which may be lost. Names do
  not interact, two sessions are what a race needs, and the third finds the
  flag the two left behind. One user at a time plays under a name, no flag stays up
  without a session that answers for it, and a queued login is answered unless
  its notification was missed.
* `ViewList`: two players, or a player and a monster; three moves along places
  that are in each other's view or not. A pair of entities does not affect another pair's
  lists and packets, so a crowd of two is enough for the properties, which are
  about pairs; the wake-up of a monster by a third entity is its being awake at any time.
  One of the players may leave and the monster be killed, which two sectors
  announce: two are needed for a client that is told, shown the monster again by a
  tick that was under way, and told again. The packets agree with
  the lists and broadcasts in every state, and what the clients show settles when nobody
  moves any more.
* `RecvBuffer_safety`: four buffers of four bytes, packets of up to seven, every
  way to cut the stream. The next receive always has room, and `memcpy` never
  gets overlapping regions.
* `RecvBuffer_pull` (expected violation): the comment at `RecvBuffer.cpp:28` says the rest is
  moved when less than one buffer is free; the code waits for less than half a
  buffer. Harmless, as `RecvBuffer_safety` shows, but not what is written.

Fairness. A thread inside a call goes on (weak fairness), since it blocks
nowhere. The completion port is first-in first-out, so an event in it is not
passed over for ever: strong fairness per actor or per kind of completion. A
receive is only assumed to complete once its socket is closed. A borrower
eventually drops its reference, which is a local variable of a handler. A
sector runs what it is given (that is what `TaskQueueable` shows), and
the timer of `Update`, which renews itself, visits each sector for ever. In
`Login` the query thread and the workers go on; that a condition variable wakes
by itself is not assumed. In `ViewList` a connected player ticks for ever, since the
client sends a `MOVE` every 150 ms (`Hero.cpp:528`), a tick that has begun
goes on, and sectors run their `BroadCast`; nothing is assumed of the ticks of monsters.

## Proofs

For any threads, actors and number of tasks (`TaskQueueableProofs`):

* `TypeCorrect`, `MutualExclusion`, `ExactlyOneHand`, `ExactCount`. None of the
  invariants is inductive alone. `IInv` joins the types with `HandInv`, which
  says the same as one hand without cardinalities (the event is posted, or one
  thread executes, or one thread counted from zero: at most one of these, and
  one exactly when the counter is positive), and `CountInv`, which says what
  the counter counts. They need each other: the count makes the zero test of
  `fetch_sub` mean "nothing is left", and the single executor makes the batch
  that is subtracted unique.
* `ExecutionOrderIsFifo`: the two loops run a batch of any length from front to
  back.
* `Refinement`: the actor implements the safety part of `SerialMailbox`
  (`ImplementsMailbox`). `MailboxView` says what the mailbox is through the thread that
  executes the actor, or when no executor has a task in hand; that it is one thread is
  `MutualExclusion`. `MailboxStep` maps each step: the swap of the tail is `Submit`,
  `BeginTask` is `Start`, `EndTask` is `Finish`, every other step leaves the
  mailbox alone. A flush does because of `ExecutionOrderIsFifo`, the steps that
  change hands because a thread enters and leaves with an empty batch. That a
  swap submits a new task needs `NumberInv`: calls in progress carry
  different tasks.

For any buffer size, number of buffers and packet size that satisfy the assumption
(the last part of `SessionProofs`): `CursorsOrdered`, `AlwaysRoom`, `DisjointPull`. The
strengthening says that what is left after parsing is less than one packet.

For any finite set of sessions, any readers and any number of slots up to 65535
(`ServiceProofs`): `TypeCorrect`, `SlotPartition`, `LookUpCorrect`,
`CloseComplete`, `OneLateSession`. The invariant has a part for each table.
`PhaseInv` says which local variables a session uses at which stage, and that
the session being accepted is the only one on its way in. `PartInv` restates the
partition without cardinalities: the queue has no duplicates, no queued number
has an owner, two owners of a number are the same session, and no number is
without both. It needs `PhaseInv` to know that a pushed number has an owner
until that moment. `SlotInv` says what a slot contains from what its owner has
done so far; it rests on the partition, since only the owner may write a slot.
`LookUpInv` and `CloseInv` then carry a lookup and the walk of the close from one step to
the next: a slot already visited contains nobody connected except the one late
session.

For any finite set of threads and any number of wakes (`TimerObjectProofs`):
`TypeCorrect`, `NoTickLostOrDoubled` and `NothingAfterRelease`. The invariant is split by the
stop flag. Before it, `OneDriver` and `AwakeIsDriven` say that one hand at most,
and one just when the state is not IDLE, will make the NPC tick again, and
`ExchangeInv` what the state says of the tick at its exchange: PREPARE means the tick
still drives, anything else that a waker took over and the tick answers RUN.
After it, `StopInv` says that nothing is queued and no waker may post. In
between lies the fact that the tick that raises the flag is alone, which is where
`overtaken` is needed. `TypeOK` rests on a
count of its own, `Budget`: what is in a queue, ticks or wakes goes back to a call of
`ExecuteTimer`, so a queue never holds more than there were calls, in the holes too.

For any threads, blocks and number of tags (`AtomicPoolProofs`):
`TypeCorrect`, `Partitioned` (`BlocksArePartitioned`), and
`OneAllocatorPartitioned`: a pool with one allocator needs no exception. The
hard part is what a thread about to pop knows, since the block it read may have
been given away and have come back. `Ages` says that the tag of the head is the
tag the thread read plus the changes since (`age`), modulo `Tags`, so equal
words mean no change or a whole cycle; `Pops` says that a thread whose head has
not changed read the next pointer of the first block, and that the first block of a pool with one
allocator is still in the list.

For any sessions, names and users (`LoginProofs`): `TypeCorrect`, `OneOwner`,
`NamesAreFreed`. `Stages` ties the handler of a session to its connection, its
name and its event in the queue; `FlagHasOwner` says that a session let in
keeps its name and its place in the table until its `OnDisconnected`.

For any finite sets of players and monsters, any places, ranges and crowds (`ViewListProofs`):
`TypeCorrect` and `ViewsAgree` (`ViewsMatchLists`). The invariant `Agree` counts the
packet of a pair whose second half is missing as part of the list (`Lists`):
after `TellPeer` the peer is told though the list does not have it yet, after
`LeavePeer` the other way round. With that, each step of a tick keeps the agreement
of both clients by itself, whatever the tick of the other does in between. A
broadcast (`KillIsTold`) takes a killed monster off clients whatever the lists say, so the
agreement excuses those it reached (`gone`), and says of them that they show the monster only
while their own list has it, from where their next tick takes it off.

For any finite sets of workers and borrowers, any number of packets and both values
of `FoundEarly` (`SessionProofs`): `TypeCorrect`, `OneToken`, `SentInOrder`, `ExactRefs`,
`SerialHandlers`, `OneDisconnect`, every invariant of the module. `Served` ties where a
thread is to the completion it serves. `ChainInv`, `EndInv` and `TokenInv` restate
the sums of the properties with quantifiers: there is one of the receives, one
teardown and one send token. `Quiet` says that nobody has touched a session that is not
connected yet, which is why the token cannot have been lost when `FoundEarly` is
false. `OrderInv` says that wire, send buffer (unless its send is under way)
and queue together are the packets in order; a step can only disturb it while it
holds the token. The references are counted by who holds them (`Sum`), and each
way to hand a reference on is one lemma.

For any finite set of sectors, any workers and any number of moves (`SectorProofs`):
`TypeCorrect`, `OneReference` (`OneReferenceOnePlace`), `ListedSessions`,
`CurrentSector`, `ObjectsFollow`, every invariant of the module. The
invariant says where the player is at each moment of its life:

* `Addressed`: a task or a step that names the sector the player comes from or goes to
  names a real one.
* `Token` restates the first property without sums: there is one place (an entity
  list, or one task that carries the player), and that place has the reference;
  after the end there is none.
* `ListedSessionIsHeld` is inductive once the types are known: a session list
  is only changed together with what keeps the session.
* `Info` says that `m_pCurSectorInfo` leads to that place: to the list the player is
  in, or along the tasks that are still to be run.
* `Follow` is what makes the object lists agree. An `AddObject` and a
  `LeaveObject` of one sector may both be queued after two quick moves, so the list
  itself says little; `WillList` is what the list will say once the queue has been run,
  and `Follow` that this is so exactly for the sector where the player is, or
  is about to arrive (`Home`), while it is connected. Each handler changes both sides or neither,
  and the order in which a sector runs its tasks is first-in first-out, which
  is what `TaskQueueable` shows.

Only model-checked: all liveness, which no prover here reaches: that a
submitted task gets its turn (`TasksGetTheirTurn`), that teardown completes and posted sends are
flushed, and the like in the other modules.

## Not modelled

* Within the modelled parts: in `Sector`, NPCs that migrate and the pick-up of
  items by a handler of another thread (a hazard without a property); the
  `Status` of a player, whose compare-and-swap loops over independent words
  have no state two steps share but the level and the experience (a hazard);
  the branches of `Listener` that report an error and stop the server.
* `DBPacketSender`, by which logins and the inventory tell the query server of
  changes: a queue and a flag that one sender holds, the send path of `Session` on
  a connection that never ends. What differs, the flag that stays up
  when `WSASend` fails, is a hazard.
* The party: two pointers a handler changes on two players without a lock. It
  is listed as a hazard; what the code promises of the pointers is not stated
  anywhere.
* Send buffer chunks: a chunk is written by one thread (it is thread local)
  and released by its reference count, which `S_ptr` gives to it as to a session.
* Physics, tiles, world generation, NPC behaviour, items and inventory, ODBC,
  logging: sequential computations of one thread, with no protocol between
  threads to check.
* `Lock`, `DeadLockProfiler`, `EBR`, `TaskQueueable::StopExecute` and
  `Sector::ImmigrationAll`: nothing calls them.
* The client, the game framework, and generated or vendored code (Protocol
  Buffers, Box2D, tbb, FMOD and the like). They are almost all of the lines of the
  repository: the server's own code is a few thousand lines, of which the models
  cover the concurrent core.
