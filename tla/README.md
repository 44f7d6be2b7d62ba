# A verification of yux

yux is a small C++ framework of header files for TCP servers and clients on boost::asio. This
directory holds TLA+ modules that model it, TLC configurations that check them on small
instances, and proofs that TLAPS checks. File names below are relative to `src/src/yux/`.

## The system

| Component | State | Operations | Hard behaviour |
|---|---|---|---|
| `worker_controller_impl.hpp`: one connection | `status_` (bits R, WR, W, C, FW, BW), `refcnt_`, `write_cache_` | `ref`, `unref`, `write`, `trigger_read`, `final_write`, `close`, `io_init`, completions through `process_read`, `process_write`, `process_error`; `block_write`, `unblock_write` | three or more threads; callbacks that call back in; locks released in the middle; who destroys the object, and when |
| `asio/asio_tcp_worker.hpp`: the same on an accepted socket | socket, two callbacks | `io_read`, `io_write`, `io_close`, `io_destroy`, `handle_receive`, `handle_send` | completions that overlap user calls |
| `asio/asio_tcp_client_worker.hpp`, `asio/asio_tcp_client.hpp` | `status_` of the connect, two references | construct, `start`, destruct, `handle_connect` | writes before the connection exists; cancelling against connecting |
| `asio/asio_tcp_server.hpp`, `asio/asio_tcp_data.hpp` | `status_`, `stop_signal_`, `current_tcp_data_ptr_`, two allocators | `set_bind_address`, `start`, `stop`, `join`, `accept_handler`, `after_accept_wait`, `destroy_worker` | stop against start and accept; failed accepts and allocations; starting again |
| `asio/asio_multithread_service.hpp` | io_services, their threads and work objects, a round-robin index | construct, `get_service`, `stop` | threads that run out of work; deletion under living connections |
| `pool_string.hpp`: the write cache | chain of blocks, write pointer, space, length; the zone's free queue | `append`, `pop`, `clear`, `use_zone` | boundaries of blocks; running out of memory half-way |
| `fixed_allocator/bigblock_allocator.hpp`, `object_allocator_proxy.hpp` | free nodes, caches, `max_caches_` | `construct`, `destruct`, `allocate`, `deallocate` | nodes reused with stale pointers; the limit |
| `linked_ptr_queue.hpp` | head, tail, next pointers | `add_tail`, `remove_head`, `add_head` | empty and one-element queues |
| `read_filter.hpp`, `write_filter.hpp`, `worker_handler.hpp` | none that matters | pass through; a sample handler | called with and without the lock |
| `spinlock.hpp` | a bit; `locked_` of each `scoped_lock` | `lock`, `unlock`, `release` | two `scoped_lock`s of one mutex in one scope; a mutex inside the object that is freed |
| `worker_trick.hpp`, `fixed_allocator/block_allocator.hpp` | none; a boost pool | | |

A server's accepter thread builds a worker in the memory of its allocator for every accepted
socket and calls `io_init` on it; from then on the thread of the socket's io_service runs the
worker's completions, the handler runs inside them, and application threads that were given a
reference may call it too. What is written goes through the write filter into a buffer or, while a
write is outstanding, into the pool string, which takes its blocks from a zone, which takes them
from a bigblock allocator. When the connection was closed, has no operation outstanding and no
reference, whoever notices last gives the worker back through `asio_tcp_data`.

What makes each part correct: for the controller, one read and one write chain at a time, bytes in
order, nothing forgotten, one destruction, late enough and not never; for the client, exact
references and no write before the connection; for the server, no leaked or mixed-up connection,
and accepting as long as it says it runs; for the pool string, being a queue of bytes; for the
allocator, handing out no block twice and losing none; for the zones, the same while many strings
take and return blocks; for the locks, that nobody frees a lock he does not hold, calls the application
with one, or waits for ever.

## The modules

`WorkerController` is the core. A thread is a call stack (`stack`), because a callback may call the
controller again, even `close` inside `handle_error` inside `close`. A frame is a place in
the code where the lock is free: a callback of the application (`AppFrames`), or the point after
one. Each step runs from one release of the spinlock to the next; the code between two
`scoped_lock`s that touches nothing shared is joined to a neighbour. `status_` is kept as six
variables named after the comment at its declaration. A call of the application (`Api`) is possible
in every callback and, for a thread of `Users`, whenever it has a reference (`held`): that is the
rule of the comment `worker_controller_impl.hpp:35`. Data are numbered units, so that order and loss
show. A socket has at most one read and one write outstanding (`rop`, `wop`); "overlap" records a
second one instead of forbidding it, and "dead" one started on a closed socket. Completions run one
after the other on thread `Io`, for each io_service has one thread. `ErrorCloses` chooses between
the handler of `worker_handler.hpp`, which closes in `handle_error`, and any handler at all.

`ObjectLifetime` is what a reference-counted object that has to be closed promises. The
controller implements it under the mapping `Claims`: a call in progress, a reference or an
operation is a claim.

`TcpClientWorker` extends `WorkerController` with the client's own state. `Acc` is here
the thread that owns the `asio_tcp_client`; `handle_connect` runs on `Io`. A behaviour ends at
`io_destroy`, since anything afterwards is undefined: `NoUseAfterDestroy` tells whether somebody was
still inside. The client template does not compile as it stands (it names `object_allocator` and
`asio_tcp_data::get_allocator`, which do not exist); the memory of the `asio_tcp_data` is therefore
left out, and everything else is modelled as written.

`MultithreadService` has the constructor of `asio_multithread_service`, `get_service`, and `stop` one
io_service after the other; who uses it says which io_services have operations outstanding
(`busy`). `TcpServer` extends it and is that user. A connection is a slot, the memory of its
`asio_tcp_data`; its inner life is `WorkerController`, and of it there is here what its io_service sees:
the worker has operations outstanding (`working`) or is idle, kept by a reference alone, goes from one to the other and
back (`Rest`, `Resume`), is closed (`Close`), and is destroyed when its last reference goes, if ever. An idle worker does not keep
`run` from returning, and `join` deletes the io_service under it (`serviceOf` is then `Deleted`). `stop` may come at any time, from another thread, and its two statements are
two steps. `run` of an io_service leaves it stopped when it returns, as boost does until `reset` is called.

The pool string has two modules. `PoolString` models strings that share a zone as sequences of
blocks with bytes, offset and fill count; a call is one step, since here the question is what the bytes do. `ByteQueue` is what it promises. `Need` has the code's arithmetic, with the empty
block after an exact fit. An append that finds no memory for the first block drops its bytes and changes nothing
(`DropBytes`). One that runs out of memory later leaves the string `broken`: it counts
bytes it does not hold, and only `clear` is modelled of it afterwards. `PoolZone` leaves the bytes out and
has the pointers instead: `next` links a block in a chain and in the free queue, each string has a thread,
and the steps are the calls of the zone, so that between the blocks of one pop other strings take and
return theirs. A zone is shown to be a `BlockPool`.

`LinkedPtrQueue` has the pointer operations as operators on a record of head, tail and all next
pointers; `BigblockAllocator` builds the allocator and the object proxy on them, and `BlockPool` is
what they promise, and what `PoolString` takes for granted of its zone. `max_caches_` is charged for every malloc after
the constructor's, also for those that fail; `refused` counts these, so that `BudgetExact` can say so.

`LockPaths` is about the locks alone. A function is the set of ways through it, each a sequence of
constructions, early releases and destructions of `scoped_lock`s, calls of other functions and
calls of the application; which way is taken is left open. The application may call any function of any worker.
So its behaviours include those of the other modules as far as locks go, and the steps of these, from one release of
a lock to the next, rest on it: `MutualExclusion` makes a section a step, `OutsideUnlocked` says that callbacks
are between steps.

The `MC...` modules instantiate these for TLC. `PROJECT.json` maps every definition to its lines.
An operator whose comment calls it a mutant is a plausible error of the definition after it; it is
used by no specification, and its substitution makes the property named in `PROJECT.json` fail.

## The runs

| Run | Configuration | States | Shows |
|---|---|---|---|
| worker | `MCWorker.cfg` | 58,017 | safety of a server connection with any handler and two users; it implements `ObjectLifetime` |
| fair | `Fair.cfg` | 36,920 | its liveness, with a handler that closes on errors |
| client | `MCClient.cfg` | 107,134 | safety and liveness of a client connection; who may be inside when it is destroyed |
| client_use | `ClientUse.cfg` | violation | use after destruction in `handle_connect` |
| server | `MCServer.cfg` | 175,366 | safety of accepting, stopping, joining, starting again; who keeps his io_service |
| serve | `Serve.cfg` | 144,985 | peers are accepted; `join` returns |
| restart | `Restart.cfg` | violation | a restarted server is deaf |
| retry | `Retry.cfg` | violation | a failed allocation is never retried |
| pool | `MCPool.cfg` | 89,223 | blocks, lengths and write positions are exact; a pool string is a queue of bytes |
| zone | `MCZone.cfg` | 33,508 | chains and free queues stay apart and end where they should; a zone is a `BlockPool` |
| allocator | `MCAllocator.cfg` | 1,184,106 | the free list is exact and a `BlockPool`; every malloc is charged to the limit, and max_caches + 1 caches are the most |
| locks | `MCLocks.cfg` | 810,053 | mutual exclusion, no lock around callbacks and destruction, no deadlock |

**Bounds.** *Connection:* two users for safety, one for liveness and for the client, three calls of the application besides `close`,
`unref` and what callbacks return, writes of 1 and 3 units with a buffer of 2. Three calls let a
write be outstanding, a second be cached and a third race the end of the chain, or a reference,
a read and its end meet; a write of 3 is split and also drains in two pops. *Server:* two services so that
the index wraps, three slots so that one connection lives while one is waited for and one
allocation is left, two starts so that something is stopped and started again; `DataShort` and `WorkerShort` let any allocation of
an `asio_tcp_data` or of a worker fail, the latter also in *serve*, where peers are accepted all the same. *Pool:* blocks of 2 bytes, three of them for two strings, appends of 1 and up to 4 bytes: exact
fits, several blocks in one append, memory gone at the first block and in the middle. *Zone:* three strings,
two zones of three blocks: a free queue has none, one and several blocks while a pop and a batch return of
two other strings are under way, and blocks can be carried from zone to zone. *Allocator:*
three caches of two nodes, so that queues have none, one and several nodes at every operation, without a limit and with
two caches to add, so that of these both, one or none are refused.
*Locks:* two threads and two workers, each thread in one callback at a time that may call once more
(`MaxNested`), so that a function of one worker is called inside a callback of it and of the other
while a second thread is anywhere: a cycle of two locks or of one needs no more.
Deadlock is checked in `locks` only, as a destroyed connection, a stopped server and a program that makes
no further calls rightly stop.

**Fairness.** In `WorkerController` every thread that is inside the code goes on (`WF` of `Step`):
callbacks return and the spinlock is held briefly. Users give their references up. A
write completes, since the peer reads or the connection breaks, and a read on a closed socket
completes, since boost cancels it; both are `SF`, as the thread of the io_service may be busy with the other
completion again and again, but runs its queue in order. Nothing is assumed of a read on an open
socket: a silent peer is allowed. `HandlerCloses` says that the handler of `worker_handler.hpp`, inside
`handle_error`, does call `close`. In `TcpServer` threads go on, connections are closed in the end (by a peer that leaves, an error or the application), and accepting does not fail for ever while a peer
waits (`SF` of `AcceptSucceeds`); a thread whose io_service has nothing left to run returns. References may be kept for ever; only in
*retry* they are given up (`ReleasingSpec`), so that there is memory that a retry would find. The client
adds that an attempt to connect ends with or without an error, as boost reports one or the other, that owners
delete their clients, and that a handler which may close does, once it is in `handle_error`.

## What the violations show

* *client_use.* `handle_connect` calls `io_init`, which drops the reference of the
  constructor, and then `unblock_write`. If by then the owner has deleted its `asio_tcp_client` and the
  connection is closed - by the owner, before or while it connects, as in TLC's trace, or by the handler in `handle_open` - that reference was the last: the worker
  is destroyed inside `io_init` and `unblock_write` locks freed memory. It is the only way in: the theorems `ClientIsAlone` and
  `OnlyUnblock` say that nobody else is inside a client that can be destroyed, or enters it. The rule at
  `worker_controller_impl.hpp:35` is that every function is called while a reference is held.
* *restart.* `stop` stops `accepter_service_`; `start` runs it again without `reset`, so `run`
  returns at once, while the log says that the service is running.
* *retry.* The timer that should retry a failed allocation is a local variable; leaving the scope
  aborts the wait, and `after_accept_wait` ignores an aborted wait.

## What is proved

Each `...Proofs` module has the theorems about the module it is named after, for every value of the
constants: any threads, sizes, numbers of blocks, nodes, caches, calls.

| Module | Theorem | Says |
|---|---|---|
| `WorkerControllerProofs` | `TypeCorrect` | `Spec => []TypeOK` |
| | `ChainsAreSingle` | `Spec => []OneChainEach`: one read and one write chain, told by `status_`; the code's assertions hold |
| | `NeverUsedAfterDestroy` | `Spec => []NoUseAfterDestroy` |
| | `NothingIsForgotten` | `Spec => []NothingForgotten` |
| | `FailureIsFinal` | `Spec => FailedForGood` |
| | `Invariance` | `Spec => []IInv`, from which the others follow |
| | `DataIsSentInOrder` | `Spec => []SentInOrder` |
| | `FinalWriteIsLast` | `Spec => FinalWriteFlushes` |
| | `WorkerImplementsLifetime` | `Spec => LifetimeSafe`: the controller implements `ObjectLifetime` |
| `TcpClientWorkerProofs` | `ClientInvariance` | `ClientSpec => []ClientInv`, from which the others follow |
| | `ClientChainsAreSingle` | `ClientSpec => []OneChainEach` |
| | `ClientSendsInOrder` | `ClientSpec => []SentInOrder` |
| | `ClientForgetsNothing` | `ClientSpec => []NothingForgotten` |
| | `WritesWait` | `ClientSpec => []WritesWaitForConnect` |
| | `ReferencesAreExact` | `ClientSpec => []ReferencesExact` |
| | `ClientFailureIsFinal` | `ClientSpec => FailedForGood` |
| | `ClientLifespan` | `ClientSpec => [](ClientInv /\ Lifespan)`, from which the next two follow |
| | `ClientIsAlone` | `ClientSpec => []ReclaimedAlone`: only a `handle_connect` before `unblock_write` may be inside a reclaimable client |
| | `OnlyUnblock` | `ClientSpec => OnlyUnblockRevives`: and only this `unblock_write` can change that |
| `TcpServerProofs` | `TypeCorrect` | `Spec => []TypeOK` |
| | `NoSlotLeaks` | `Spec => []SlotsAccounted` |
| | `HandlerHasItsSlot` | `Spec => []AcceptedIsCurrent` |
| | `ServiceOutlivesOperations` | `Spec => []ServicesOutlive`: no io_service ends under an operation, none at all before `join` deletes them |
| `LockPathsProofs` | `SpinlocksExclude` | `Spec => []MutualExclusion` |
| | `ApplicationRunsUnlocked` | `Spec => []OutsideUnlocked` |
| | `NobodyWaitsInACycle` | `Spec => []NoWaitCycle` |
| `BigblockAllocatorProofs` | `FreeBlocksExact` | `Spec => []QueueExact` |
| | `BudgetIsExact` | `Spec => []BudgetExact`: what is left of `max_caches` tells how often malloc was asked |
| | `CachesAreFreed` | `Spec => []EveryCacheFreed` |
| | `AllocatorIsBlockPool` | `Spec => IsBlockPool`: the allocator implements `BlockPool` |
| `PoolStringProofs` | `NoBlockLeaks` | `Spec => []BlocksAccounted` |
| | `WritesInPlace` | `Spec => []WritesBehindTheEnd` |
| | `LengthIsExact` | `Spec => []LengthExact` |
| | `StringIsByteQueue` | `Spec => IsByteQueue`: a pool string implements `ByteQueue` |
| `PoolZoneProofs` | `ChainsEndAtTail` | `Spec => []WalksEndAtTail` |
| | `BlocksStayHome` | `Spec => []BlocksComeHome` |
| | `ZoneIsBlockPool` | `Spec => ZoneIsPool`: the first zone implements `BlockPool` |

The assumptions are those the modules name: `ThreadsAssumption` (`Acc`, `Io` and the finitely many users are different threads), `BoundsAssumption`
(sizes are numbers) and the like, which say what kind of value a constant is; TLC evaluates them in the runs.

**The controller.** `NoUseAfterDestroy` is far from inductive: it speaks of the moment after destruction only. `IInv`
adds why nobody can be inside at that moment. Its first part, `SharedInv`, is what the server and the client have in common, and is about chains
and data: it is kept by every action of the controller in any state that satisfies it, one lemma for each.
The other parts are the server's. `References`: `refcnt_` is the number of holders, and one more
while `io_init` has not dropped the reference of the constructor. `Outermost`: the
bottom frame of a stack tells what its thread claims, `Acc` the reference of the constructor, `Io` a
chain, a user its reference. `Destruction`: one thread at most is in `io_destroy`, and while it is, or
after it was, the condition `Reclaimable` holds. So when a thread finds `Reclaimable`, no reference, no chain
and hence no thread but itself is left (lemmas `Quiet`, `OnlyOutermost`), and no step can make it
false again (`Alive`, `AliveOps`: any call needs a claim). The proof has one lemma for each
action; lemmas about stacks (`Goto...`, `Call...`, `Return...`) say what each does to `Places`, the
set of frames of a kind. The bound `MaxCalls` plays no role but in
the type of `calls`.

**Chains and data** (`SharedInv`). `OneChainEach`: a bit of
`status_` is 1 exactly while one frame of one thread, or one operation, carries the chain. `NothingForgotten` needs no more. Until a write fails, `sent`, the buffer and the cache, one after the other, are 1, 2, ... up to the number
written, and the buffer is empty unless a write is outstanding or its result is being processed. The refinement of `ObjectLifetime` needs from `IInv`
that a call is only made on a claim, that `closed` is set by one thread, and `Quiet` for the step that destroys.

**The client.** `ClientNext` has the controller's steps (`Api`, `Step` and the completions) and its own, and these keep `SharedInv`, too: `unblock_write`
starts a write chain only if none runs, as `io_filterout` does. Two parts are added. `Connection`: until a
connect succeeded, writes are blocked, no operation of the socket is a write, and no frame is on its way to one, since only `unblock_write`
lifts the block and only a `handle_connect` without an error calls it; `start` and `handle_connect` run once each. `Counted`: `refcnt_` is the number of holders
and one more until the constructor's reference is dropped, of which there are three ways: at the end of a `handle_open`, in `handle_connect` after an error,
and by the cancellation. `healthy` tells which one is taken, and one frame at most is on its way to it.
`NoUseAfterDestroy` is false for the client, as the run *client_use* shows. What is true instead needs `Lifespan`: of each thread that is inside, the bottom of its stack tells the claim it has,
a reference, a chain, or that of the constructor, which `io_init` drops while `unblock_write` is already the frame below it. There is no claim
from then on until `unblock_write` begins (`BeforeUnblock`), and this is the only gap: a step that finds `Reclaimable` leaves no claim (`ClaimCounts`), so it can only be the last of its thread.

**The server.** The states of the slots, the place of the accepter thread and `current_tcp_data_ptr_` determine each
other: that is the accounting of the slots. For the lifetime of the io_services the invariant relates
the phases of `stop` and `join`, the work objects, the threads still in `run` and the operations each io_service has: until `join`
has the accepter thread, the work objects hold all threads (`Holding`); from then on only operations do (`Operating`), and a thread that
was joined is not in `run`, so no operation is left when the io_services are deleted. An idle worker or a stranded accept is in none
of these, and nothing is promised to it.

**The locks.** Every way through a function is a run of an automaton whose state is what the thread itself
has locked since it entered, and the functions that another calls, too, so that the ways need not be enumerated. The invariant says
that each frame of a stack is in a state of its automaton from which the rest of the frame ends unlocked, and that a lock is held exactly
by the frame that took it. The absence of cycles follows from ranks 0 to 4 of the locks: what is waited for
has a higher rank than what is held.

**The allocator.** `LinkedPtrQueueProofs` says when a record of head, tail and pointers *holds* a sequence
(`Holds`) and what `AddTail`, `RemoveHead` and `AddQueue` do to that sequence, empty and one-element queues included. With these
lemmas the invariant of the allocator speaks of sequences: the queue holds the blocks that nobody has,
each once, the header queue holds the caches in the order they were made.

**The pool string.** The invariant has three parts. Every block handed out by the zone is in one place of one
chain or of the free queue (`Apart`), which is all that `BlocksAccounted` counts. Every block has its bytes inside its memory
(`Memory`). Every string that never ran out of memory is `Sound`: it writes right behind its last byte, has room for one more, and its length is that of
its content. That the content is a queue needs what an append and a pop do to the concatenation of the blocks'
bytes (`AppendMemory`, `PartsJoin`, `PopMemory`), for any capacity and any size: the pieces that go to the new blocks join to what was
appended, and the blocks given back and the cut of the next join to what was taken.

**The zones.** Here the chains of strings are pointers, too, and the invariant says (`Linked`) that each is a queue in the
sense of `Holds`, like the free queues: the lemmas about `linked_ptr_queue` serve both. What keeps the strings out of each other's
way is `BlocksComeHome` itself: a step writes the next pointers of its own blocks and of those that wait in
its zone, and these are in no other place, so no other chain changes (`Elsewhere`, `OneChange`). Then each
step takes one block (`Takes`) or gives some back in their order (`Gives`), and in both forms it is a step of the pool.

Concatenation (`FlattenSeq`) is a recursive function. The proofs characterise it by the sequence of its partial results (`Runs`)
and do their inductions with `LeastNumber`, that a set of numbers has a least one, which comes from the library's `WFMin`.
So a definition that recurses over numbers can be reasoned about here; what cannot is a `RECURSIVE` operator.

Each inductive invariant was checked by TLC on the run of its module before it was proved.

Only model-checked: liveness, which is beyond the prover. Every invariant and every action property that a run checks is proved,
for the controller both under a server and under a client, but for what a client is shown not to satisfy. Of a client `SentInOrder`, `NothingForgotten` and `FailedForGood` are proved only.

## What is not modelled

* `worker_trick` (chosen at compile time), `block_allocator` (used nowhere), parsing and
  logging, `get_remote_address`, `get_cached_size` and other reads.
* Data races inside boost: `io_close` runs outside the mutex, so a socket may be used by two threads
  at once; here each is a step. Filters that call the controller from `get_read_buffer` or
  `get_write_buffer` would wait for their own lock; the sinks do not, and `LockPaths` has them call nothing.
* A handler's own state, which callbacks of two threads may touch at once.
* Binding a server twice, an operation that the application starts on an idle worker whose io_service has no thread any more or was
  deleted, and
  calls of `asio_multithread_service::stop` other than that of its destructor.
* `unref(false)` as an action of its own: while it leaves a reference it is `Unref`, otherwise it only
  prints. The one call of it in the repository, in `io_trycancel`, is part of `ClientDestructor`.
* `pool_string +=` of another pool string, its iterators, use of a string after it ran out of memory in the middle of an append (in `WorkerController` the cache always finds memory), `total_cnt_`, and `linked_ptr_queue::add_head` (used nowhere).

`PROJECT.json` lists the hazards of the code at their lines, with the properties that cover them or
the reason why none does.

## The plan

Done: the controller first, as everything depends on its lifetime rules, with its proofs; then the
client on top of it, the server with its io_services, the pool string with its zones, the allocator
below it, and the locks under all of them; proofs in the same order, the client last, with the controller's invariant reused. Nothing of the plan is left.
