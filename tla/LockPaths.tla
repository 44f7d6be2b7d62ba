----------------------------- MODULE LockPaths ------------------------------
(***************************************************************************)
(* The spinlocks of yux and the ways in which its functions go through     *)
(* them: the mutex of each worker, the mutex a client worker has besides,  *)
(* pool_mutex_ of the zones, the mutex_ of their allocator and of those of *)
(* the objects, and hot_worker_mutex_.  A spinlock knows nothing of its    *)
(* owner: unlock frees it whoever calls, and a thread that locks one it    *)
(* holds spins for ever.                                                   *)
(*                                                                         *)
(* A function is the set of the ways through it, each a sequence of what   *)
(* it does with its scoped_locks, which functions it calls and where it    *)
(* calls the application, which may then call any function of any worker.  *)
(* Which way a call takes is left open: data decides it in the code, in    *)
(* WorkerController for instance.  The calls of get_read_buffer and        *)
(* get_write_buffer, which the code makes under the mutex, are not among   *)
(* those of the application: these must not call a worker.                 *)
(***************************************************************************)
EXTENDS Integers, Sequences, FiniteSets, SequencesExt

CONSTANTS
  Threads, Workers,
  MaxNested     \* bound: callbacks a thread is in at a time

ASSUME LockPathsAssumption == MaxNested \in Nat

VARIABLES
  v_,           \* the locks that are taken
  stack         \* the frames of each thread, the running one last

vars == <<v_, stack>>

-----------------------------------------------------------------------------
(* What a function may do, and ways to go on after a way.                  *)

Lock(x)    == <<"lock", x>>       \* the constructor of scoped_lock x
Release(x) == <<"release", x>>    \* x.release()
End(x)     == <<"end", x>>        \* its destructor
Enter(f)   == <<"call", f>>
App        == <<"app", "app">>

Then(ways, more) == {p \o q : p \in ways, q \in more}
Maybe(ways)      == ways \cup {<< >>}

\* A mutex that is taken and given back around what touches nothing else.
Section(x) == {<<Lock(x), End(x)>>}

\* __prepare_destroy(x), and the destructor of x when its caller returns.
\* Mutant: the lock is not released.
PrepareDestroyLocked(x) == {<<End(x)>>, <<Enter("io_destroy"), End(x)>>}
PrepareDestroy(x) == {<<End(x)>>, <<Release(x), Enter("io_destroy"), End(x)>>}

\* The zone: each takes pool_mutex_, and a new block the lock of pool_ in it.
Allocate   == Section("zone") \cup {<<Lock("zone"), Lock("blocks"), End("blocks"), End("zone")>>}
Deallocate == Section("zone")

\* A pool_string may take or return several, one after the other like one.
CacheAppend == Maybe({<<Enter("allocate")>>})
CachePop    == Maybe({<<Enter("deallocate")>>})

\* worker_controller_impl.
Ref         == Section("lock")
TriggerRead == Section("lock")
GetCachedSize == Section("lock")
Unref       == Then({<<Lock("lock")>>}, PrepareDestroy("lock"))
FilterOut   == Then(Then({<<Lock("lock")>>}, CacheAppend), {<<End("lock")>>})

\* Mutant: the lock is not released before process_error.
CloseLocked ==
  Section("lock") \cup
  Then({<<Lock("lock"), End("lock"), App, Lock("lock")>>},
       PrepareDestroy("lock") \cup
       Then({<<Enter("process_error"), Lock("lock2")>>},
            Then(PrepareDestroy("lock2"), {<<End("lock")>>})))
Close ==
  Section("lock") \cup
  Then({<<Lock("lock"), End("lock"), App, Lock("lock")>>},
       PrepareDestroy("lock") \cup
       Then({<<Release("lock"), Enter("process_error"), Lock("lock2")>>},
            Then(PrepareDestroy("lock2"), {<<End("lock")>>})))

FinalWrite ==
  Section("lock") \cup {<<Lock("lock"), Release("lock"), Enter("process_error"), End("lock")>>}

\* Both call the application first, process_read through the read filter.
ProcessError == Then({<<App, Lock("lock")>>}, PrepareDestroy("lock"))
ProcessRead  == Then({<<App, Lock("lock")>>}, PrepareDestroy("lock"))

\* Each of the two critical sections of process_write may find data to pop.
ProcessWrite ==
  LET popped == Then(CachePop, {<<End("lock")>>})
      empty  == {<<Lock("lock"), End("lock"), App, Lock("lock")>>}
      error  == {<<Release("lock"), Enter("process_error"), End("lock")>>}
  IN  Then({<<Lock("lock")>>}, popped)
        \cup Then(empty, popped \cup error \cup PrepareDestroy("lock"))

\* An object_allocator; those of data and of workers never meet.
AllocateObject == Section("objects")

\* io_init of both, and io_destroy, whose destructors give back the data, the
\* blocks and the worker, one after the other: to the locks each is like one.
IoInit    == {<<App, Enter("unref")>>}
IoDestroy == AllocateObject \cup {<<Enter("deallocate")>>}

\* asio_tcp_server.  accept_handler takes a worker, or gives the data back, or
\* both, and accepts again unless the server stops.
GetService == Section("hot")
NewAccept  == Then(GetService, AllocateObject)
AcceptHandler ==
  Then(AllocateObject, Then(AllocateObject \cup {<<Enter("io_init")>>, << >>}, Maybe(NewAccept)))

\* asio_tcp_client_worker, whose own mutex is "client".  unref(false) leaves a
\* reference, so it does not destroy the worker whose mutex is held.
IoTryCancel  == Section("client") \cup {<<Lock("client"), Lock("lock"), End("lock"), End("client")>>}
ClientStart  == Section("client")
UnblockWrite == Then(Section("lock"), Maybe({<<Enter("process_write")>>}))
HandleConnect ==
  {<<Enter("io_init"), Enter("unblock_write")>>, <<Enter("process_error"), Enter("unref")>>}

Ways ==
  [ref |-> Ref, unref |-> Unref, filter_out |-> FilterOut, close |-> Close,
   trigger_read |-> TriggerRead, final_write |-> FinalWrite, get_cached_size |-> GetCachedSize,
   process_read |-> ProcessRead, process_write |-> ProcessWrite, process_error |-> ProcessError,
   io_destroy |-> IoDestroy, allocate |-> Allocate, deallocate |-> Deallocate,
   io_trycancel |-> IoTryCancel, client_start |-> ClientStart, unblock_write |-> UnblockWrite,
   handle_connect |-> HandleConnect, io_init |-> IoInit,
   new_accept |-> NewAccept, accept_handler |-> AcceptHandler]

\* What the application calls, and what threads begin with: that, the
\* completion handlers, and the functions of the owner of a client.
Api   == {"ref", "unref", "filter_out", "close", "trigger_read", "final_write", "get_cached_size"}
Roots == Api \cup {"process_read", "process_write", "process_error", "io_trycancel",
                  "client_start", "handle_connect", "new_accept", "accept_handler"}

-----------------------------------------------------------------------------
(* Threads.                                                                *)

\* The spinlock that scoped_lock x of a function of worker w locks.
Mutex(w, x) ==
  IF x \in {"lock", "lock2"} THEN <<"mutex", w>>
  ELSE IF x = "client" THEN <<"client", w>> ELSE <<"shared", x>>

\* A frame: the ways that are still open, and the scoped_locks with locked_ set.
Frame(w, f) == [worker |-> w, ways |-> Ways[f], locked |-> {}]

Top(t)    == Last(stack[t])
\* What t may do next, all or with which of its kind, and the frame that has done it.
Steps(t)  == IF stack[t] = << >> THEN {} ELSE {Head(p) : p \in Top(t).ways \ {<< >>}}
Does(t, kind) == {step[2] : step \in {s \in Steps(t) : s[1] = kind}}
After(fr, step) == [fr EXCEPT !.ways = {Tail(p) : p \in {q \in @ : q # << >> /\ Head(q) = step}}]

\* The frames below and a frame on top, which is gone when it has nothing to do.
Over(below, fr) == IF fr.ways = {<< >>} THEN below ELSE Append(below, fr)

Advance(t, step, locked) ==
  stack' = [stack EXCEPT ![t] = Over(Front(@), [After(Last(@), step) EXCEPT !.locked = locked])]

\* A thread that does nothing begins with a function of some worker.
Begin(t) ==
  /\ stack[t] = << >>
  /\ \E f \in Roots, w \in Workers : stack' = [stack EXCEPT ![t] = <<Frame(w, f)>>]
  /\ UNCHANGED v_

\* The constructor of scoped_lock spins until the lock is free.
ScopedLock(t) ==
  \E x \in Does(t, "lock") :
    /\ LET m == Mutex(Top(t).worker, x) IN m \notin v_ /\ v_' = v_ \cup {m}
    /\ Advance(t, Lock(x), Top(t).locked \cup {x})

\* release() unlocks, whether the lock is held or not.
ScopedRelease(t) ==
  \E x \in Does(t, "release") :
    /\ v_' = v_ \ {Mutex(Top(t).worker, x)}
    /\ Advance(t, Release(x), Top(t).locked \ {x})

\* The destructor unlocks if locked_.  Mutant: in any case.
ScopedEndAlways(t) ==
  \E x \in Does(t, "end") :
    /\ v_' = v_ \ {Mutex(Top(t).worker, x)}
    /\ Advance(t, End(x), Top(t).locked \ {x})
ScopedEnd(t) ==
  \E x \in Does(t, "end") :
    /\ v_' = IF x \in Top(t).locked THEN v_ \ {Mutex(Top(t).worker, x)} ELSE v_
    /\ Advance(t, End(x), Top(t).locked \ {x})

\* A function calls another one of the same worker; one that may return does.
Calls(t) ==
  /\ \E f \in Does(t, "call") :
       stack' = [stack EXCEPT ![t] =
                   Append(Over(Front(@), After(Last(@), Enter(f))), Frame(Last(@).worker, f))]
  /\ UNCHANGED v_
Returns(t) ==
  /\ stack[t] # << >> /\ << >> \in Top(t).ways
  /\ stack' = [stack EXCEPT ![t] = Front(@)]
  /\ UNCHANGED v_

\* The application calls a function of any worker, or returns.
Callbacks(t) == {i \in DOMAIN stack[t] : \E p \in stack[t][i].ways : p # << >> /\ Head(p) = App}
AppCalls(t) ==
  /\ App \in Steps(t) /\ Cardinality(Callbacks(t)) <= MaxNested
  /\ \E f \in Api, w \in Workers : stack' = [stack EXCEPT ![t] = Append(@, Frame(w, f))]
  /\ UNCHANGED v_
AppReturns(t) ==
  /\ App \in Steps(t)
  /\ Advance(t, App, Top(t).locked)
  /\ UNCHANGED v_

Init == v_ = {} /\ stack = [t \in Threads |-> << >>]

Next ==
  \E t \in Threads :
    \/ Begin(t) \/ Calls(t) \/ Returns(t) \/ AppCalls(t) \/ AppReturns(t)
    \/ ScopedLock(t) \/ ScopedRelease(t) \/ ScopedEnd(t)

Spec == Init /\ [][Next]_vars

-----------------------------------------------------------------------------
(* Properties.                                                             *)

\* The spinlocks that thread t holds, by a scoped_lock of one of its frames.
HeldBy(t) == UNION {{Mutex(fr.worker, x) : x \in fr.locked} : fr \in ToSet(stack[t])}

\* A spinlock is taken exactly while one thread is in a section of it: nothing
\* unlocks for somebody else, neither an early release nor the destructor of
\* a scoped_lock that was released when another of the same mutex lives.
MutualExclusion ==
  /\ v_ = UNION {HeldBy(t) : t \in Threads}
  /\ \A t, u \in Threads : t # u => HeldBy(t) \cap HeldBy(u) = {}

\* A thread holds no spinlock when it calls the application, which may call
\* back, nor when it destroys a worker, whose mutex is in the memory freed.
OutsideUnlocked ==
  \A t \in Threads :
    Steps(t) \cap {App, Enter("io_destroy")} # {} => HeldBy(t) = {}

\* No threads wait for one another, and none for itself.
WaitsFor(t, u) ==
  \E x \in Does(t, "lock") : Mutex(Top(t).worker, x) \in HeldBy(u)
NoWaitCycle ==
  \A S \in (SUBSET Threads) \ {{}} : \E t \in S : \A u \in S : ~WaitsFor(t, u)

=============================================================================
