----------------------------- MODULE TcpServer -----------------------------
(***************************************************************************)
(* asio_tcp_server with its asio_multithread_service: the application's    *)
(* thread starts and joins the server, another one may stop it, and the    *)
(* accepter thread runs accepter_service_, whose handlers are              *)
(* accept_handler and after_accept_wait.                                   *)
(*                                                                         *)
(* A connection is the pair of an asio_tcp_data and the worker built on    *)
(* it, named by the slot of the data.  What happens inside a connection is *)
(* WorkerController; here it works, while it has operations outstanding on *)
(* its io_service, or is idle, while only a reference keeps it.  The       *)
(* server is bound once.                                                   *)
(***************************************************************************)
EXTENDS MultithreadService, FiniteSets

CONSTANTS
  Slots,        \* the memory tcp_data_allocator_ can get
  NoSlot,       \* the null pointer
  DataShort,    \* TRUE if a slot may be refused before Slots is used up
  WorkerShort,  \* TRUE if there may be no memory for a worker
  MaxClients,   \* bound: connections that peers make
  MaxStarts     \* bound: calls of start

ASSUME ServerAssumption ==
  /\ NoSlot \notin Slots /\ DataShort \in BOOLEAN /\ WorkerShort \in BOOLEAN
  /\ MaxClients \in Nat /\ MaxStarts \in Nat

VARIABLES
  status,       \* status_
  stop_signal,  \* stop_signal_
  stopping,     \* stop() has set stop_signal_ and not yet stopped the service
  stopped,      \* accepter_service_ is stopped: run() returns at once
  main,         \* what the application's thread is doing
  thread,       \* the accepter thread
  current,      \* current_tcp_data_ptr_
  pending,      \* the slots with an async_accept outstanding on the acceptor
  waited,       \* after_accept_wait is queued, with operation_aborted
  allocated,    \* the slots in use
  workers,      \* the slots a worker is built on
  working,      \* the workers with an operation outstanding, or in its handler
  closed,       \* the workers that were closed and whose operations are over
  serviceOf,    \* the io_service the socket of a slot belongs to, or Deleted
  backlog,      \* peers that wait to be accepted
  arrived,      \* number of peers so far, bounded by MaxClients
  starts,       \* number of starts so far, bounded by MaxStarts
  asked         \* stop() was called: "never", "before" the last start() or "since"

slotVars == <<current, pending, waited, allocated, serviceOf>>
connVars == <<workers, working, closed>>
vars == <<status, stop_signal, stopping, stopped, main, thread, slotVars,
          connVars, serviceVars, backlog, arrived, starts, asked>>

\* What serviceOf is once join() deleted the io_services.
Deleted == ServiceNum

\* The io_services with an operation outstanding.
Busy == {serviceOf[s] : s \in working}

-----------------------------------------------------------------------------

\* new_accept, when hot_worker_index_ is h.  Without memory it waits on a timer
\* that is a local variable: its destructor cancels the wait, so the handler is
\* queued as aborted.
NewAccept(h) ==
  /\ GetService(h)
  /\ \/ \E s \in Slots \ allocated :
          /\ allocated' = allocated \cup {s}
          /\ serviceOf' = [serviceOf EXCEPT ![s] = hot']
          /\ current' = s /\ pending' = pending \cup {s}
          /\ UNCHANGED waited
     \/ /\ allocated = Slots \/ DataShort
        /\ current' = NoSlot /\ waited' = TRUE
        /\ UNCHANGED <<pending, allocated, serviceOf>>

-----------------------------------------------------------------------------
(* The application's thread, and the one that stops the server.            *)

SetBindAddress ==
  /\ status = "not_ready"
  /\ status' = "ready"
  /\ UNCHANGED <<stop_signal, stopping, stopped, main, thread, slotVars, connVars,
                 serviceVars, backlog, arrived, starts, asked>>

\* start, up to new_accept; it makes the io_services and their threads.
Start ==
  /\ status = "ready" /\ main = "idle"
  /\ starts < MaxStarts /\ starts' = starts + 1
  /\ status' = "starting" /\ main' = "starting"
  /\ asked' = IF asked = "never" THEN "never" ELSE "before"
  /\ CreateServices /\ NewAccept(0)
  /\ UNCHANGED <<stop_signal, stopping, stopped, thread, connVars, backlog, arrived>>

\* The rest of start: it forgets an earlier stop and creates the accepter thread.
\* Mutant: it also resets the io_service, and leaves the old acceptor as it was.
StartedAfresh ==
  /\ main = "starting" /\ main' = "idle"
  /\ stop_signal' = FALSE /\ stopped' = FALSE
  /\ thread' = "run"
  /\ status' = "running"
  /\ UNCHANGED <<stopping, slotVars, connVars, serviceVars, backlog, arrived, starts, asked>>
Started ==
  /\ main = "starting" /\ main' = "idle"
  /\ stop_signal' = FALSE
  /\ thread' = "run"
  /\ status' = "running"
  /\ UNCHANGED <<stopping, stopped, slotVars, connVars, serviceVars, backlog, arrived, starts, asked>>

\* stop, at any time, one assignment after the other.
\* Mutant of the second one: the service goes on.
StopSignal ==
  /\ ~stopping
  /\ stop_signal' = TRUE /\ stopping' = TRUE /\ asked' = "since"
  /\ UNCHANGED <<status, stopped, main, thread, slotVars, connVars, serviceVars, backlog,
                 arrived, starts>>

StopSignalOnly ==
  /\ stopping /\ stopping' = FALSE
  /\ UNCHANGED <<status, stop_signal, stopped, main, thread, slotVars, connVars, serviceVars,
                 backlog, arrived, starts, asked>>
StopService ==
  /\ stopping /\ stopping' = FALSE
  /\ stopped' = TRUE
  /\ UNCHANGED <<status, stop_signal, main, thread, slotVars, connVars, serviceVars,
                 backlog, arrived, starts, asked>>

\* join waits for the accepter thread ...
Join ==
  /\ main = "idle" /\ status = "running"
  /\ main' = "joining"
  /\ UNCHANGED <<status, stop_signal, stopping, stopped, thread, slotVars, connVars,
                 serviceVars, backlog, arrived, starts, asked>>

JoinAccepter ==
  /\ main = "joining" /\ thread = "ended"
  /\ main' = "deleting" /\ thread' = "none"
  /\ UNCHANGED <<status, stop_signal, stopping, stopped, slotVars, connVars, serviceVars,
                 backlog, arrived, starts, asked>>

\* ... then ~asio_multithread_service stops the io_services in turn.
StopServices ==
  /\ main = "deleting"
  /\ DeleteHolder \/ JoinService
  /\ UNCHANGED <<status, stop_signal, stopping, stopped, main, thread, slotVars,
                 connVars, backlog, arrived, starts, asked>>

ThreadReturns(i) ==
  /\ ServiceReturns(i, Busy)
  /\ UNCHANGED <<status, stop_signal, stopping, stopped, main, thread, slotVars,
                 connVars, backlog, arrived, starts, asked>>

\* ... and deletes them, under whatever sockets there still are.
Joined ==
  /\ main = "deleting" /\ joined = ServiceNum
  /\ main' = "idle" /\ status' = "ready"
  /\ serviceOf' = [s \in Slots |-> Deleted]
  /\ UNCHANGED <<stop_signal, stopping, stopped, thread, current, pending, waited, allocated,
                 connVars, serviceVars, backlog, arrived, starts, asked>>

-----------------------------------------------------------------------------
(* The accepter thread.                                                    *)

\* accept_handler without an error, up to the test of stop_signal_: the worker
\* is built on current_tcp_data_ptr_, which is given back if there is no memory,
\* and io_init lets its handler begin to read or write.
AcceptSucceeds ==
  /\ thread = "run" /\ ~stopped
  /\ backlog > 0 /\ backlog' = backlog - 1
  /\ \E s \in pending : pending' = pending \ {s}
  /\ \/ /\ workers' = workers \cup {current}
        /\ working' \in {working, working \cup {current}}
        /\ UNCHANGED allocated
     \/ /\ WorkerShort /\ allocated' = allocated \ {current}
        /\ UNCHANGED <<workers, working>>
  /\ thread' = "handler"
  /\ UNCHANGED <<status, stop_signal, stopping, stopped, main, current, waited,
                 closed, serviceOf, serviceVars, arrived, starts, asked>>

\* accept_handler with an error.  Mutant: without destroy_self.
AcceptFailsLeaky ==
  /\ thread = "run" /\ ~stopped
  /\ \E s \in pending : pending' = pending \ {s}
  /\ thread' = "handler"
  /\ UNCHANGED <<status, stop_signal, stopping, stopped, main, current, waited, allocated,
                 serviceOf, connVars, serviceVars, backlog, arrived, starts, asked>>
AcceptFails ==
  /\ thread = "run" /\ ~stopped
  /\ \E s \in pending : pending' = pending \ {s}
  /\ allocated' = allocated \ {current}
  /\ thread' = "handler"
  /\ UNCHANGED <<status, stop_signal, stopping, stopped, main, current, waited,
                 serviceOf, connVars, serviceVars, backlog, arrived, starts, asked>>

\* The last statement of accept_handler.  Mutant: not reached after an error.
AcceptAgainUnlessFailed ==
  /\ thread = "handler" /\ thread' = "run"
  /\ IF stop_signal \/ current \notin allocated THEN UNCHANGED <<slotVars, hot>> ELSE NewAccept(hot)
  /\ UNCHANGED <<status, stop_signal, stopping, stopped, main, connVars, holders,
                 serving, joined, backlog, arrived, starts, asked>>
AcceptAgain ==
  /\ thread = "handler" /\ thread' = "run"
  /\ IF stop_signal THEN UNCHANGED <<slotVars, hot>> ELSE NewAccept(hot)
  /\ UNCHANGED <<status, stop_signal, stopping, stopped, main, connVars, holders,
                 serving, joined, backlog, arrived, starts, asked>>

\* after_accept_wait, which ignores a wait that was aborted.
AfterAcceptWait ==
  /\ thread = "run" /\ ~stopped
  /\ waited /\ waited' = FALSE
  /\ UNCHANGED <<status, stop_signal, stopping, stopped, main, thread, current,
                 pending, allocated, serviceOf, connVars, serviceVars, backlog,
                 arrived, starts, asked>>

\* run returns once the service is stopped, or has no work and so stops itself.
RunReturns ==
  /\ thread = "run" /\ thread' = "ended"
  /\ stopped \/ (pending = {} /\ ~waited)
  /\ stopped' = TRUE
  /\ UNCHANGED <<status, stop_signal, stopping, main, slotVars, connVars, serviceVars,
                 backlog, arrived, starts, asked>>

-----------------------------------------------------------------------------
(* Peers and connections.                                                  *)

PeerConnects ==
  /\ status # "not_ready"
  /\ arrived < MaxClients /\ arrived' = arrived + 1
  /\ backlog' = backlog + 1
  /\ UNCHANGED <<status, stop_signal, stopping, stopped, main, thread, slotVars,
                 connVars, serviceVars, starts, asked>>

\* The last operation of a worker is over, and the application starts no other.
Rest(s) ==
  /\ s \in working /\ working' = working \ {s}
  /\ UNCHANGED <<status, stop_signal, stopping, stopped, main, thread, slotVars,
                 workers, closed, serviceVars, backlog, arrived, starts, asked>>

\* The application, by the reference it kept, starts one on an idle worker.  When
\* the thread of the io_service has returned, one that is started never completes,
\* and when the io_service is deleted it is undefined: such a start is left out.
Resume(s) ==
  /\ s \in workers \ (working \cup closed) /\ serviceOf[s] \in serving
  /\ working' = working \cup {s}
  /\ UNCHANGED <<status, stop_signal, stopping, stopped, main, thread, slotVars,
                 workers, closed, serviceVars, backlog, arrived, starts, asked>>

\* The connection is closed, and what it had outstanding completes.
Close(s) ==
  /\ s \in workers \ closed
  /\ closed' = closed \cup {s} /\ working' = working \ {s}
  /\ UNCHANGED <<status, stop_signal, stopping, stopped, main, thread, slotVars,
                 workers, serviceVars, backlog, arrived, starts, asked>>

\* Its last reference goes: io_destroy, destroy_worker and destroy_self, by which
\* worker and data are given back.
DestroyWorker(s) ==
  /\ s \in closed
  /\ workers' = workers \ {s} /\ closed' = closed \ {s} /\ allocated' = allocated \ {s}
  /\ UNCHANGED <<status, stop_signal, stopping, stopped, main, thread, current, pending,
                 waited, working, serviceOf, serviceVars, backlog, arrived, starts, asked>>

-----------------------------------------------------------------------------

Init ==
  /\ status = "not_ready" /\ stop_signal = FALSE /\ stopping = FALSE
  /\ stopped = FALSE /\ main = "idle" /\ thread = "none"
  /\ current = NoSlot /\ pending = {} /\ waited = FALSE /\ allocated = {}
  /\ workers = {} /\ working = {} /\ closed = {}
  /\ serviceOf = [s \in Slots |-> Deleted]
  /\ NoServices
  /\ backlog = 0 /\ arrived = 0 /\ starts = 0 /\ asked = "never"

Accepter == AcceptSucceeds \/ AcceptFails \/ AcceptAgain \/ AfterAcceptWait \/ RunReturns

Next ==
  \/ SetBindAddress
  \/ Start \/ Started
  \/ StopSignal \/ StopService
  \/ Join \/ JoinAccepter \/ StopServices \/ Joined
  \/ \E i \in Services : ThreadReturns(i)
  \/ AcceptSucceeds \/ AcceptFails \/ AcceptAgain
  \/ AfterAcceptWait \/ RunReturns
  \/ PeerConnects
  \/ \E s \in Slots : Rest(s) \/ Resume(s) \/ Close(s) \/ DestroyWorker(s)

Spec == Init /\ [][Next]_vars

\* Threads run.  Accepting does not fail for ever while a peer waits, and
\* connections are closed, as peers leave or operations fail; nothing is assumed
\* of the references to them.
Fairness ==
  /\ WF_vars(Started) /\ WF_vars(StopService)
  /\ WF_vars(JoinAccepter) /\ WF_vars(StopServices) /\ WF_vars(Joined)
  /\ \A i \in Services : WF_vars(ThreadReturns(i))
  /\ WF_vars(Accepter) /\ SF_vars(AcceptSucceeds)
  /\ \A s \in Slots : WF_vars(Close(s))

FairSpec == Spec /\ Fairness

\* ... and with applications that give up their references to what is closed.
ReleasingSpec == FairSpec /\ \A s \in Slots : WF_vars(DestroyWorker(s))

-----------------------------------------------------------------------------
(* Properties.                                                             *)

TypeOK ==
  /\ status \in {"not_ready", "ready", "starting", "running"}
  /\ stop_signal \in BOOLEAN /\ stopping \in BOOLEAN /\ stopped \in BOOLEAN
  /\ main \in {"idle", "starting", "joining", "deleting"}
  /\ thread \in {"none", "run", "handler", "ended"}
  /\ current \in Slots \cup {NoSlot} /\ waited \in BOOLEAN
  /\ pending \subseteq Slots /\ allocated \subseteq Slots /\ workers \subseteq Slots
  /\ working \cup closed \subseteq workers /\ working \cap closed = {}
  /\ serviceOf \in [Slots -> Services \cup {Deleted}] /\ ServiceTypeOK
  /\ backlog \in 0..MaxClients /\ arrived \in 0..MaxClients /\ starts \in 0..MaxStarts
  /\ asked \in {"never", "before", "since"}

\* Every slot in use is exactly one of: waited for by the acceptor, or under a
\* worker.  No error path of accept_handler leaks a slot or gives it back twice.
SlotsAccounted ==
  /\ allocated = pending \cup workers
  /\ pending \cap workers = {}

\* accept_handler builds the worker on current_tcp_data_ptr_, not on the slot
\* whose accept completed: whenever a handler may run, these are the same.
AcceptedIsCurrent == thread = "run" /\ ~stopped => pending \subseteq {current}

\* Until join() deletes the io_services, every socket that is waited for or has a
\* worker, which may be idle for long, has one whose thread is inside run().
\* While it does so, the thread may return, but not from under an operation; and
\* no io_service is deleted before the operations on it are over.  An idle worker
\* is promised nothing.
ServicesOutlive ==
  /\ \A s \in working : serviceOf[s] \in serving
  /\ main # "deleting" => \A s \in pending \cup workers : serviceOf[s] \in serving \cup {Deleted}

\* A running server takes every peer that connects, until it is stopped.
RunningAccepts ==
  status = "running" /\ asked = "never" /\ backlog > 0 ~> backlog = 0 \/ asked # "never"

\* "now, service at port %d is running", the log of start says, also when the
\* server was stopped before: then too it takes the peers that connect.
RestartAccepts ==
  status = "running" /\ asked = "before" /\ backlog > 0 ~> backlog = 0 \/ asked = "since"

\* "wait and see whether the data can be allocated after a while".
AllocationRetried ==
  status = "running" /\ asked = "never" /\ current = NoSlot
    ~> current # NoSlot \/ asked # "never"

\* A join() of a server that was stopped returns once its connections ended,
\* also when stop() came while start() was still at work and clears the signal.
JoinReturns == main = "joining" /\ asked # "never" ~> status = "ready"

=============================================================================
