------------------------- MODULE TcpClientWorker --------------------------
(***************************************************************************)
(* asio_tcp_client and asio_tcp_client_worker: the same controller, made   *)
(* before there is a connection.  The thread Acc is here the owner of the  *)
(* asio_tcp_client object, which has a reference of its own; handle_connect*)
(* runs on Io.  Writes made before the connection exists are cached (the   *)
(* BW bit), and unblock_write starts them.                                 *)
(*                                                                         *)
(* A step inside a destroyed worker is undefined, so behaviours end at     *)
(* io_destroy: NoUseAfterDestroy says whether anybody was still inside.    *)
(***************************************************************************)
EXTENDS WorkerController

VARIABLES
  healthy,      \* status_ of the client worker: "init", "conning", "ok", "connerr" or "canceled"
  conn,         \* the connect operation: "none", "pending" or "done"
  owned         \* the asio_tcp_client object exists

clientVars == <<healthy, conn, owned>>

\* The owner calls through get_controller, which needs no callback.
OwnerIdle == owned /\ stack[Acc] = << >>

\* start, io_init up to the end of its critical section: a second start, and
\* one after a cancellation, return at once.
ClientStart ==
  /\ OwnerIdle
  /\ healthy = "init"
  /\ healthy' = "conning"
  /\ Call(Acc, "async_connect")
  /\ UNCHANGED <<status, refcnt, data, ioVars, held, destroyed, calls, conn, owned>>

\* async_connect, which opens the socket if it is not open.
AsyncConnect(t) ==
  /\ Running(t, "async_connect")
  /\ sock' = TRUE /\ conn' = "pending"
  /\ Return(t)
  /\ UNCHANGED <<status, refcnt, data, rop, wop, held, destroyed, calls, healthy, owned>>

\* ~asio_tcp_client: io_trycancel, which drops the reference of the
\* constructor if there will be no handle_connect to drop it...
ClientDestructor ==
  /\ OwnerIdle
  /\ owned' = FALSE
  /\ IF healthy = "init"
     THEN /\ healthy' = "canceled"
          /\ refcnt' = IF refcnt <= 1 THEN refcnt ELSE refcnt - 1
     ELSE UNCHANGED <<healthy, refcnt>>
  /\ UNCHANGED <<status, data, ioVars, destroyed, calls, conn, held>>
  /\ Call(Acc, "unref_client")

\* ... then unref, which drops the reference of the client object.
ClientUnref(t) ==
  /\ Running(t, "unref_client")
  /\ refcnt' = refcnt - 1 /\ held' = held \ {Acc}
  /\ UNCHANGED <<status, data, ioVars, destroyed, calls, clientVars>>
  /\ PrepareDestroy(t)

\* handle_connect without an error: io_init, then unblock_write.
ConnectSucceeds ==
  /\ stack[Io] = << >>
  /\ conn = "pending" /\ conn' = "done"
  /\ healthy' = "ok"
  /\ stack' = [stack EXCEPT ![Io] = <<"unblock_write", "handle_open">>]
  /\ UNCHANGED <<status, refcnt, data, ioVars, held, destroyed, calls, owned>>

\* handle_connect with an error: process_error, then unref.
\* Mutants: without that unref; unref first.
ConnectFailsKept ==
  /\ stack[Io] = << >>
  /\ conn = "pending" /\ conn' = "none"
  /\ healthy' = "connerr"
  /\ stack' = [stack EXCEPT ![Io] = <<"handle_error_c">>]
  /\ UNCHANGED <<status, refcnt, data, ioVars, held, destroyed, calls, owned>>
ConnectFailsEarly ==
  /\ stack[Io] = << >>
  /\ conn = "pending" /\ conn' = "none"
  /\ healthy' = "connerr"
  /\ stack' = [stack EXCEPT ![Io] = <<"handle_error_c", "unref_connect">>]
  /\ UNCHANGED <<status, refcnt, data, ioVars, held, destroyed, calls, owned>>
ConnectFails ==
  /\ stack[Io] = << >>
  /\ conn = "pending" /\ conn' = "none"
  /\ healthy' = "connerr"
  /\ stack' = [stack EXCEPT ![Io] = <<"unref_connect", "handle_error_c">>]
  /\ UNCHANGED <<status, refcnt, data, ioVars, held, destroyed, calls, owned>>

\* process_error for the connect side: no bit of status_ changes.
ConnectError(t) ==
  /\ Running(t, "error_c")
  /\ UNCHANGED <<status, refcnt, data, ioVars, held, destroyed, calls, clientVars>>
  /\ PrepareDestroy(t)

\* The unref of handle_connect.  Mutant: without __prepare_destroy.
ConnectUnrefOnly(t) ==
  /\ Running(t, "unref_connect")
  /\ refcnt' = refcnt - 1
  /\ Return(t)
  /\ UNCHANGED <<status, data, ioVars, held, destroyed, calls, clientVars>>
ConnectUnref(t) ==
  /\ Running(t, "unref_connect")
  /\ refcnt' = refcnt - 1
  /\ UNCHANGED <<status, data, ioVars, held, destroyed, calls, clientVars>>
  /\ PrepareDestroy(t)

\* unblock_write up to its call of process_write.
\* Mutants: it calls process_write whatever runs; it does not call it.
UnblockAlways(t) ==
  /\ Running(t, "unblock_write")
  /\ blockwrite' = FALSE
  /\ wr' = 1 /\ Goto(t, "process_write")
  /\ UNCHANGED <<rd, willread, cl, finalwrite, refcnt, data, ioVars, held,
                 destroyed, calls, clientVars>>
UnblockOnly(t) ==
  /\ Running(t, "unblock_write")
  /\ blockwrite' = FALSE
  /\ Return(t)
  /\ UNCHANGED <<rd, willread, wr, cl, finalwrite, refcnt, data, ioVars, held,
                 destroyed, calls, clientVars>>
UnblockWrite(t) ==
  /\ Running(t, "unblock_write")
  /\ blockwrite' = FALSE
  /\ IF wr = 0 THEN wr' = 1 /\ Goto(t, "process_write") ELSE UNCHANGED wr /\ Return(t)
  /\ UNCHANGED <<rd, willread, cl, finalwrite, refcnt, data, ioVars, held,
                 destroyed, calls, clientVars>>

-----------------------------------------------------------------------------

ClientInit ==
  /\ rd = 0 /\ wr = 0 /\ cl = 0
  /\ willread = FALSE /\ finalwrite = FALSE /\ blockwrite = TRUE
  /\ refcnt = 2
  /\ cache = << >> /\ buffer = << >> /\ accepted = 0 /\ sent = << >>
  /\ sock = FALSE /\ rop = "none" /\ wop = "none"
  /\ stack = [t \in Threads |-> << >>]
  /\ held = {Acc} /\ destroyed = FALSE /\ calls = 0
  /\ healthy = "init" /\ conn = "none" /\ owned = TRUE

\* The steps the client shares with the server; nothing is received before
\* the connection exists.
SharedStep(t) == Step(t) /\ UNCHANGED clientVars
SharedApi(t)  == Api(t) /\ UNCHANGED clientVars
SharedCompletion ==
  /\ \/ conn = "done" /\ ReadSucceeds
     \/ ReadFails
     \/ WriteSucceeds
     \/ WriteFails
  /\ UNCHANGED clientVars

ClientStep(t) == \/ AsyncConnect(t)
                 \/ ClientUnref(t)
                 \/ ConnectError(t)
                 \/ ConnectUnref(t)
                 \/ UnblockWrite(t)

ClientNext ==
  /\ ~destroyed
  /\ \/ \E t \in Threads : SharedStep(t) \/ SharedApi(t) \/ ClientStep(t)
     \/ ClientStart
     \/ ClientDestructor
     \/ ConnectSucceeds
     \/ ConnectFails
     \/ SharedCompletion

ClientSpec == ClientInit /\ [][ClientNext]_<<vars, clientVars>>

-----------------------------------------------------------------------------
(* Properties, beside those of the controller.                             *)

\* block_write steers every write into the cache: io_write never runs before
\* the connection exists.
WritesWaitForConnect == wop # "none" \/ buffer # << >> => conn = "done"

\* References are exact: one for each holder, and that of the constructor until
\* handle_connect or the cancellation drops it, each of them once.
ReferencesExact ==
  LET dropping == \E t \in Threads : \E i \in DOMAIN stack[t] :
                    stack[t][i] \in {"handle_open", "unref", "unref_connect"}
  IN refcnt = Cardinality(held)
              + (IF healthy \in {"init", "conning"} \/ dropping THEN 1 ELSE 0)

\* t is not inside the worker, but perhaps to destroy it.
Outside(t) == stack[t] \in {<< >>, <<"io_destroy">>}

\* handle_connect is behind its io_init and has yet to call unblock_write.
BeforeUnblock(t) ==
  t = Io /\ stack[t] \in {<<"unblock_write">>, <<"unblock_write", "io_destroy">>}

\* When __prepare_destroy finds the worker reclaimable, nobody is inside, holds
\* a reference or has an operation, a connect included, but for a handle_connect
\* that is going to call unblock_write without one.
ReclaimedAlone ==
  Reclaimable => /\ \A t \in Threads : Outside(t) \/ BeforeUnblock(t)
                 /\ rop = "none" /\ wop = "none" /\ conn # "pending" /\ held = {}

\* And nobody enters a worker that is reclaimable, but for this unblock_write.
OnlyUnblockRevives ==
  [][Reclaimable => Reclaimable' \/ UnblockWrite(Io)]_<<vars, clientVars>>

-----------------------------------------------------------------------------
(* Fairness, as for the server, and liveness.  An attempt to connect comes *)
(* to an end, an operation on a socket that is not open fails, and owners  *)
(* delete their clients.                                                   *)

Fairly(A)   == ~destroyed /\ A /\ UNCHANGED clientVars
ClientFairness ==
  LET all == <<vars, clientVars>>
  IN  /\ \A t \in Threads : /\ WF_all(Fairly(Step(t))) /\ WF_all(Fairly(HandlerCloses(t)))
                            /\ WF_all(~destroyed /\ ClientStep(t))
      /\ \A u \in Users : WF_all(Fairly(Unref(u, u)))
      /\ WF_all(~destroyed /\ ClientDestructor)
      /\ WF_all(~destroyed /\ (ConnectSucceeds \/ ConnectFails))
      /\ SF_all(Fairly((~sock \/ rop = "dead") /\ (ReadSucceeds \/ ReadFails)))
      /\ SF_all(Fairly(WriteSucceeds \/ WriteFails))

FairClientSpec == ClientSpec /\ ClientFairness

\* What was written while the client connected is sent in the end, unless the
\* attempt fails or the connection breaks or is closed.
EarlyWritesAreSent ==
  healthy = "conning" /\ Len(sent) < accepted
    ~> Len(sent) = accepted \/ healthy = "connerr" \/ wr = 2 \/ cl # 0 \/ destroyed

\* A client that was closed is destroyed once its owner deleted it, whether it
\* was started, cancelled, connected or refused.
ClosedClientIsDestroyed == cl # 0 ~> destroyed

=============================================================================
