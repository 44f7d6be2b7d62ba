------------------------- MODULE WorkerController -------------------------
(***************************************************************************)
(* worker_controller_impl: the life of one TCP connection of yux, as the   *)
(* server drives it (asio_tcp_worker).  The thread Acc accepted the socket *)
(* and runs io_init; the thread Io runs the io_service of the connection,  *)
(* hence every completion handler; the Users are application threads that  *)
(* were handed a reference.                                                *)
(*                                                                         *)
(* A thread is a call stack.  Code between two acquisitions of the         *)
(* spinlock is one step, and so is each critical section.  The handler and *)
(* the filters are the application's: inside one of their callbacks a      *)
(* thread may call the controller again, which is why stacks are needed.   *)
(* The bits of status_ are kept apart, named as the comment at its         *)
(* declaration does: R, WR, W, C, FW, BW.                                  *)
(***************************************************************************)
EXTENDS Integers, Sequences, FiniteSets, SequencesExt

CONSTANTS
  Acc,          \* the thread that runs io_init
  Io,           \* the thread that runs the io_service of the socket
  Users,        \* application threads that may be given a reference
  WriteSizes,   \* sizes of the writes the application makes
  WriteLimit,   \* size of the buffer get_write_buffer returns
  MaxCalls,     \* bound: calls the application makes in a behaviour
  ErrorCloses   \* TRUE for an application whose handle_error calls close()

ASSUME ThreadsAssumption ==
  /\ Acc # Io /\ Acc \notin Users /\ Io \notin Users
  /\ IsFiniteSet(Users)
ASSUME BoundsAssumption ==
  /\ WriteSizes \subseteq Nat /\ WriteLimit \in Nat \ {0} /\ MaxCalls \in Nat
  /\ ErrorCloses \in BOOLEAN

VARIABLES
  rd,           \* R bits: 0 idle, 1 a read chain runs, 2 failed for good
  willread,     \* WR bit: the application wants to read
  wr,           \* W bits: 0 idle, 1 a write chain runs, 2 failed for good
  cl,           \* C bits: 0 open, 1 close() has begun, 3 closed
  finalwrite,   \* FW bit: stop writing once all is written
  blockwrite,   \* BW bit: every write goes to the cache
  refcnt,       \* refcnt_
  cache,        \* write_cache_, the units of data it holds
  buffer,       \* the units handed to the outstanding io_write
  accepted,     \* number of units io_filterout took, which are 1..accepted
  sent,         \* the units the socket carried
  sock,         \* TRUE until io_close
  rop,          \* the outstanding asynchronous read
  wop,          \* the outstanding asynchronous write
  stack,        \* the frames of each thread, the running one last
  held,         \* the users that hold a reference
  destroyed,    \* io_destroy has run
  calls         \* calls made, bounded by MaxCalls

status == <<rd, willread, wr, cl, finalwrite, blockwrite>>
data   == <<cache, buffer, accepted, sent>>
ioVars == <<sock, rop, wop>>
vars   == <<status, refcnt, data, ioVars, stack, held, destroyed, calls>>

Threads == {Acc, Io} \cup Users

\* An operation started after the socket was closed is "dead": it can only
\* fail.  A second operation started beside an outstanding one is "overlap".
Ops == {"none", "live", "dead", "overlap"}

\* Frames in which the application runs, with what the code does on return.
Continuation ==
  [handle_open    |-> "unref",            handle_read    |-> "process_read",
   handle_close   |-> "closed",           filter_notify  |-> "notified",
   handle_error_r |-> "error_r",          handle_error_w |-> "error_w",
   handle_final_w |-> "error_w",          handle_error_c |-> "error_c"]
AppFrames  == DOMAIN Continuation
CodeFrames == {"unref", "io_close", "closed", "closed2", "process_read",
               "process_write", "notified", "error_r", "error_w", "error_c",
               "unref_connect", "unblock_write", "async_connect", "unref_client",
               "io_destroy"}
Frames     == AppFrames \cup CodeFrames

-----------------------------------------------------------------------------
(* Call stacks.                                                            *)

Running(t, f) == stack[t] # << >> /\ Last(stack[t]) = f

\* The running frame of t becomes f / calls f / returns to its caller.
Goto(t, f) == stack' = [stack EXCEPT ![t] = Append(Front(stack[t]), f)]
Call(t, f) == stack' = [stack EXCEPT ![t] = Append(stack[t], f)]
Return(t)  == stack' = [stack EXCEPT ![t] = Front(stack[t])]

\* t may call the controller: a callback runs, or t is a user with a reference.
InApp(t) ==
  \/ stack[t] # << >> /\ Last(stack[t]) \in AppFrames
  \/ stack[t] = << >> /\ t \in held

\* status_ ^= read_bit (or write_bit): both bits of a two-bit field flip.
\* Mutant: |= in its place.
FlipOr(bits) == 3
Flip(bits) == 3 - bits

\* The condition __prepare_destroy tests, on the values its caller leaves.
\* Mutants: without the test of R and W, and without the one of C.
ReclaimableBusy == refcnt = 0 /\ cl = 3
ReclaimableOpen == refcnt = 0 /\ rd % 2 = 0 /\ wr % 2 = 0
Reclaimable == refcnt = 0 /\ rd % 2 = 0 /\ wr % 2 = 0 /\ cl = 3

\* __prepare_destroy as the last act of the running frame of t.
PrepareDestroy(t) == IF Reclaimable' THEN Goto(t, "io_destroy") ELSE Return(t)

-----------------------------------------------------------------------------
(* The asynchronous operations of asio.                                    *)

Started(op) == IF op # "none" THEN "overlap" ELSE IF sock THEN "live" ELSE "dead"
IoRead  == rop' = Started(rop)
IoWrite == wop' = Started(wop)

\* write_cache_.pop(write_buffer, write_limit), then io_write.
PopSize == IF Len(cache) > WriteLimit THEN WriteLimit ELSE Len(cache)
PopAndWrite ==
  /\ buffer' = SubSeq(cache, 1, PopSize)
  /\ cache'  = SubSeq(cache, PopSize + 1, Len(cache))
  /\ IoWrite

-----------------------------------------------------------------------------
(* What the application calls, from a callback or from a user thread.      *)

Count == calls < MaxCalls /\ calls' = calls + 1

\* The units of a write of n, and how many of them fit into the buffer.
Units(n) == [i \in 1..n |-> accepted + i]
Fit(n)   == IF n > WriteLimit THEN WriteLimit ELSE n

\* io_filterout, when no write is under way: what exceeds the buffer is cached.
\* Mutant: it is dropped.
WriteFitting(n) == wr' = 1 /\ cache' = cache /\ buffer' = SubSeq(Units(n), 1, Fit(n)) /\ IoWrite
WriteNow(n) ==
  /\ wr' = 1
  /\ cache'  = cache \o SubSeq(Units(n), Fit(n) + 1, n)
  /\ buffer' = SubSeq(Units(n), 1, Fit(n))
  /\ IoWrite
WriteLater(n) == cache' = cache \o Units(n) /\ UNCHANGED <<wr, buffer, wop>>

\* io_filterout.  Mutant: it does not test the BW bit.
FilterOutUnblocked(n) == accepted' = accepted + n /\ IF wr = 0 THEN WriteNow(n) ELSE WriteLater(n)
IoFilterOut(n) ==
  /\ accepted' = accepted + n
  /\ IF wr = 0 /\ ~blockwrite THEN WriteNow(n) ELSE WriteLater(n)

\* write, filter_write, io_filterout.  A write to a connection that is being
\* closed is dropped and changes nothing.
Write(t, n) ==
  /\ InApp(t) /\ Count
  /\ cl = 0
  /\ IoFilterOut(n)
  /\ UNCHANGED <<rd, willread, cl, finalwrite, blockwrite, refcnt, sent,
                 sock, rop, stack, held, destroyed>>

\* trigger_read(true); on a connection that is being closed it does nothing.
\* Mutant: it reads again on a side that failed.
TriggerReadAfterError(t) ==
  /\ InApp(t) /\ Count
  /\ cl = 0
  /\ willread' = TRUE
  /\ IF rd # 1 THEN rd' = 1 /\ IoRead ELSE UNCHANGED <<rd, rop>>
  /\ UNCHANGED <<wr, cl, finalwrite, blockwrite, refcnt, data, sock, wop,
                 stack, held, destroyed>>
TriggerRead(t) ==
  /\ InApp(t) /\ Count
  /\ cl = 0
  /\ willread' = TRUE
  /\ IF rd = 0 THEN rd' = 1 /\ IoRead ELSE UNCHANGED <<rd, rop>>
  /\ UNCHANGED <<wr, cl, finalwrite, blockwrite, refcnt, data, sock, wop,
                 stack, held, destroyed>>

\* trigger_read(false).
StopRead(t) ==
  /\ InApp(t) /\ Count
  /\ willread' = FALSE
  /\ UNCHANGED <<rd, wr, cl, finalwrite, blockwrite, refcnt, data, ioVars,
                 stack, held, destroyed>>

\* final_write: with no write under way, the handler is told at once.
\* Mutants: told at once in any case; left to a write that is not under way.
FinalWriteAtOnce(t) ==
  /\ InApp(t) /\ Count
  /\ finalwrite' = TRUE
  /\ wr' = IF wr = 0 THEN 1 ELSE wr
  /\ IF ~finalwrite THEN Call(t, "handle_final_w") ELSE UNCHANGED stack
  /\ UNCHANGED <<rd, willread, cl, blockwrite, refcnt, data, ioVars, held, destroyed>>
FinalWriteLater(t) ==
  /\ InApp(t) /\ Count
  /\ finalwrite' = TRUE
  /\ UNCHANGED <<rd, willread, wr, cl, blockwrite, refcnt, data, ioVars, stack,
                 held, destroyed>>
FinalWrite(t) ==
  /\ InApp(t) /\ Count
  /\ finalwrite' = TRUE
  /\ wr' = IF wr = 0 THEN 1 ELSE wr
  /\ IF wr = 0 /\ ~finalwrite THEN Call(t, "handle_final_w") ELSE UNCHANGED stack
  /\ UNCHANGED <<rd, willread, cl, blockwrite, refcnt, data, ioVars, held, destroyed>>

\* close, up to the end of its first critical section; a second close returns.
Close(t) ==
  /\ InApp(t)
  /\ cl = 0
  /\ cl' = 1
  /\ Call(t, "io_close")
  /\ UNCHANGED <<rd, willread, wr, finalwrite, blockwrite, refcnt, data, ioVars,
                 held, destroyed, calls>>

\* ref, on behalf of a user thread that gets the reference.
Ref(t, u) ==
  /\ InApp(t) /\ Count
  /\ u \notin held /\ stack[u] = << >>
  /\ refcnt' = refcnt + 1
  /\ held' = held \cup {u}
  /\ UNCHANGED <<status, data, ioVars, stack, destroyed>>

\* unref of the reference of user u, which is not inside a call of its own.
\* unref(false) does the same if that leaves a reference, and else nothing.
\* Mutant: without __prepare_destroy.
UnrefOnly(t, u) ==
  /\ InApp(t)
  /\ u \in held /\ stack[u] = << >>
  /\ refcnt' = refcnt - 1
  /\ held' = held \ {u}
  /\ UNCHANGED <<status, data, ioVars, stack, destroyed, calls>>
Unref(t, u) ==
  /\ InApp(t)
  /\ u \in held /\ stack[u] = << >>
  /\ refcnt' = refcnt - 1
  /\ held' = held \ {u}
  /\ UNCHANGED <<status, data, ioVars, destroyed, calls>>
  /\ IF Reclaimable' THEN Call(t, "io_destroy") ELSE UNCHANGED stack

Api(t) ==
  \/ \E n \in WriteSizes : Write(t, n)
  \/ TriggerRead(t)
  \/ StopRead(t)
  \/ FinalWrite(t)
  \/ Close(t)
  \/ \E u \in Users : Ref(t, u)
  \/ \E u \in Users : Unref(t, u)

-----------------------------------------------------------------------------
(* The steps of a thread inside the controller.                            *)

ErrorFrames == {"handle_error_r", "handle_error_w", "handle_final_w", "handle_error_c"}

\* A callback returns to the controller.  The handle_error of worker_handler
\* calls close() first, which has an effect unless it was called before.
HandlerReturns(t) ==
  /\ stack[t] # << >> /\ Last(stack[t]) \in AppFrames
  /\ ErrorCloses /\ Last(stack[t]) \in ErrorFrames => cl # 0
  /\ Goto(t, Continuation[Last(stack[t])])
  /\ UNCHANGED <<status, refcnt, data, ioVars, held, destroyed, calls>>

\* io_init drops the reference the constructor made, after handle_open.
\* Mutant: without __prepare_destroy.
InitUnrefOnly(t) ==
  /\ Running(t, "unref")
  /\ refcnt' = refcnt - 1
  /\ Return(t)
  /\ UNCHANGED <<status, data, ioVars, held, destroyed, calls>>
InitUnref(t) ==
  /\ Running(t, "unref")
  /\ refcnt' = refcnt - 1
  /\ UNCHANGED <<status, data, ioVars, held, destroyed, calls>>
  /\ PrepareDestroy(t)

\* io_close, outside the lock; the handler is told next.
IoClose(t) ==
  /\ Running(t, "io_close")
  /\ sock' = FALSE
  /\ Goto(t, "handle_close")
  /\ UNCHANGED <<status, refcnt, data, rop, wop, held, destroyed, calls>>

\* The second critical section of close.  With no read under way the read
\* side is failed here, and the handler told, or nothing would do it.
\* Mutant: it tests willread_bit alone.
ClosedReading(t) ==
  /\ Running(t, "closed")
  /\ cl' = 3
  /\ UNCHANGED <<willread, wr, finalwrite, blockwrite, refcnt, data, ioVars,
                 held, destroyed, calls>>
  /\ IF ~willread
     THEN /\ rd' = 1
          /\ stack' = [stack EXCEPT ![t] =
                         Append(Append(Front(stack[t]), "closed2"), "handle_error_r")]
     ELSE rd' = rd /\ PrepareDestroy(t)
Closed(t) ==
  /\ Running(t, "closed")
  /\ cl' = 3
  /\ UNCHANGED <<willread, wr, finalwrite, blockwrite, refcnt, data, ioVars,
                 held, destroyed, calls>>
  /\ IF rd = 0 /\ ~willread
     THEN /\ rd' = 1
          /\ stack' = [stack EXCEPT ![t] =
                         Append(Append(Front(stack[t]), "closed2"), "handle_error_r")]
     ELSE rd' = rd /\ PrepareDestroy(t)

\* close after that process_error: it takes the lock once more.
ClosedAgain(t) ==
  /\ Running(t, "closed2")
  /\ UNCHANGED <<status, refcnt, data, ioVars, held, destroyed, calls>>
  /\ PrepareDestroy(t)

\* process_read after the filter and the handler took the data.
ProcessRead(t) ==
  /\ Running(t, "process_read")
  /\ UNCHANGED <<willread, wr, cl, finalwrite, blockwrite, refcnt, data, sock, wop,
                 held, destroyed, calls>>
  /\ IF willread
     THEN UNCHANGED rd /\ IoRead /\ Return(t)
     ELSE rd' = 0 /\ UNCHANGED rop /\ PrepareDestroy(t)

\* The first critical section of process_write.
ProcessWrite(t) ==
  /\ Running(t, "process_write")
  /\ IF cache # << >>
     THEN PopAndWrite /\ Return(t)
     ELSE Goto(t, "filter_notify") /\ UNCHANGED <<cache, buffer, wop>>
  /\ UNCHANGED <<status, refcnt, accepted, sent, sock, rop, held, destroyed, calls>>

\* The second one, after the filter was told that the cache is empty.
\* Mutant: it does not look at the cache again.
NotifiedBlindly(t) ==
  /\ Running(t, "notified")
  /\ UNCHANGED <<rd, willread, cl, finalwrite, blockwrite, refcnt, data, ioVars,
                 held, destroyed, calls>>
  /\ IF finalwrite
     THEN UNCHANGED wr /\ Goto(t, "handle_final_w")
     ELSE wr' = 0 /\ PrepareDestroy(t)
Notified(t) ==
  /\ Running(t, "notified")
  /\ UNCHANGED <<rd, willread, cl, finalwrite, blockwrite, refcnt, accepted, sent,
                 sock, rop, held, destroyed, calls>>
  /\ IF cache # << >>
     THEN PopAndWrite /\ Return(t) /\ UNCHANGED wr
     ELSE /\ UNCHANGED <<cache, buffer, wop>>
          /\ IF finalwrite
             THEN UNCHANGED wr /\ Goto(t, "handle_final_w")
             ELSE wr' = 0 /\ PrepareDestroy(t)

\* process_error after handle_error, for the read side and the write side.
\* Mutant: without __prepare_destroy.
ReadErrorOnly(t) ==
  /\ Running(t, "error_r")
  /\ rd' = Flip(rd)
  /\ Return(t)
  /\ UNCHANGED <<willread, wr, cl, finalwrite, blockwrite, refcnt, data, ioVars,
                 held, destroyed, calls>>
ReadError(t) ==
  /\ Running(t, "error_r")
  /\ rd' = Flip(rd)
  /\ UNCHANGED <<willread, wr, cl, finalwrite, blockwrite, refcnt, data, ioVars,
                 held, destroyed, calls>>
  /\ PrepareDestroy(t)

WriteError(t) ==
  /\ Running(t, "error_w")
  /\ wr' = Flip(wr)
  /\ UNCHANGED <<rd, willread, cl, finalwrite, blockwrite, refcnt, data, ioVars,
                 held, destroyed, calls>>
  /\ PrepareDestroy(t)

\* io_destroy, outside the lock: the memory of the worker is given back.
IoDestroy(t) ==
  /\ Running(t, "io_destroy")
  /\ destroyed' = TRUE
  /\ Return(t)
  /\ UNCHANGED <<status, refcnt, data, ioVars, held, calls>>

-----------------------------------------------------------------------------
(* Completions, which the io_service runs one at a time on thread Io:      *)
(* handle_receive and handle_send.  What completed before the socket was   *)
(* closed still reports success.                                           *)

ReadSucceeds ==
  /\ stack[Io] = << >>
  /\ rop = "live" /\ rop' = "none"
  /\ Call(Io, "handle_read")
  /\ UNCHANGED <<status, refcnt, data, sock, wop, held, destroyed, calls>>

ReadFails ==
  /\ stack[Io] = << >>
  /\ rop \in {"live", "dead"} /\ rop' = "none"
  /\ Call(Io, "handle_error_r")
  /\ UNCHANGED <<status, refcnt, data, sock, wop, held, destroyed, calls>>

WriteSucceeds ==
  /\ stack[Io] = << >>
  /\ wop = "live" /\ wop' = "none"
  /\ sent' = sent \o buffer /\ buffer' = << >>
  /\ Call(Io, "process_write")
  /\ UNCHANGED <<status, refcnt, cache, accepted, sock, rop, held, destroyed, calls>>

\* async_write fails after it carried a part of the buffer.
WriteFails ==
  /\ stack[Io] = << >>
  /\ wop \in {"live", "dead"} /\ wop' = "none"
  /\ \E k \in 0..(IF wop = "live" THEN Len(buffer) ELSE 0) :
       sent' = sent \o SubSeq(buffer, 1, k)
  /\ buffer' = << >>
  /\ Call(Io, "handle_error_w")
  /\ UNCHANGED <<status, refcnt, cache, accepted, sock, rop, held, destroyed, calls>>

-----------------------------------------------------------------------------
(* The specification.  The constructor makes one reference; io_init then   *)
(* calls handle_open.                                                      *)

Init ==
  /\ rd = 0 /\ wr = 0 /\ cl = 0
  /\ willread = FALSE /\ finalwrite = FALSE /\ blockwrite = FALSE
  /\ refcnt = 1
  /\ cache = << >> /\ buffer = << >> /\ accepted = 0 /\ sent = << >>
  /\ sock = TRUE /\ rop = "none" /\ wop = "none"
  /\ stack = [t \in Threads |-> IF t = Acc THEN <<"handle_open">> ELSE << >>]
  /\ held = {} /\ destroyed = FALSE /\ calls = 0

Step(t) ==
  \/ HandlerReturns(t)
  \/ InitUnref(t)
  \/ IoClose(t)
  \/ Closed(t)
  \/ ClosedAgain(t)
  \/ ProcessRead(t)
  \/ ProcessWrite(t)
  \/ Notified(t)
  \/ ReadError(t)
  \/ WriteError(t)
  \/ IoDestroy(t)

Completion == ReadSucceeds \/ ReadFails \/ WriteSucceeds \/ WriteFails

Next ==
  \/ \E t \in Threads : Api(t) \/ Step(t)
  \/ Completion

Spec == Init /\ [][Next]_vars

-----------------------------------------------------------------------------
(* Properties.                                                             *)

Sequenced(n) == [i \in 1..n |-> i]

TypeOK ==
  /\ rd \in 0..2 /\ wr \in 0..2 /\ cl \in {0, 1, 3}
  /\ willread \in BOOLEAN /\ finalwrite \in BOOLEAN /\ blockwrite \in BOOLEAN
  /\ refcnt \in Int
  /\ cache \in Seq(Nat) /\ buffer \in Seq(Nat) /\ sent \in Seq(Nat)
  /\ accepted \in Nat
  /\ sock \in BOOLEAN /\ rop \in Ops /\ wop \in Ops
  /\ stack \in [Threads -> Seq(Frames)]
  /\ held \subseteq Users
  /\ destroyed \in BOOLEAN
  /\ calls \in 0..MaxCalls

\* The frames that carry a read (write) chain on: each of them will either
\* start the next operation or end the chain.
ReadFrames  == {"handle_read", "process_read", "handle_error_r", "error_r"}
WriteFrames == {"process_write", "filter_notify", "notified", "handle_error_w",
                "handle_final_w", "error_w"}
Places(fs)  ==
  {p \in UNION {{t} \X DOMAIN stack[t] : t \in Threads} : stack[p[1]][p[2]] \in fs}

\* A chain is either an outstanding operation or one frame of one thread, and
\* the bits of status_ say 1 exactly while there is one.
OneChain(fs, op, bits) ==
  /\ \A p, q \in Places(fs) : p = q
  /\ op # "none" => Places(fs) = {}
  /\ bits = 1 <=> Places(fs) # {} \/ op # "none"
  /\ op # "overlap"

\* io_read and io_write never run beside an outstanding operation, no chain is
\* lost, and status_ is 01 where the BOOST_ASSERTs of process_read,
\* process_write and process_error, all outside the lock, say it is.
OneChainEach == OneChain(ReadFrames, rop, rd) /\ OneChain(WriteFrames, wop, wr)

\* Once io_destroy ran, no thread is inside the worker, no completion is to
\* come, and nobody holds a reference.
NoUseAfterDestroy ==
  destroyed => /\ \A t \in Threads : stack[t] = << >>
               /\ rop = "none" /\ wop = "none"
               /\ held = {} /\ refcnt = 0

\* The socket carries the accepted data in order, none left out or repeated.
SentInOrder == sent = Sequenced(Len(sent)) /\ Len(sent) <= accepted

\* What was asked for is under way: cached data has a writer, a reader that
\* wants data has a read, a final_write has a write chain to announce it.
NothingForgotten ==
  /\ cache # << >> => wr # 0 \/ blockwrite
  /\ willread => rd # 0
  /\ finalwrite => wr # 0

\* "2 = error or closed for good": a side that failed stays failed, and a
\* closed connection stays closed.
FailedForGood ==
  [][(rd = 2 => rd' = 2) /\ (wr = 2 => wr' = 2) /\ (cl = 3 => cl' = 3)]_status

\* When final_write is announced to the handler, all accepted data was sent.
FinalWriteFlushes ==
  [][\A t \in Threads :
       LET d == Len(stack'[t])
       IN  (/\ d > 0 /\ stack'[t][d] = "handle_final_w"
            /\ d > Len(stack[t]) \/ stack[t][d] # "handle_final_w")
           => cache = << >> /\ wop = "none" /\ Len(sent) = accepted]_vars

-----------------------------------------------------------------------------
(* Fairness and liveness.  Threads run and callbacks return; an error      *)
(* handler that closes does call close(); users give their references up;  *)
(* the io_service runs completions in the order they become ready, so each *)
(* is run in the end; an operation on a closed socket completes, and a     *)
(* write completes because the peer reads or the connection breaks.        *)

HandlerCloses(t) ==
  ErrorCloses /\ stack[t] # << >> /\ Last(stack[t]) \in ErrorFrames /\ Close(t)

Fairness ==
  /\ \A t \in Threads : WF_vars(Step(t)) /\ WF_vars(HandlerCloses(t))
  /\ \A u \in Users : WF_vars(Unref(u, u))
  /\ SF_vars(~sock /\ (ReadSucceeds \/ ReadFails))
  /\ SF_vars(WriteSucceeds \/ WriteFails)

FairSpec == Spec /\ Fairness

\* A connection somebody began to close is destroyed in the end.
ClosedIsDestroyed == cl # 0 ~> destroyed

\* With the handle_error of worker_handler, so is one on which an operation failed.
FailedIsDestroyed == rd = 2 \/ wr = 2 ~> destroyed

\* Accepted data is sent in the end, unless the connection fails or closes first.
AcceptedIsSent == Len(sent) < accepted ~> Len(sent) = accepted \/ wr = 2 \/ cl # 0

\* final_write is announced in the end, whatever happens to the connection.
FinalWriteAnnounced == finalwrite ~> wr = 2

-----------------------------------------------------------------------------
(* What the controller promises about its lifetime.                        *)

Claims ==
  {<<"thread", t>> : t \in {x \in Threads : stack[x] \notin {<< >>, <<"io_destroy">>}}}
    \cup {<<"user", u>> : u \in held}
    \cup {<<"io", o>> : o \in {x \in {"read", "write"} :
                                (IF x = "read" THEN rop ELSE wop) # "none"}}

Lifetime == INSTANCE ObjectLifetime WITH
  Claimants <- ({"thread"} \X Threads) \cup ({"user"} \X Users)
                 \cup ({"io"} \X {"read", "write"}),
  claims <- Claims, closed <- cl = 3, gone <- destroyed

\* The controller implements ObjectLifetime: it is destroyed once, after it
\* was closed, when nothing can call it any more, and nothing does afterwards.
LifetimeSafe == Lifetime!Spec

\* And then it is destroyed.
LifetimeLive == Lifetime!FairSpec

=============================================================================
