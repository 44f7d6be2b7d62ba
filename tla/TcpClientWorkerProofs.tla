----------------------- MODULE TcpClientWorkerProofs -----------------------
(***************************************************************************)
(* Proofs about TcpClientWorker.  The client keeps what the proofs about   *)
(* the controller call SharedInv, by its own steps too; and its status_,   *)
(* its connect operation and its call stacks agree with the blocking of    *)
(* writes (Connection) and with the reference count (Counted).  The server *)
(* is destroyed when nobody is inside; of the client this holds but for    *)
(* unblock_write, which handle_connect calls without a claim (Lifespan).   *)
(***************************************************************************)
EXTENDS TcpClientWorker, WorkerControllerProofs

Alone(fs) == \A p, q \in Places(fs) : p = q

\* The frame of start, and that of ~asio_tcp_client.
StartFrames  == {"async_connect"}
OwnerFrames  == {"unref_client"}
\* The frames of handle_connect that will drop the reference of the constructor.
DroppingFrames == {"handle_open", "unref", "unref_connect"}
\* The frames that write, or will.
WritingFrames == {"process_write", "filter_notify", "notified", "unblock_write"}

Dropping == Places(DroppingFrames) # {}

\* One attempt to connect at most, and none of what writes before it succeeded.
Connection ==
  /\ healthy \in {"init", "conning", "ok", "connerr", "canceled"}
  /\ conn \in {"none", "pending", "done"}
  /\ healthy = "init" => conn = "none"
  /\ conn = "pending" => healthy = "conning"
  /\ Alone(StartFrames)
  /\ Places(StartFrames) # {} => healthy = "conning" /\ conn = "none"
  /\ wop # "none" \/ ~blockwrite \/ Places(WritingFrames) # {} => conn = "done"

\* Who will drop which reference, each once.
Counted ==
  /\ owned \in BOOLEAN
  /\ Alone(DroppingFrames)
  /\ Dropping => healthy \in {"ok", "connerr"}
  /\ Alone(OwnerFrames)
  /\ Places(OwnerFrames) # {} => ~owned /\ Acc \in held
  /\ owned => Acc \in held
  /\ refcnt = Cardinality(held) + (IF healthy \in {"init", "conning"} \/ Dropping THEN 1 ELSE 0)

ClientInv == SharedInv /\ Connection /\ Counted

-----------------------------------------------------------------------------
(* Places that a step leaves alone.                                        *)

LEMMA CallApart ==
  ASSUME StackOK, NEW t \in Threads, NEW f \in Frames, Call(t, f), NEW fs, f \notin fs
  PROVE  StackOK' /\ Places(fs)' = Places(fs)
BY CallStack, CallPlaces

LEMMA LeaveApart ==
  ASSUME StackOK, NEW t \in Threads, stack[t] # << >>, Return(t) \/ PrepareDestroy(t),
         NEW fs, "io_destroy" \notin fs, Last(stack[t]) \notin fs
  PROVE  StackOK' /\ Places(fs)' = Places(fs)
<1>1. StackOK' /\ Places(fs)' = Places(fs) \ {Top(t)}
  BY LeavePlaces
<1>2. Top(t) \notin Places(fs)
  BY TopPlace
<1> QED
  BY <1>1, <1>2

\* The thread of the io_service begins handle_connect with two frames.
LEMMA Pair ==
  ASSUME StackOK, stack[Io] = << >>, NEW f \in Frames, NEW g \in Frames,
         stack' = [stack EXCEPT ![Io] = <<f, g>>], NEW fs
  PROVE  /\ StackOK'
         /\ f \notin fs /\ g \notin fs => Places(fs)' = Places(fs)
         /\ f \in fs /\ g \notin fs => Places(fs)' = Places(fs) \cup {<<Io, 1>>}
         /\ f \notin fs /\ g \in fs => Places(fs)' = Places(fs) \cup {<<Io, 2>>}
<1>1. Io \in Threads /\ <<f, g>> \in Seq(Frames)
  BY DEF Threads
<1>2. stack'[Io] = <<f, g>> /\ \A u \in Threads \ {Io} : stack'[u] = stack[u]
  BY <1>1 DEF StackOK
<1>3. StackOK'
  BY <1>1 DEF StackOK
<1>4. DOMAIN stack'[Io] = {1, 2} /\ stack'[Io][1] = f /\ stack'[Io][2] = g
      /\ DOMAIN stack[Io] = {}
  BY <1>2
<1>5. \A p : p \in Places(fs) <=>
           \E u \in Threads : \E i \in DOMAIN stack[u] : p = <<u, i>> /\ stack[u][i] \in fs
  BY PlacesDef
<1>6. \A p : p \in Places(fs)' <=>
           \E u \in Threads : \E i \in DOMAIN stack'[u] : p = <<u, i>> /\ stack'[u][i] \in fs
  BY <1>3 DEF Places, StackOK
<1>7. \A p : p \in Places(fs)' <=>
           p \in Places(fs) \/ (p = <<Io, 1>> /\ f \in fs) \/ (p = <<Io, 2>> /\ g \in fs)
  <2>1. ASSUME NEW p \in Places(fs) PROVE p \in Places(fs)'
    <3>1. PICK u \in Threads : \E i \in DOMAIN stack[u] : p = <<u, i>> /\ stack[u][i] \in fs
      BY <1>5, <2>1
    <3>2. u # Io
      BY <1>4, <3>1
    <3> QED
      BY <1>2, <1>6, <3>1, <3>2
  <2>2. f \in fs => <<Io, 1>> \in Places(fs)'
    BY <1>1, <1>4, <1>6
  <2>3. g \in fs => <<Io, 2>> \in Places(fs)'
    BY <1>1, <1>4, <1>6
  <2>4. ASSUME NEW p \in Places(fs)', p \notin Places(fs)
        PROVE  (p = <<Io, 1>> /\ f \in fs) \/ (p = <<Io, 2>> /\ g \in fs)
    <3>1. PICK u \in Threads : \E i \in DOMAIN stack'[u] : p = <<u, i>> /\ stack'[u][i] \in fs
      BY <1>6, <2>4
    <3>2. u = Io
      BY <1>2, <1>5, <2>4, <3>1
    <3> QED
      BY <1>4, <3>1, <3>2
  <2> QED
    BY <2>1, <2>2, <2>3, <2>4
<1> QED
  BY <1>3, <1>7

-----------------------------------------------------------------------------
(* What the steps of the controller do to the stacks.                      *)

LEMMA StepShape ==
  ASSUME NEW t \in Threads, Step(t)
  PROVE  /\ stack[t] # << >>
         /\ \/ Last(stack[t]) \in AppFrames /\ Goto(t, Continuation[Last(stack[t])])
            \/ /\ Last(stack[t]) \in {"closed", "closed2", "process_read", "process_write",
                                      "notified", "error_r", "error_w", "io_destroy"}
               /\ Return(t) \/ PrepareDestroy(t)
            \/ Last(stack[t]) = "unref" /\ InitUnref(t)
            \/ Last(stack[t]) = "io_close" /\ Goto(t, "handle_close")
            \/ Last(stack[t]) = "process_write" /\ Goto(t, "filter_notify")
            \/ Last(stack[t]) = "notified" /\ Goto(t, "handle_final_w")
            \/ /\ Last(stack[t]) = "closed"
               /\ stack' = [stack EXCEPT ![t] =
                              Append(Append(Front(stack[t]), "closed2"), "handle_error_r")]
<1>1. CASE HandlerReturns(t)
  BY <1>1 DEF HandlerReturns
<1>2. CASE InitUnref(t)
  BY <1>2 DEF InitUnref, Running
<1>3. CASE IoClose(t)
  BY <1>3 DEF IoClose, Running
<1>4. CASE Closed(t)
  BY <1>4 DEF Closed, Running
<1>5. CASE ClosedAgain(t) \/ ProcessRead(t) \/ ReadError(t) \/ WriteError(t) \/ IoDestroy(t)
  BY <1>5 DEF ClosedAgain, ProcessRead, ReadError, WriteError, IoDestroy, Running
<1>6. CASE ProcessWrite(t)
  BY <1>6 DEF ProcessWrite, Running
<1>7. CASE Notified(t)
  BY <1>7 DEF Notified, Running
<1> QED
  BY <1>1, <1>2, <1>3, <1>4, <1>5, <1>6, <1>7 DEF Step

LEMMA ApiShape ==
  ASSUME NEW t \in Threads, Api(t)
  PROVE  stack' = stack \/ \E f \in {"handle_final_w", "io_close", "io_destroy"} : Call(t, f)
BY DEF Api, Write, TriggerRead, StopRead, FinalWrite, Close, Ref, Unref

LEMMA CompletionShape ==
  ASSUME Completion
  PROVE  \E f \in {"handle_read", "handle_error_r", "process_write", "handle_error_w"} : Call(Io, f)
BY DEF Completion, ReadSucceeds, ReadFails, WriteSucceeds, WriteFails

\* Frames the client added, and those that drop the constructor's reference:
\* no other frame becomes or calls one of them.
Private(fs) == fs \in {StartFrames, OwnerFrames, DroppingFrames}

LEMMA PrivateFrames ==
  ASSUME NEW fs, Private(fs)
  PROVE  /\ \A f \in {"closed", "closed2", "process_read", "process_write", "notified", "error_r",
                      "error_w", "io_destroy", "io_close", "handle_close", "filter_notify",
                      "handle_final_w", "handle_read", "handle_error_r", "handle_error_w",
                      "handle_error_c", "error_c"} : f \notin fs
         /\ \A f \in AppFrames : f \in fs <=> Continuation[f] \in fs
<1>1. \A f \in {"closed", "closed2", "process_read", "process_write", "notified", "error_r",
                "error_w", "io_destroy", "io_close", "handle_close", "filter_notify",
                "handle_final_w", "handle_read", "handle_error_r", "handle_error_w",
                "handle_error_c", "error_c"} : f \notin fs
  BY DEF Private, StartFrames, OwnerFrames, DroppingFrames
<1>2. ASSUME NEW f \in AppFrames PROVE f \in fs <=> Continuation[f] \in fs
  <2>1. f \in {"handle_open", "handle_read", "handle_close", "filter_notify",
               "handle_error_r", "handle_error_w", "handle_final_w", "handle_error_c"}
    BY DEF AppFrames, Continuation
  <2> QED
    BY <2>1 DEF Continuation, Private, StartFrames, OwnerFrames, DroppingFrames
<1> QED
  BY <1>1, <1>2

LEMMA FrameNames ==
  {"closed", "closed2", "process_read", "process_write", "notified", "error_r", "error_w",
   "io_destroy", "io_close", "handle_close", "filter_notify", "handle_final_w", "handle_read",
   "handle_error_r", "handle_error_w", "handle_error_c", "error_c", "handle_open", "unref",
   "async_connect", "unref_client", "unref_connect", "unblock_write"} \subseteq Frames
BY DEF Frames, AppFrames, CodeFrames, Continuation

LEMMA StepApart ==
  ASSUME StackOK, NEW t \in Threads, Step(t), ~InitUnref(t), NEW fs, Private(fs)
  PROVE  Places(fs)' = Places(fs)
<1> DEFINE l == Last(stack[t])
<1>1. stack[t] # << >>
  BY StepShape
<1>2. CASE l \in AppFrames /\ Goto(t, Continuation[l])
  <2> DEFINE f == Continuation[l]
  <2>1. f \in Frames /\ (l \in fs <=> f \in fs) /\ Goto(t, f)
    BY <1>2, ContinuationKind, PrivateFrames
  <2> HIDE DEF f
  <2> QED
    BY <1>1, <2>1, GotoKind
<1>3. CASE /\ l \in {"closed", "closed2", "process_read", "process_write",
                     "notified", "error_r", "error_w", "io_destroy"}
           /\ Return(t) \/ PrepareDestroy(t)
  <2>1. l \notin fs /\ "io_destroy" \notin fs
    BY <1>3, PrivateFrames
  <2> QED
    BY <1>1, <1>3, <2>1, LeaveApart
<1>4. ASSUME NEW f \in {"handle_close", "filter_notify", "handle_final_w"}, Goto(t, f),
             l \in {"io_close", "process_write", "notified"}
      PROVE  Places(fs)' = Places(fs)
  <2>1. l \notin fs /\ f \notin fs /\ f \in Frames
    BY <1>4, PrivateFrames, FrameNames
  <2> QED
    BY <1>1, <1>4, <2>1, GotoKind
<1>5. CASE /\ l = "closed"
           /\ stack' = [stack EXCEPT ![t] =
                          Append(Append(Front(stack[t]), "closed2"), "handle_error_r")]
  <2> DEFINE f == "closed2"
             g == "handle_error_r"
  <2>1. /\ l \notin fs /\ f \notin fs /\ g \notin fs /\ f \in Frames /\ g \in Frames
        /\ stack' = [stack EXCEPT ![t] = Append(Append(Front(stack[t]), f), g)]
    BY <1>5, PrivateFrames, FrameNames
  <2> HIDE DEF f, g
  <2> QED
    BY <1>1, <2>1, GotoCall, ZenonT(60)
<1> QED
  BY <1>2, <1>3, <1>4, <1>5, StepShape

LEMMA CallsApart ==
  ASSUME StackOK, NEW t \in Threads, Api(t) \/ (Completion /\ t = Io), NEW fs, Private(fs)
  PROVE  Places(fs)' = Places(fs)
<1>1. CASE stack' = stack
  BY <1>1 DEF Places
<1>2. ASSUME NEW f \in {"handle_final_w", "io_close", "io_destroy", "handle_read", "handle_error_r",
                        "process_write", "handle_error_w"}, Call(t, f)
      PROVE  Places(fs)' = Places(fs)
  <2>1. f \in Frames /\ f \notin fs
    BY PrivateFrames, FrameNames
  <2> QED
    BY <1>2, <2>1, CallApart
<1> QED
  BY <1>1, <1>2, ApiShape, CompletionShape

-----------------------------------------------------------------------------
(* Before the connection exists nothing is written.                        *)

Blocked == blockwrite /\ wop = "none" /\ Places(WritingFrames) = {}

LEMMA NotWriting ==
  ASSUME StackOK, NEW t \in Threads, stack[t] # << >>, Blocked
  PROVE  Last(stack[t]) \notin WritingFrames
BY TopPlace DEF Blocked

LEMMA WritingKind ==
  /\ \A f \in {"closed", "closed2", "process_read", "error_r", "error_w", "io_destroy", "io_close",
               "handle_close", "handle_final_w", "handle_read", "handle_error_r", "handle_error_w",
               "handle_error_c", "handle_open", "unref", "async_connect", "unref_client",
               "unref_connect", "error_c"} : f \notin WritingFrames
  /\ \A f \in {"process_write", "filter_notify", "notified"} : f \in WritingFrames
  /\ \A f \in AppFrames \ WritingFrames : Continuation[f] \notin WritingFrames
<1>1. \A f \in {"closed", "closed2", "process_read", "error_r", "error_w", "io_destroy",
                "io_close", "handle_close", "handle_final_w", "handle_read", "handle_error_r",
                "handle_error_w", "handle_error_c", "handle_open", "unref", "async_connect",
                "unref_client", "unref_connect", "error_c"} : f \notin WritingFrames
  BY DEF WritingFrames
<1>2. \A f \in {"process_write", "filter_notify", "notified"} : f \in WritingFrames
  BY DEF WritingFrames
<1>3. ASSUME NEW f \in AppFrames \ WritingFrames PROVE Continuation[f] \notin WritingFrames
  <2>1. f \in {"handle_open", "handle_read", "handle_close", "handle_error_r",
               "handle_error_w", "handle_final_w", "handle_error_c"}
    BY DEF AppFrames, Continuation, WritingFrames
  <2> QED
    BY <2>1 DEF Continuation, WritingFrames
<1> QED
  BY <1>1, <1>2, <1>3

LEMMA StepBlocked ==
  ASSUME StackOK, Blocked, NEW t \in Threads, Step(t)
  PROVE  Blocked'
<1> DEFINE l == Last(stack[t])
           fs == WritingFrames
<1>1. stack[t] # << >> /\ l \notin fs
  BY StepShape, NotWriting
<1>2. l # "process_write" /\ l # "notified"
  BY <1>1, WritingKind
<1>3. ~ProcessWrite(t) /\ ~Notified(t)
  BY <1>2 DEF ProcessWrite, Notified, Running
<1>4. blockwrite' = blockwrite /\ wop' = wop
  BY <1>3 DEF Step, HandlerReturns, InitUnref, IoClose, Closed, ClosedAgain, ProcessRead,
     ReadError, WriteError, IoDestroy, status, ioVars
<1>5. Places(fs)' = Places(fs)
  <2>1. CASE l \in AppFrames /\ Goto(t, Continuation[l])
    <3> DEFINE f == Continuation[l]
    <3>1. f \in Frames /\ f \notin fs /\ Goto(t, f)
      BY <1>1, <2>1, ContinuationKind, WritingKind
    <3> HIDE DEF f, fs
    <3> QED
      BY <1>1, <3>1, GotoKind
  <2>2. CASE Return(t) \/ PrepareDestroy(t)
    <3>1. "io_destroy" \notin fs
      BY WritingKind
    <3> HIDE DEF fs
    <3> QED
      BY <1>1, <2>2, <3>1, LeaveApart
  <2>3. CASE Goto(t, "handle_close")
    <3>1. "handle_close" \notin fs /\ "handle_close" \in Frames
      BY WritingKind, FrameNames
    <3> HIDE DEF fs
    <3> QED
      BY <1>1, <2>3, <3>1, GotoKind
  <2>4. CASE stack' = [stack EXCEPT ![t] =
                         Append(Append(Front(stack[t]), "closed2"), "handle_error_r")]
    <3> DEFINE f == "closed2"
               g == "handle_error_r"
    <3>1. /\ f \notin fs /\ g \notin fs /\ f \in Frames /\ g \in Frames
          /\ stack' = [stack EXCEPT ![t] = Append(Append(Front(stack[t]), f), g)]
      BY <2>4, WritingKind, FrameNames
    <3> HIDE DEF f, g, fs
    <3> QED
      BY <1>1, <3>1, GotoCall, ZenonT(60)
  <2>5. InitUnref(t) => PrepareDestroy(t)
    BY DEF InitUnref
  <2> QED
    BY <1>2, <2>1, <2>2, <2>3, <2>4, <2>5, StepShape
<1> QED
  BY <1>4, <1>5 DEF Blocked

LEMMA CallsBlocked ==
  ASSUME StackOK, Blocked, NEW t \in Threads, Api(t) \/ (Completion /\ t = Io)
  PROVE  Blocked'
<1>1. ~WriteSucceeds /\ ~WriteFails
  BY DEF Blocked, WriteSucceeds, WriteFails
<1>2. UNCHANGED <<blockwrite, wop>>
  BY <1>1 DEF Blocked, Api, Write, IoFilterOut, WriteLater, TriggerRead, StopRead, FinalWrite,
     Close, Ref, Unref, Completion, ReadSucceeds, ReadFails, status, ioVars
<1>3. CASE stack' = stack
  BY <1>2, <1>3 DEF Blocked, Places
<1>4. ASSUME NEW f \in {"handle_final_w", "io_close", "io_destroy", "handle_read",
                        "handle_error_r"}, Call(t, f)
      PROVE  Blocked'
  <2>1. f \in Frames /\ f \notin WritingFrames
    BY WritingKind, FrameNames
  <2>2. Places(WritingFrames)' = Places(WritingFrames)
    BY <1>4, <2>1, CallApart
  <2> QED
    BY <1>2, <2>2 DEF Blocked
<1>5. Completion => \E f \in {"handle_read", "handle_error_r"} : Call(Io, f)
  BY <1>1 DEF Completion, ReadSucceeds, ReadFails
<1> QED
  BY <1>3, <1>4, <1>5, ApiShape

-----------------------------------------------------------------------------
(* The steps the client shares with the server.                            *)

\* They leave the connection alone.
LEMMA SharedConnection ==
  ASSUME SharedInv, Connection, UNCHANGED clientVars, NEW t \in Threads,
         Step(t) \/ Api(t) \/ (Completion /\ t = Io)
  PROVE  Connection'
<1> USE DEF Connection
<1>1. StackOK
  BY DEF SharedInv, ChainInv
<1>2. Private(StartFrames)
  BY DEF Private
<1>3. Places(StartFrames)' = Places(StartFrames)
  <2>1. CASE InitUnref(t)
    <3>1. stack[t] # << >> /\ Last(stack[t]) = "unref" /\ PrepareDestroy(t)
      BY <2>1 DEF InitUnref, Running
    <3>2. "unref" \notin StartFrames /\ "io_destroy" \notin StartFrames
      BY DEF StartFrames
    <3> QED
      BY <1>1, <3>1, <3>2, LeaveApart
  <2> QED
    BY <1>1, <1>2, <2>1, StepApart, CallsApart
<1>4. Alone(StartFrames)'
  BY <1>3 DEF Alone
<1>5. conn # "done" => Blocked
  BY DEF Blocked, SharedInv, ChainInv, StatusOK
<1>6. conn # "done" => Blocked'
  BY <1>1, <1>5, StepBlocked, CallsBlocked
<1>7. wop' # "none" \/ ~blockwrite' \/ Places(WritingFrames)' # {} => conn' = "done"
  BY <1>6 DEF Blocked, clientVars
<1> QED
  BY <1>3, <1>4, <1>7 DEF clientVars

\* The holders and the count change together.
LEMMA SharedHeld ==
  ASSUME SharedInv, NEW t \in Threads, (Step(t) /\ ~InitUnref(t)) \/ Api(t) \/ Completion
  PROVE  /\ refcnt' - Cardinality(held') = refcnt - Cardinality(held)
         /\ Acc \in held => Acc \in held'
         /\ Cardinality(held') \in Nat
<1> USE DEF SharedInv, ChainInv
<1>1. IsFiniteSet(held) /\ Cardinality(held) \in Nat /\ refcnt \in Int
  BY HeldNat DEF StatusOK
<1>2. CASE UNCHANGED <<refcnt, held>>
  BY <1>1, <1>2
<1>3. ASSUME NEW u \in Users, Ref(t, u)
      PROVE  /\ refcnt' - Cardinality(held') = refcnt - Cardinality(held)
             /\ Acc \in held => Acc \in held'
             /\ Cardinality(held') \in Nat
  <2>1. u \notin held /\ refcnt' = refcnt + 1 /\ held' = held \cup {u}
    BY <1>3 DEF Ref
  <2>2. Cardinality(held') = Cardinality(held) + 1
    BY <1>1, <2>1, FS_AddElement
  <2> QED
    BY <1>1, <2>1, <2>2
<1>4. ASSUME NEW u \in Users, Unref(t, u)
      PROVE  /\ refcnt' - Cardinality(held') = refcnt - Cardinality(held)
             /\ Acc \in held => Acc \in held'
             /\ Cardinality(held') \in Nat
  <2>1. u \in held /\ refcnt' = refcnt - 1 /\ held' = held \ {u} /\ u # Acc
    BY <1>4, ThreadsAssumption DEF Unref
  <2>2. Cardinality(held') = Cardinality(held) - 1 /\ Cardinality(held') \in Nat
    BY <1>1, <2>1, FS_RemoveElement, FS_CardinalityType
  <2> QED
    BY <1>1, <2>1, <2>2
<1>5. Step(t) /\ ~InitUnref(t) => UNCHANGED <<refcnt, held>>
  BY DEF Step, HandlerReturns, IoClose, Closed, ClosedAgain, ProcessRead, ProcessWrite, Notified,
     ReadError, WriteError, IoDestroy
<1>6. Completion => UNCHANGED <<refcnt, held>>
  BY DEF Completion, ReadSucceeds, ReadFails, WriteSucceeds, WriteFails
<1>7. Api(t) => UNCHANGED <<refcnt, held>> \/ \E u \in Users : Ref(t, u) \/ Unref(t, u)
  BY DEF Api, Write, TriggerRead, StopRead, FinalWrite, Close
<1> QED
  BY <1>2, <1>3, <1>4, <1>5, <1>6, <1>7

\* A frame that drops the reference of the constructor ends, and drops it.
LEMMA DropCounted ==
  ASSUME SharedInv, Counted, NEW t \in Threads, stack[t] # << >>,
         Last(stack[t]) \in DroppingFrames \ {"handle_open"}, PrepareDestroy(t),
         refcnt' = refcnt - 1, held' = held, UNCHANGED clientVars
  PROVE  Counted'
<1> USE DEF SharedInv, ChainInv, Counted
<1>1. "io_destroy" \notin DroppingFrames /\ "io_destroy" \notin OwnerFrames
      /\ Last(stack[t]) \notin OwnerFrames
  BY DEF DroppingFrames, OwnerFrames
<1>2. Places(OwnerFrames)' = Places(OwnerFrames)
  BY <1>1, LeaveApart
<1>3. Places(DroppingFrames)' = Places(DroppingFrames) \ {Top(t)}
  BY <1>1, LeavePlaces
<1>4. Top(t) \in Places(DroppingFrames)
  BY TopPlace
<1>5. Dropping /\ Places(DroppingFrames)' = {}
  BY <1>3, <1>4 DEF Dropping, Alone
<1>6. healthy \in {"ok", "connerr"} /\ UNCHANGED <<healthy, owned>>
  BY <1>5 DEF clientVars
<1>7. Cardinality(held) \in Nat /\ refcnt = Cardinality(held) + 1
  BY <1>5, HeldNat
<1>8. Alone(DroppingFrames)' /\ Alone(OwnerFrames)' /\ ~Dropping'
  BY <1>2, <1>5 DEF Alone, Dropping
<1> QED
  BY <1>2, <1>6, <1>7, <1>8

LEMMA SharedCounted ==
  ASSUME SharedInv, Counted, UNCHANGED clientVars, NEW t \in Threads,
         Step(t) \/ Api(t) \/ (Completion /\ t = Io)
  PROVE  Counted'
<1>1. StackOK /\ Private(DroppingFrames) /\ Private(OwnerFrames)
  BY DEF SharedInv, ChainInv, Private
<1>2. CASE InitUnref(t)
  <2>1. /\ stack[t] # << >> /\ Last(stack[t]) = "unref" /\ PrepareDestroy(t)
        /\ refcnt' = refcnt - 1 /\ held' = held
    BY <1>2 DEF InitUnref, Running
  <2>2. "unref" \in DroppingFrames \ {"handle_open"}
    BY DEF DroppingFrames
  <2> QED
    BY <2>1, <2>2, DropCounted
<1>3. CASE ~InitUnref(t)
  <2>1. Places(DroppingFrames)' = Places(DroppingFrames)
    BY <1>1, <1>3, StepApart, CallsApart
  <2>2. Places(OwnerFrames)' = Places(OwnerFrames)
    BY <1>1, <1>3, StepApart, CallsApart
  <2>3. /\ refcnt' - Cardinality(held') = refcnt - Cardinality(held)
        /\ Acc \in held => Acc \in held'
        /\ Cardinality(held') \in Nat
    BY <1>3, SharedHeld
  <2>4. Cardinality(held) \in Nat /\ refcnt \in Int
    BY HeldNat DEF SharedInv, ChainInv, StatusOK
  <2>5. refcnt' \in Int
    BY StepShared, ApiShared, CompletionShared DEF SharedInv, ChainInv, StatusOK
  <2>6. UNCHANGED <<healthy, owned>>
    BY DEF clientVars
  <2>7. Alone(DroppingFrames)' /\ Alone(OwnerFrames)' /\ Dropping' = Dropping
    BY <2>1, <2>2 DEF Counted, Alone, Dropping
  <2>8. refcnt' = Cardinality(held')
                    + (IF healthy' \in {"init", "conning"} \/ Dropping' THEN 1 ELSE 0)
    BY <2>3, <2>4, <2>5, <2>6, <2>7 DEF Counted
  <2> QED
    BY <2>2, <2>3, <2>6, <2>7, <2>8 DEF Counted
<1> QED
  BY <1>2, <1>3

LEMMA SharedClient ==
  ASSUME ClientInv, NEW t \in Threads, SharedStep(t) \/ SharedApi(t) \/ SharedCompletion
  PROVE  ClientInv'
<1>1. UNCHANGED clientVars /\ (Step(t) \/ Api(t) \/ Completion)
  BY DEF SharedStep, SharedApi, SharedCompletion, Completion
<1>2. SharedInv'
  BY <1>1, StepShared, ApiShared, CompletionShared DEF ClientInv
<1>3. Io \in Threads
  BY DEF Threads
<1>4. Connection' /\ Counted'
  BY <1>1, <1>3, SharedConnection, SharedCounted DEF ClientInv
<1> QED
  BY <1>2, <1>4 DEF ClientInv

-----------------------------------------------------------------------------
(* The steps of the client: the part that SharedInv is about.              *)

OwnFrames == {"async_connect", "unref_client", "unref_connect", "unblock_write", "error_c",
              "handle_error_c", "handle_open"}

LEMMA OwnFramesApart ==
  ASSUME NEW f \in OwnFrames
  PROVE  f \in Frames /\ f \notin ReadFrames /\ f \notin WriteFrames /\ f \notin FailingFrames
BY DEF OwnFrames, Frames, AppFrames, CodeFrames, Continuation, ReadFrames, WriteFrames,
       FailingFrames

\* No frame of a chain begins, ends or fails.
ChainsStay == /\ Places(ReadFrames)' = Places(ReadFrames)
              /\ Places(WriteFrames)' = Places(WriteFrames)
              /\ Places(FailingFrames)' = Places(FailingFrames)

LEMMA OwnLeaves ==
  ASSUME StackOK, NEW t \in Threads, stack[t] # << >>, Last(stack[t]) \in OwnFrames,
         Return(t) \/ PrepareDestroy(t)
  PROVE  StackOK' /\ ChainsStay
<1> DEFINE l == Last(stack[t])
<1>1. /\ l \notin ReadFrames /\ l \notin WriteFrames /\ l \notin FailingFrames
      /\ "io_destroy" \notin ReadFrames /\ "io_destroy" \notin WriteFrames
      /\ "io_destroy" \notin FailingFrames
  BY OwnFramesApart DEF ReadFrames, WriteFrames, FailingFrames
<1>2. StackOK' /\ Places(ReadFrames)' = Places(ReadFrames)
  BY <1>1, LeaveApart
<1>3. Places(WriteFrames)' = Places(WriteFrames)
  BY <1>1, LeaveApart
<1>4. Places(FailingFrames)' = Places(FailingFrames)
  BY <1>1, LeaveApart
<1> QED
  BY <1>2, <1>3, <1>4 DEF ChainsStay

LEMMA OwnCalls ==
  ASSUME StackOK, NEW t \in Threads, NEW f \in OwnFrames, Call(t, f)
  PROVE  StackOK' /\ ChainsStay
<1>1. StackOK' /\ Places(ReadFrames)' = Places(ReadFrames)
  BY OwnFramesApart, CallApart
<1>2. Places(WriteFrames)' = Places(WriteFrames)
  BY OwnFramesApart, CallApart
<1>3. Places(FailingFrames)' = Places(FailingFrames)
  BY OwnFramesApart, CallApart
<1> QED
  BY <1>1, <1>2, <1>3 DEF ChainsStay

LEMMA OwnPair ==
  ASSUME StackOK, stack[Io] = << >>, NEW f \in OwnFrames, NEW g \in OwnFrames,
         stack' = [stack EXCEPT ![Io] = <<f, g>>]
  PROVE  StackOK' /\ ChainsStay
<1>1. /\ f \in Frames /\ f \notin ReadFrames /\ f \notin WriteFrames /\ f \notin FailingFrames
      /\ g \in Frames /\ g \notin ReadFrames /\ g \notin WriteFrames /\ g \notin FailingFrames
  BY OwnFramesApart
<1>2. StackOK' /\ Places(ReadFrames)' = Places(ReadFrames)
  BY <1>1, Pair
<1>3. Places(WriteFrames)' = Places(WriteFrames)
  BY <1>1, Pair
<1>4. Places(FailingFrames)' = Places(FailingFrames)
  BY <1>1, Pair
<1> QED
  BY <1>2, <1>3, <1>4 DEF ChainsStay

LEMMA KeepsShared ==
  ASSUME SharedInv, StackOK', ChainsStay, UNCHANGED <<status, data, rop, wop, destroyed, calls>>,
         refcnt' \in Int, sock' \in BOOLEAN, held' \subseteq Threads
  PROVE  SharedInv'
<1> USE DEF SharedInv
<1>1. StatusOK' /\ DataOK'
  BY DEF ChainInv, StatusOK, DataOK, status, data
<1>2. OneChainEach'
  BY SameChains DEF ChainsStay, status
<1>3. NothingForgotten'
  BY DEF NothingForgotten, status, data
<1>4. Failing => Failing'
  BY DEF Failing, ChainsStay, status
<1>5. DataInv'
  BY <1>4, SameData
<1> QED
  BY <1>1, <1>2, <1>3, <1>5 DEF ChainInv

\* unblock_write: what was cached has a writer from here on.
LEMMA UnblockShared ==
  ASSUME SharedInv, NEW t \in Threads, UnblockWrite(t)
  PROVE  SharedInv'
<1> USE DEF SharedInv, ChainInv
<1>1. /\ stack[t] # << >> /\ Last(stack[t]) = "unblock_write" /\ blockwrite' = FALSE
      /\ UNCHANGED <<rd, willread, cl, finalwrite, refcnt, data, ioVars, held,
                     destroyed, calls>>
  BY DEF UnblockWrite, Running
<1>2. "unblock_write" \in OwnFrames
  BY DEF OwnFrames
<1>3. DataOK'
  BY <1>1 DEF DataOK, data
<1>4. blockwrite' \in BOOLEAN
  BY <1>1, Zenon
<1>5. CASE wr = 0
  <2>1. wr' = 1 /\ Goto(t, "process_write")
    BY <1>5 DEF UnblockWrite
  <2>2. StatusOK'
    BY <1>1, <1>4, <2>1 DEF StatusOK, ioVars
  <2>3. ~Failing /\ Places(WriteFrames) = {} /\ wop = "none"
    BY <1>5, FailingChain DEF OneChainEach, OneChain
  <2>4. /\ "process_write" \in Frames /\ "process_write" \in WriteFrames
        /\ "process_write" \notin ReadFrames /\ Last(stack[t]) \notin ReadFrames
    BY <1>1, <1>2, OwnFramesApart, FrameNames DEF ReadFrames, WriteFrames
  <2>5. StackOK' /\ Places(ReadFrames)' = Places(ReadFrames)
    BY <1>1, <2>1, <2>4, GotoKind
  <2>6. Places(WriteFrames)' = Places(WriteFrames) \cup {Top(t)}
    BY <1>1, <2>1, <2>4, GotoPlaces
  <2>7. OneChainEach'
    BY <1>1, <2>1, <2>3, <2>5, <2>6 DEF OneChainEach, OneChain, ioVars
  <2>8. NothingForgotten'
    BY <1>1, <2>1 DEF NothingForgotten
  <2>9. DataInv'
    BY <1>1, <2>3, SameData DEF ioVars
  <2> QED
    BY <1>3, <2>2, <2>5, <2>7, <2>8, <2>9
<1>6. CASE wr # 0
  <2>1. wr' = wr /\ Return(t)
    BY <1>6 DEF UnblockWrite
  <2>2. StackOK' /\ ChainsStay
    BY <1>1, <1>2, <2>1, OwnLeaves
  <2>3. StatusOK'
    BY <1>1, <1>4, <2>1 DEF StatusOK, ioVars
  <2>4. OneChainEach'
    BY <1>1, <2>1, <2>2, SameChains DEF ChainsStay, ioVars
  <2>5. NothingForgotten'
    BY <1>1, <1>6, <2>1 DEF NothingForgotten
  <2>6. DataInv'
    BY <1>1, <2>1, <2>2, SameData DEF ChainsStay, Failing, ioVars
  <2> QED
    BY <1>3, <2>2, <2>3, <2>4, <2>5, <2>6
<1> QED
  BY <1>5, <1>6

-----------------------------------------------------------------------------
(* The steps of the client.                                                *)

LEMMA SameConnection ==
  ASSUME Connection, UNCHANGED <<healthy, conn, wop, blockwrite>>,
         Places(StartFrames)' = Places(StartFrames),
         Places(WritingFrames)' = Places(WritingFrames)
  PROVE  Connection'
BY DEF Connection, Alone

LEMMA SameCounted ==
  ASSUME Counted, UNCHANGED <<healthy, owned, refcnt, held>>,
         Places(DroppingFrames)' = Places(DroppingFrames),
         Places(OwnerFrames)' = Places(OwnerFrames)
  PROVE  Counted'
BY DEF Counted, Alone, Dropping

LEMMA ClientStartInv == ASSUME ClientInv, ClientStart PROVE ClientInv'
<1> USE DEF ClientInv
<1>1. /\ StackOK /\ Acc \in Threads /\ "async_connect" \in OwnFrames
      /\ "async_connect" \in Frames
  BY FrameNames DEF SharedInv, ChainInv, Threads, OwnFrames
<1>2. /\ healthy = "init" /\ healthy' = "conning" /\ Call(Acc, "async_connect")
      /\ UNCHANGED <<status, refcnt, data, ioVars, held, destroyed, calls, conn, owned>>
  BY DEF ClientStart
<1>3. StackOK' /\ ChainsStay
  BY <1>1, <1>2, OwnCalls
<1>4. SharedInv'
  BY <1>2, <1>3, KeepsShared DEF SharedInv, ChainInv, StatusOK, ioVars
<1>5. /\ "async_connect" \notin WritingFrames /\ "async_connect" \notin DroppingFrames
      /\ "async_connect" \notin OwnerFrames /\ "async_connect" \in StartFrames
  BY DEF WritingFrames, DroppingFrames, OwnerFrames, StartFrames
<1>6. Places(WritingFrames)' = Places(WritingFrames)
  BY <1>1, <1>2, <1>5, CallApart
<1>7. Places(DroppingFrames)' = Places(DroppingFrames)
  BY <1>1, <1>2, <1>5, CallApart
<1>8. Places(OwnerFrames)' = Places(OwnerFrames)
  BY <1>1, <1>2, <1>5, CallApart
<1>9. Places(StartFrames)' = Places(StartFrames) \cup {New(Acc)}
  BY <1>1, <1>2, <1>5, CallPlaces
<1>10. Places(StartFrames) = {} /\ conn = "none" /\ ~Dropping
  BY <1>2 DEF Connection, Counted
<1>11. Connection'
  BY <1>2, <1>6, <1>9, <1>10 DEF Connection, Alone, status, ioVars
<1>12. Counted'
  BY <1>2, <1>7, <1>8, <1>10 DEF Counted, Alone, Dropping
<1> QED
  BY <1>4, <1>11, <1>12

LEMMA AsyncConnectInv == ASSUME ClientInv, NEW t \in Threads, AsyncConnect(t) PROVE ClientInv'
<1> USE DEF ClientInv
<1>1. StackOK
  BY DEF SharedInv, ChainInv
<1>2. /\ stack[t] # << >> /\ Last(stack[t]) = "async_connect" /\ Return(t)
      /\ sock' = TRUE /\ conn' = "pending"
      /\ UNCHANGED <<status, refcnt, data, rop, wop, held, destroyed, calls, healthy, owned>>
  BY DEF AsyncConnect, Running
<1>3. /\ Last(stack[t]) \in OwnFrames /\ Last(stack[t]) \in StartFrames
      /\ Last(stack[t]) \notin WritingFrames /\ Last(stack[t]) \notin DroppingFrames
      /\ Last(stack[t]) \notin OwnerFrames
      /\ "io_destroy" \notin WritingFrames /\ "io_destroy" \notin DroppingFrames
      /\ "io_destroy" \notin OwnerFrames /\ "io_destroy" \notin StartFrames
  BY <1>2 DEF OwnFrames, WritingFrames, DroppingFrames, OwnerFrames, StartFrames
<1>4. StackOK' /\ ChainsStay
  BY <1>1, <1>2, <1>3, OwnLeaves
<1>5. SharedInv'
  BY <1>2, <1>4, KeepsShared DEF SharedInv, ChainInv, StatusOK
<1>6. Places(WritingFrames)' = Places(WritingFrames)
  BY <1>1, <1>2, <1>3, LeaveApart
<1>7. Places(DroppingFrames)' = Places(DroppingFrames)
  BY <1>1, <1>2, <1>3, LeaveApart
<1>8. Places(OwnerFrames)' = Places(OwnerFrames)
  BY <1>1, <1>2, <1>3, LeaveApart
<1>9. Top(t) \in Places(StartFrames) /\ Places(StartFrames)' = Places(StartFrames) \ {Top(t)}
  BY <1>1, <1>2, <1>3, TopPlace, LeavePlaces
<1>10. Places(StartFrames)' = {} /\ healthy = "conning" /\ conn = "none"
  BY <1>9 DEF Connection, Alone
<1>11. Connection'
  BY <1>2, <1>6, <1>10 DEF Connection, Alone, status
<1>12. Counted'
  BY <1>2, <1>7, <1>8, SameCounted
<1> QED
  BY <1>5, <1>11, <1>12

\* ~asio_tcp_client: a reference less if handle_connect will not drop it.
LEMMA ClientDestructorInv == ASSUME ClientInv, ClientDestructor PROVE ClientInv'
<1> USE DEF ClientInv
<1>1. /\ StackOK /\ Acc \in Threads /\ "unref_client" \in OwnFrames
      /\ "unref_client" \in Frames
  BY FrameNames DEF SharedInv, ChainInv, Threads, OwnFrames
<1>2. /\ owned /\ owned' = FALSE /\ Call(Acc, "unref_client")
      /\ IF healthy = "init"
         THEN /\ healthy' = "canceled"
              /\ refcnt' = IF refcnt <= 1 THEN refcnt ELSE refcnt - 1
         ELSE UNCHANGED <<healthy, refcnt>>
      /\ UNCHANGED <<status, data, ioVars, destroyed, calls, conn, held>>
  BY DEF ClientDestructor, OwnerIdle
<1>3. StackOK' /\ ChainsStay
  BY <1>1, <1>2, OwnCalls
<1>4. refcnt \in Int /\ refcnt' \in Int
  BY <1>2 DEF SharedInv, ChainInv, StatusOK
<1>5. SharedInv'
  BY <1>2, <1>3, <1>4, KeepsShared DEF SharedInv, ChainInv, StatusOK, ioVars
<1>6. /\ "unref_client" \notin WritingFrames /\ "unref_client" \notin DroppingFrames
      /\ "unref_client" \in OwnerFrames /\ "unref_client" \notin StartFrames
  BY DEF WritingFrames, DroppingFrames, OwnerFrames, StartFrames
<1>7. Places(WritingFrames)' = Places(WritingFrames)
  BY <1>1, <1>2, <1>6, CallApart
<1>8. Places(DroppingFrames)' = Places(DroppingFrames)
  BY <1>1, <1>2, <1>6, CallApart
<1>9. Places(StartFrames)' = Places(StartFrames)
  BY <1>1, <1>2, <1>6, CallApart
<1>10. Places(OwnerFrames)' = Places(OwnerFrames) \cup {New(Acc)}
  BY <1>1, <1>2, <1>6, CallPlaces
<1>11. Places(OwnerFrames) = {} /\ Acc \in held
  BY <1>2 DEF Counted
<1>12. Alone(OwnerFrames)' /\ Alone(DroppingFrames)' /\ Dropping' = Dropping
  BY <1>8, <1>10, <1>11 DEF Counted, Alone, Dropping
<1>13. Connection'
  <2>1. healthy' = "canceled" \/ healthy' = healthy
    BY <1>2
  <2>2. healthy' = "canceled" => (conn # "pending" /\ Places(StartFrames) = {}) \/ healthy = "canceled"
    BY <1>2 DEF Connection
  <2> QED
    BY <1>2, <1>7, <1>9, <2>1, <2>2 DEF Connection, Alone, status, ioVars
<1>14. Counted'
  <2>1. CASE healthy = "init"
    <3>1. ~Dropping /\ Cardinality(held) \in Nat \ {0}
      <4>1. IsFiniteSet(held) /\ Cardinality(held) \in Nat
        BY HeldNat DEF SharedInv, ChainInv
      <4>2. Cardinality(held) # 0
        BY <1>11, <4>1, FS_EmptySet
      <4> QED
        BY <2>1, <4>1, <4>2 DEF Counted
    <3>2. refcnt = Cardinality(held) + 1
      BY <2>1 DEF Counted
    <3>3. refcnt' = Cardinality(held) /\ healthy' = "canceled"
      BY <1>2, <2>1, <3>1, <3>2
    <3>4. refcnt' = Cardinality(held')
                      + (IF healthy' \in {"init", "conning"} \/ Dropping' THEN 1 ELSE 0)
      BY <1>2, <1>12, <3>1, <3>3
    <3>5. owned' \in BOOLEAN /\ ~owned' /\ ~Dropping'
      BY <1>2, <1>12, <3>1, Zenon
    <3> QED
      BY <1>2, <1>11, <1>12, <3>4, <3>5 DEF Counted
  <2>2. CASE healthy # "init"
    BY <1>2, <1>11, <1>12, <2>2 DEF Counted
  <2> QED
    BY <2>1, <2>2
<1> QED
  BY <1>5, <1>13, <1>14

\* The unref of the client object drops the reference of its holder.
LEMMA ClientUnrefInv == ASSUME ClientInv, NEW t \in Threads, ClientUnref(t) PROVE ClientInv'
<1> USE DEF ClientInv
<1>1. StackOK /\ IsFiniteSet(held) /\ Cardinality(held) \in Nat
  BY HeldNat DEF SharedInv, ChainInv
<1>2. /\ stack[t] # << >> /\ Last(stack[t]) = "unref_client" /\ PrepareDestroy(t)
      /\ refcnt' = refcnt - 1 /\ held' = held \ {Acc}
      /\ UNCHANGED <<status, data, ioVars, destroyed, calls, clientVars>>
  BY DEF ClientUnref, Running
<1>3. /\ Last(stack[t]) \in OwnFrames /\ Last(stack[t]) \notin StartFrames
      /\ Last(stack[t]) \notin WritingFrames /\ Last(stack[t]) \notin DroppingFrames
      /\ Last(stack[t]) \in OwnerFrames
      /\ "io_destroy" \notin WritingFrames /\ "io_destroy" \notin DroppingFrames
      /\ "io_destroy" \notin OwnerFrames /\ "io_destroy" \notin StartFrames
  BY <1>2 DEF OwnFrames, WritingFrames, DroppingFrames, OwnerFrames, StartFrames
<1>4. StackOK' /\ ChainsStay
  BY <1>1, <1>2, <1>3, OwnLeaves
<1>5. SharedInv'
  BY <1>2, <1>4, KeepsShared DEF SharedInv, ChainInv, StatusOK, ioVars
<1>6. Places(WritingFrames)' = Places(WritingFrames)
  BY <1>1, <1>2, <1>3, LeaveApart
<1>7. Places(DroppingFrames)' = Places(DroppingFrames)
  BY <1>1, <1>2, <1>3, LeaveApart
<1>8. Places(StartFrames)' = Places(StartFrames)
  BY <1>1, <1>2, <1>3, LeaveApart
<1>9. Top(t) \in Places(OwnerFrames) /\ Places(OwnerFrames)' = Places(OwnerFrames) \ {Top(t)}
  BY <1>1, <1>2, <1>3, TopPlace, LeavePlaces
<1>10. Places(OwnerFrames)' = {} /\ ~owned /\ Acc \in held
  BY <1>9 DEF Counted, Alone
<1>11. Cardinality(held') = Cardinality(held) - 1
  BY <1>1, <1>2, <1>10, FS_RemoveElement
<1>12. Alone(OwnerFrames)' /\ Alone(DroppingFrames)' /\ Dropping' = Dropping
  BY <1>7, <1>10 DEF Counted, Alone, Dropping
<1>13. Connection'
  BY <1>2, <1>6, <1>8, SameConnection DEF clientVars, status, ioVars
<1>14. Counted'
  BY <1>1, <1>2, <1>10, <1>11, <1>12 DEF Counted, clientVars
<1> QED
  BY <1>5, <1>13, <1>14

\* handle_connect without an error: the frame of io_init will drop the
\* reference of the constructor, and writes may begin.
LEMMA ConnectSucceedsInv == ASSUME ClientInv, ConnectSucceeds PROVE ClientInv'
<1> USE DEF ClientInv
<1> DEFINE f == "unblock_write"
           g == "handle_open"
<1>1. StackOK
  BY DEF SharedInv, ChainInv
<1>2. /\ stack[Io] = << >> /\ conn = "pending" /\ conn' = "done" /\ healthy' = "ok"
      /\ stack' = [stack EXCEPT ![Io] = <<f, g>>]
      /\ UNCHANGED <<status, refcnt, data, ioVars, held, destroyed, calls, owned>>
  BY DEF ConnectSucceeds
<1>3. /\ f \in Frames /\ g \in Frames /\ f \in OwnFrames /\ g \in OwnFrames
      /\ f \notin StartFrames /\ g \notin StartFrames
      /\ f \notin OwnerFrames /\ g \notin OwnerFrames
      /\ f \notin DroppingFrames /\ g \in DroppingFrames
  BY FrameNames DEF OwnFrames, StartFrames, OwnerFrames, DroppingFrames
<1> HIDE DEF f, g
<1>4. StackOK' /\ ChainsStay
  BY <1>1, <1>2, <1>3, OwnPair
<1>5. SharedInv'
  BY <1>2, <1>4, KeepsShared DEF SharedInv, ChainInv, StatusOK, ioVars
<1>6. Places(StartFrames)' = Places(StartFrames)
  BY <1>1, <1>2, <1>3, Pair
<1>7. Places(OwnerFrames)' = Places(OwnerFrames)
  BY <1>1, <1>2, <1>3, Pair
<1>8. Places(DroppingFrames)' = Places(DroppingFrames) \cup {<<Io, 2>>}
  BY <1>1, <1>2, <1>3, Pair
<1>9. healthy = "conning" /\ Places(StartFrames) = {} /\ Places(DroppingFrames) = {}
  BY <1>2 DEF Connection, Counted, Dropping
<1>10. Connection'
  BY <1>2, <1>6, <1>9 DEF Connection, Alone
<1>11. Alone(DroppingFrames)' /\ Dropping' /\ Alone(OwnerFrames)'
  BY <1>7, <1>8, <1>9 DEF Counted, Alone, Dropping
<1>12. Counted'
  BY <1>2, <1>7, <1>9, <1>11 DEF Counted
<1> QED
  BY <1>5, <1>10, <1>12

\* handle_connect with an error: its own unref will drop that reference.
LEMMA ConnectFailsInv == ASSUME ClientInv, ConnectFails PROVE ClientInv'
<1> USE DEF ClientInv
<1> DEFINE f == "unref_connect"
           g == "handle_error_c"
<1>1. StackOK
  BY DEF SharedInv, ChainInv
<1>2. /\ stack[Io] = << >> /\ conn = "pending" /\ conn' = "none" /\ healthy' = "connerr"
      /\ stack' = [stack EXCEPT ![Io] = <<f, g>>]
      /\ UNCHANGED <<status, refcnt, data, ioVars, held, destroyed, calls, owned>>
  BY DEF ConnectFails
<1>3. /\ f \in Frames /\ g \in Frames /\ f \in OwnFrames /\ g \in OwnFrames
      /\ f \notin StartFrames /\ g \notin StartFrames
      /\ f \notin OwnerFrames /\ g \notin OwnerFrames
      /\ f \notin WritingFrames /\ g \notin WritingFrames
      /\ f \in DroppingFrames /\ g \notin DroppingFrames
  BY FrameNames DEF OwnFrames, StartFrames, OwnerFrames, DroppingFrames, WritingFrames
<1> HIDE DEF f, g
<1>4. StackOK' /\ ChainsStay
  BY <1>1, <1>2, <1>3, OwnPair
<1>5. SharedInv'
  BY <1>2, <1>4, KeepsShared DEF SharedInv, ChainInv, StatusOK, ioVars
<1>6. Places(StartFrames)' = Places(StartFrames)
  BY <1>1, <1>2, <1>3, Pair
<1>7. Places(OwnerFrames)' = Places(OwnerFrames)
  BY <1>1, <1>2, <1>3, Pair
<1>8. Places(WritingFrames)' = Places(WritingFrames)
  BY <1>1, <1>2, <1>3, Pair
<1>9. Places(DroppingFrames)' = Places(DroppingFrames) \cup {<<Io, 1>>}
  BY <1>1, <1>2, <1>3, Pair
<1>10. healthy = "conning" /\ Places(StartFrames) = {} /\ Places(DroppingFrames) = {}
  BY <1>2 DEF Connection, Counted, Dropping
<1>11. wop = "none" /\ blockwrite /\ Places(WritingFrames) = {}
  BY <1>2 DEF Connection
<1>12. Connection'
  BY <1>2, <1>6, <1>8, <1>10, <1>11 DEF Connection, Alone, status, ioVars
<1>13. Alone(DroppingFrames)' /\ Dropping' /\ Alone(OwnerFrames)'
  BY <1>7, <1>9, <1>10 DEF Counted, Alone, Dropping
<1>14. Counted'
  BY <1>2, <1>7, <1>10, <1>13 DEF Counted
<1> QED
  BY <1>5, <1>12, <1>14

LEMMA ConnectErrorInv == ASSUME ClientInv, NEW t \in Threads, ConnectError(t) PROVE ClientInv'
<1> USE DEF ClientInv
<1>1. StackOK
  BY DEF SharedInv, ChainInv
<1>2. /\ stack[t] # << >> /\ Last(stack[t]) = "error_c" /\ PrepareDestroy(t)
      /\ UNCHANGED <<status, refcnt, data, ioVars, held, destroyed, calls, clientVars>>
  BY DEF ConnectError, Running
<1>3. /\ Last(stack[t]) \in OwnFrames /\ Last(stack[t]) \notin StartFrames
      /\ Last(stack[t]) \notin WritingFrames /\ Last(stack[t]) \notin DroppingFrames
      /\ Last(stack[t]) \notin OwnerFrames
      /\ "io_destroy" \notin WritingFrames /\ "io_destroy" \notin DroppingFrames
      /\ "io_destroy" \notin OwnerFrames /\ "io_destroy" \notin StartFrames
  BY <1>2 DEF OwnFrames, WritingFrames, DroppingFrames, OwnerFrames, StartFrames
<1>4. StackOK' /\ ChainsStay
  BY <1>1, <1>2, <1>3, OwnLeaves
<1>5. SharedInv'
  BY <1>2, <1>4, KeepsShared DEF SharedInv, ChainInv, StatusOK, ioVars
<1>6. Places(WritingFrames)' = Places(WritingFrames)
  BY <1>1, <1>2, <1>3, LeaveApart
<1>7. Places(DroppingFrames)' = Places(DroppingFrames)
  BY <1>1, <1>2, <1>3, LeaveApart
<1>8. Places(OwnerFrames)' = Places(OwnerFrames)
  BY <1>1, <1>2, <1>3, LeaveApart
<1>9. Places(StartFrames)' = Places(StartFrames)
  BY <1>1, <1>2, <1>3, LeaveApart
<1> QED
  BY <1>2, <1>5, <1>6, <1>7, <1>8, <1>9, SameConnection, SameCounted
     DEF clientVars, status, ioVars

LEMMA ConnectUnrefInv == ASSUME ClientInv, NEW t \in Threads, ConnectUnref(t) PROVE ClientInv'
<1> USE DEF ClientInv
<1>1. StackOK
  BY DEF SharedInv, ChainInv
<1>2. /\ stack[t] # << >> /\ Last(stack[t]) = "unref_connect" /\ PrepareDestroy(t)
      /\ refcnt' = refcnt - 1
      /\ UNCHANGED <<status, data, ioVars, held, destroyed, calls, clientVars>>
  BY DEF ConnectUnref, Running
<1>3. /\ Last(stack[t]) \in OwnFrames /\ Last(stack[t]) \notin StartFrames
      /\ Last(stack[t]) \notin WritingFrames
      /\ Last(stack[t]) \in DroppingFrames \ {"handle_open"}
      /\ "io_destroy" \notin WritingFrames /\ "io_destroy" \notin StartFrames
  BY <1>2 DEF OwnFrames, WritingFrames, DroppingFrames, StartFrames
<1>4. StackOK' /\ ChainsStay
  BY <1>1, <1>2, <1>3, OwnLeaves
<1>5. SharedInv'
  BY <1>2, <1>4, KeepsShared DEF SharedInv, ChainInv, StatusOK, ioVars
<1>6. Places(WritingFrames)' = Places(WritingFrames)
  BY <1>1, <1>2, <1>3, LeaveApart
<1>7. Places(StartFrames)' = Places(StartFrames)
  BY <1>1, <1>2, <1>3, LeaveApart
<1>8. Connection'
  BY <1>2, <1>6, <1>7, SameConnection DEF clientVars, status, ioVars
<1>9. Counted'
  BY <1>2, <1>3, DropCounted
<1> QED
  BY <1>5, <1>8, <1>9

\* unblock_write runs because the connection exists.
LEMMA UnblockWriteInv == ASSUME ClientInv, NEW t \in Threads, UnblockWrite(t) PROVE ClientInv'
<1> USE DEF ClientInv
<1>1. StackOK
  BY DEF SharedInv, ChainInv
<1>2. /\ stack[t] # << >> /\ Last(stack[t]) = "unblock_write"
      /\ Goto(t, "process_write") \/ Return(t)
      /\ UNCHANGED <<rd, willread, cl, finalwrite, refcnt, data, ioVars, held,
                     destroyed, calls, clientVars>>
  BY DEF UnblockWrite, Running
<1>3. SharedInv'
  BY UnblockShared
<1>4. /\ Last(stack[t]) \in WritingFrames /\ Last(stack[t]) \notin StartFrames
      /\ Last(stack[t]) \notin DroppingFrames /\ Last(stack[t]) \notin OwnerFrames
      /\ "process_write" \in Frames /\ "process_write" \notin StartFrames
      /\ "process_write" \notin DroppingFrames /\ "process_write" \notin OwnerFrames
      /\ "io_destroy" \notin StartFrames /\ "io_destroy" \notin DroppingFrames
      /\ "io_destroy" \notin OwnerFrames
  BY <1>2, FrameNames DEF WritingFrames, DroppingFrames, OwnerFrames, StartFrames
<1>5. Places(StartFrames)' = Places(StartFrames)
  BY <1>1, <1>2, <1>4, GotoKind, LeaveApart
<1>6. Places(DroppingFrames)' = Places(DroppingFrames)
  BY <1>1, <1>2, <1>4, GotoKind, LeaveApart
<1>7. Places(OwnerFrames)' = Places(OwnerFrames)
  BY <1>1, <1>2, <1>4, GotoKind, LeaveApart
<1>8. Top(t) \in Places(WritingFrames)
  BY <1>1, <1>2, <1>4, TopPlace
<1>9. conn = "done"
  BY <1>8 DEF Connection
<1>10. Connection'
  BY <1>2, <1>5, <1>9 DEF Connection, Alone, clientVars
<1>11. Counted'
  BY <1>2, <1>6, <1>7, SameCounted DEF clientVars
<1> QED
  BY <1>3, <1>10, <1>11

-----------------------------------------------------------------------------
(* The invariant holds in every state of the client.                       *)

LEMMA ClientInitInv == ClientInit => ClientInv
<1> SUFFICES ASSUME ClientInit PROVE ClientInv
  OBVIOUS
<1>1. stack = [t \in Threads |-> << >>] /\ Acc \in Threads
  BY DEF ClientInit, Threads
<1>2. StackOK
  BY <1>1 DEF StackOK
<1>3. \A fs : Places(fs) = {}
  BY <1>1, <1>2, PlacesDef
<1>4. StatusOK
  <2>1. calls \in 0..MaxCalls
    BY BoundsAssumption DEF ClientInit
  <2>2. /\ rd \in 0..2 /\ wr \in 0..2 /\ cl \in {0, 1, 3}
        /\ refcnt \in Int /\ rop \in Ops /\ wop \in Ops /\ held \subseteq Threads
    BY <1>1 DEF ClientInit, Ops
  <2>3. /\ willread \in BOOLEAN /\ finalwrite \in BOOLEAN /\ blockwrite \in BOOLEAN
        /\ sock \in BOOLEAN /\ destroyed \in BOOLEAN
    BY Zenon DEF ClientInit
  <2> QED
    BY <2>1, <2>2, <2>3 DEF StatusOK
<1>5. DataOK
  BY DEF ClientInit, DataOK
<1>6. OneChainEach
  BY <1>3 DEF ClientInit, OneChainEach, OneChain
<1>7. NothingForgotten
  BY DEF ClientInit, NothingForgotten
<1>8. DataInv
  BY NoData DEF ClientInit
<1>9. SharedInv
  BY <1>2, <1>4, <1>5, <1>6, <1>7, <1>8 DEF SharedInv, ChainInv
<1>10. Connection
  BY <1>3 DEF ClientInit, Connection, Alone
<1>11. Counted
  <2>1. Cardinality({Acc}) = 1
    BY FS_Singleton
  <2>2. owned \in BOOLEAN
    BY Zenon DEF ClientInit
  <2> QED
    BY <1>3, <2>1, <2>2 DEF ClientInit, Counted, Alone, Dropping
<1> QED
  BY <1>9, <1>10, <1>11 DEF ClientInv

LEMMA ClientNextInv ==
  ASSUME ClientInv, [ClientNext]_<<vars, clientVars>>
  PROVE  ClientInv'
<1>1. CASE ClientNext
  <2>1. ASSUME NEW t \in Threads, SharedStep(t) \/ SharedApi(t) \/ ClientStep(t)
        PROVE  ClientInv'
    <3>1. CASE SharedStep(t) \/ SharedApi(t)
      BY <3>1, SharedClient
    <3>2. CASE ClientStep(t)
      BY <3>2, AsyncConnectInv, ClientUnrefInv, ConnectErrorInv, ConnectUnrefInv,
         UnblockWriteInv DEF ClientStep
    <3> QED
      BY <2>1, <3>1, <3>2
  <2>2. CASE SharedCompletion
    <3>1. Io \in Threads
      BY DEF Threads
    <3> QED
      BY <2>2, <3>1, SharedClient
  <2> QED
    BY <1>1, <2>1, <2>2, ClientStartInv, ClientDestructorInv, ConnectSucceedsInv, ConnectFailsInv
       DEF ClientNext
<1>2. CASE UNCHANGED <<vars, clientVars>>
  <2>1. SharedInv'
    BY <1>2, StutterShared DEF ClientInv
  <2>2. UNCHANGED <<stack, held, refcnt, wop, blockwrite, healthy, conn, owned>>
    BY <1>2 DEF vars, status, ioVars, clientVars
  <2>3. \A fs : Places(fs)' = Places(fs)
    BY <2>2 DEF Places
  <2> QED
    BY <2>1, <2>2, <2>3, SameConnection, SameCounted DEF ClientInv
<1> QED
  BY <1>1, <1>2

\* The controller under a client: its status bits, chains, call stacks and data
\* agree, with the connect operation and the count of references too, whenever
\* the connection is made or refused and whenever the owner starts or deletes
\* the client.
THEOREM ClientInvariance == ClientSpec => []ClientInv
BY ClientInitInv, ClientNextInv, PTL DEF ClientSpec

-----------------------------------------------------------------------------
(* What follows from it.                                                   *)

\* At most one read and one write chain run on a client, before it connected,
\* through unblock_write and after.
THEOREM ClientChainsAreSingle == ClientSpec => []OneChainEach
<1>1. ClientInv => OneChainEach
  BY DEF ClientInv, SharedInv, ChainInv
<1> QED
  BY <1>1, ClientInvariance, PTL

\* What was written before and after the connection was made is carried in order.
THEOREM ClientSendsInOrder == ClientSpec => []SentInOrder
<1>1. ClientInv => SentInOrder
  BY DEF ClientInv, SharedInv, DataInv
<1> QED
  BY <1>1, ClientInvariance, PTL

\* Cached data has a writer or unblock_write to come, a wanted read a reader.
THEOREM ClientForgetsNothing == ClientSpec => []NothingForgotten
<1>1. ClientInv => NothingForgotten
  BY DEF ClientInv, SharedInv
<1> QED
  BY <1>1, ClientInvariance, PTL

\* io_write never runs, and nothing is handed to it, before the client connected.
THEOREM WritesWait == ClientSpec => []WritesWaitForConnect
<1>1. ClientInv => WritesWaitForConnect
  BY DEF ClientInv, SharedInv, DataInv, Connection, WritesWaitForConnect
<1> QED
  BY <1>1, ClientInvariance, PTL

\* refcnt_ counts the holders, and one for the constructor until handle_connect or
\* the cancellation drops it: it is never dropped twice and never kept.
THEOREM ReferencesAreExact == ClientSpec => []ReferencesExact
<1>1. ASSUME ClientInv PROVE ReferencesExact
  <2>1. StackOK
    BY <1>1 DEF ClientInv, SharedInv, ChainInv
  <2>2. Dropping <=> \E t \in Threads : \E i \in DOMAIN stack[t] :
                       stack[t][i] \in {"handle_open", "unref", "unref_connect"}
    BY <2>1, PlacesDef DEF Dropping, DroppingFrames
  <2>3. refcnt = Cardinality(held)
                   + (IF healthy \in {"init", "conning"} \/ Dropping THEN 1 ELSE 0)
    BY <1>1 DEF ClientInv, Counted
  <2> QED
    BY <2>2, <2>3 DEF ReferencesExact
<1> QED
  BY <1>1, ClientInvariance, PTL

\* A side of a client's connection that failed stays failed, and so does a closed
\* one: unblock_write and handle_connect revive nothing.
THEOREM ClientFailureIsFinal == ClientSpec => FailedForGood
<1>1. ASSUME ClientInv, ClientNext PROVE Stays
  <2>1. ChainInv
    BY <1>1 DEF ClientInv, SharedInv
  <2>2. ASSUME NEW t \in Threads, ClientStep(t) PROVE Stays
    BY <2>2 DEF Stays, ClientStep, AsyncConnect, ClientUnref, ConnectError, ConnectUnref,
       UnblockWrite, status
  <2>3. CASE ClientStart \/ ClientDestructor \/ ConnectSucceeds \/ ConnectFails
    BY <2>3 DEF Stays, ClientStart, ClientDestructor, ConnectSucceeds, ConnectFails, status
  <2>4. SharedCompletion => Completion
    BY DEF SharedCompletion, Completion
  <2> QED
    BY <1>1, <2>1, <2>2, <2>3, <2>4, ApiStays, StepStays, CompletionStays
       DEF ClientNext, SharedStep, SharedApi
<1>2. UNCHANGED <<vars, clientVars>> => UNCHANGED status
  BY DEF vars, status
<1>3. ClientInv /\ [ClientNext]_<<vars, clientVars>> => [Stays]_status
  BY <1>1, <1>2
<1> QED
  BY <1>3, ClientInvariance, PTL DEF ClientSpec, FailedForGood, Stays


-----------------------------------------------------------------------------
(* The lifetime of a client: whoever is inside has a claim on it, but for a *)
(* handle_connect before its unblock_write.                                *)

\* What keeps the worker while t is inside: a reference, its part of a chain,
\* or the reference of the constructor that it is going to drop.
Claiming(t) ==
  /\ stack[t] # << >>
  /\ \/ t \in held
     \/ t = Io /\ stack[t][1] \in ChainFrames \cup {"unref_connect"}
     \/ /\ t = Io /\ Len(stack[t]) > 1
        /\ stack[t][1] = "unblock_write" /\ stack[t][2] \in {"handle_open", "unref"}

Entitled(t) == Outside(t) \/ BeforeUnblock(t) \/ Claiming(t)

\* The owner that deletes the client does nothing else.
OwnerLeaves == Places(OwnerFrames) # {} => stack[Acc] = <<"unref_client">>

Lifespan == (\A t \in Threads : Entitled(t)) /\ OwnerLeaves

LEMMA ClaimCounts ==
  (ClientInv /\ \E t \in Threads : Claiming(t)) => ~Reclaimable
<1> SUFFICES ASSUME ClientInv, NEW t \in Threads, Claiming(t), Reclaimable PROVE FALSE
  OBVIOUS
<1> USE DEF ClientInv, SharedInv, ChainInv, Counted
<1>1. StackOK /\ StatusOK /\ OneChainEach
  OBVIOUS
<1>2. Cardinality(held) \in Nat
  BY HeldNat
<1>3. Cardinality(held) = 0 /\ ~Dropping
  BY <1>2 DEF Reclaimable
<1>4. held = {}
  BY <1>1, <1>3, HeldEmpty
<1>5. 1 \in DOMAIN stack[t] /\ (Len(stack[t]) > 1 => 2 \in DOMAIN stack[t])
  BY <1>1 DEF StackOK, Claiming
<1>6. Places(DroppingFrames) = {} /\ Places(ReadFrames) = {} /\ Places(WriteFrames) = {}
  BY <1>1, <1>3 DEF Dropping, Reclaimable, OneChainEach, OneChain
<1>7. \A i \in DOMAIN stack[t] : stack[t][i] \notin DroppingFrames \cup ChainFrames
  BY <1>1, <1>6, PlacesDef DEF ChainFrames
<1> QED
  BY <1>4, <1>5, <1>7 DEF Claiming, DroppingFrames

LEMMA ClaimCountsNext ==
  ((ClientInv /\ \E t \in Threads : Claiming(t)) => ~Reclaimable)'
BY ClaimCounts, PTL

\* What is inside of a thread is still there in the next state.
LEMMA ClaimStays ==
  ASSUME NEW t \in Threads, Claiming(t), stack'[t] # << >>, t \in held => t \in held',
         stack'[t][1] = stack[t][1],
         Len(stack[t]) > 1 => Len(stack'[t]) > 1 /\ stack'[t][2] = stack[t][2]
  PROVE  Claiming(t)'
BY DEF Claiming

\* A thread that the step does not move, and that keeps its reference if it runs.
LEMMA UnmovedEntitled ==
  ASSUME NEW u \in Threads, Entitled(u), stack'[u] = stack[u],
         u \in held => u \in held' \/ stack[u] = << >>
  PROVE  Entitled(u)'
<1>1. Outside(u) => Outside(u)'
  BY DEF Outside
<1>2. BeforeUnblock(u) => BeforeUnblock(u)'
  BY DEF BeforeUnblock
<1>3. Claiming(u) => Claiming(u)'
  BY DEF Claiming
<1> QED
  BY <1>1, <1>2, <1>3 DEF Entitled

\* A running frame that is not io_destroy, nor unblock_write, has a claim.
LEMMA RunningClaims ==
  ASSUME StackOK, NEW t \in Threads, Entitled(t), stack[t] # << >>,
         Last(stack[t]) \notin {"io_destroy", "unblock_write"}
  PROVE  Claiming(t)
<1>1. stack[t] \in Seq(Frames)
  BY DEF StackOK
<1>2. ~Outside(t)
  BY DEF Outside, Last
<1>3. ~BeforeUnblock(t)
  BY DEF BeforeUnblock, Last
<1> QED
  BY <1>2, <1>3 DEF Entitled

LEMMA ReturnEntitled ==
  ASSUME StackOK, NEW t \in Threads, Entitled(t), stack[t] # << >>, Return(t),
         t \in held => t \in held' \/ Len(stack[t]) = 1
  PROVE  Entitled(t)'
<1> DEFINE n == Len(stack[t])
<1>1. n \in Nat \ {0} /\ DOMAIN stack[t] = 1..n
  BY SMTT(30) DEF StackOK
<1>2. /\ stack'[t] \in Seq(Frames) /\ Len(stack'[t]) = n - 1
      /\ DOMAIN stack'[t] = 1..n \ {n}
      /\ \A i \in DOMAIN stack'[t] : stack'[t][i] = stack[t][i]
  BY <1>1, ReturnStack DEF StackOK
<1> HIDE DEF n
<1>3. CASE n = 1
  <2>1. stack'[t] = << >>
    BY <1>2, <1>3
  <2> QED
    BY <2>1 DEF Entitled, Outside
<1>4. CASE n # 1
  <2>1. n - 1 > 0 /\ stack'[t] # << >> /\ stack'[t][1] = stack[t][1]
    BY <1>1, <1>2, <1>4
  <2>2. CASE Outside(t)
    BY <1>1, <1>4, <2>2 DEF Outside, n
  <2>3. CASE BeforeUnblock(t)
    <3>1. t = Io /\ stack[t][1] = "unblock_write" /\ n = 2
      BY <1>1, <1>4, <2>3 DEF BeforeUnblock, n
    <3>2. stack'[t] = <<"unblock_write">>
      BY <1>2, <2>1, <3>1
    <3> QED
      BY <3>1, <3>2 DEF Entitled, BeforeUnblock
  <2>4. CASE Claiming(t) /\ n = 2 /\ stack[t][1] = "unblock_write" /\ t = Io
    <3>1. stack'[t] = <<"unblock_write">>
      BY <1>2, <2>1, <2>4
    <3> QED
      BY <2>4, <3>1 DEF Entitled, BeforeUnblock
  <2>5. CASE Claiming(t) /\ n = 2 /\ ~(stack[t][1] = "unblock_write" /\ t = Io)
    <3>1. Claiming(t)'
      BY <1>4, <2>1, <2>5 DEF Claiming, n
    <3> QED
      BY <3>1 DEF Entitled
  <2>6. CASE Claiming(t) /\ n > 2
    <3>1. Len(stack'[t]) > 1 /\ stack'[t][2] = stack[t][2]
      BY <1>1, <1>2, <2>6
    <3>2. Claiming(t)'
      BY <1>4, <2>1, <2>6, <3>1, ClaimStays DEF n
    <3> QED
      BY <3>2 DEF Entitled
  <2> QED
    BY <1>1, <1>4, <2>2, <2>3, <2>4, <2>5, <2>6 DEF Entitled
<1> QED
  BY <1>3, <1>4

\* A frame becomes another one of the same claim.
LEMMA GotoEntitled ==
  ASSUME StackOK, NEW t \in Threads, Entitled(t), stack[t] # << >>, NEW f \in Frames, Goto(t, f),
         held' = held, Last(stack[t]) \notin {"io_destroy", "unref", "unref_connect"},
         Last(stack[t]) \in ChainFrames \cup {"unblock_write"} => f \in ChainFrames,
         Last(stack[t]) = "handle_open" => f = "unref"
  PROVE  Entitled(t)'
<1> DEFINE n == Len(stack[t])
<1>1. n \in Nat \ {0} /\ DOMAIN stack[t] = 1..n /\ Last(stack[t]) = stack[t][n]
  BY SMTT(30) DEF StackOK, Last
<1>2. /\ stack'[t] \in Seq(Frames) /\ Len(stack'[t]) = n /\ stack'[t][n] = f
      /\ \A i \in 1..n : i # n => stack'[t][i] = stack[t][i]
  BY <1>1, GotoStack DEF StackOK
<1>3. ~Outside(t) /\ (BeforeUnblock(t) => t = Io /\ n = 1 /\ Last(stack[t]) = "unblock_write")
  <2>1. ~Outside(t)
    BY DEF Outside, Last
  <2>2. ASSUME BeforeUnblock(t) PROVE t = Io /\ n = 1 /\ Last(stack[t]) = "unblock_write"
    <3>1. t = Io /\ stack[t] = <<"unblock_write">>
      BY <2>2 DEF BeforeUnblock, Last
    <3> QED
      BY <3>1 DEF Last
  <2> QED
    BY <2>1, <2>2
<1> HIDE DEF n
<1>4. Len(stack[t]) = n
  BY DEF n
<1>5. stack'[t] # << >>
  BY <1>1, <1>2
<1>6. CASE t \in held
  BY <1>5, <1>6 DEF Entitled, Claiming
<1>7. CASE t \notin held /\ n = 1
  <2>1. t = Io /\ stack[t][n] \in ChainFrames \cup {"unblock_write"}
    BY <1>1, <1>3, <1>4, <1>7 DEF Entitled, Claiming
  <2> QED
    BY <1>1, <1>2, <1>5, <1>7, <2>1 DEF Entitled, Claiming
<1>8. CASE t \notin held /\ n = 2
  <2>1. Claiming(t) /\ stack'[t][1] = stack[t][1] /\ t = Io
    BY <1>2, <1>3, <1>8 DEF Entitled, Claiming
  <2>2. stack[t][2] \in {"handle_open", "unref"} => stack'[t][2] = "unref"
    BY <1>1, <1>2, <1>8
  <2> QED
    BY <1>2, <1>4, <1>5, <1>8, <2>1, <2>2 DEF Entitled, Claiming
<1>9. CASE t \notin held /\ n > 2
  <2>1. Claiming(t) /\ stack'[t][1] = stack[t][1] /\ stack'[t][2] = stack[t][2]
    BY <1>1, <1>2, <1>3, <1>9 DEF Entitled
  <2> QED
    BY <1>2, <1>4, <1>5, <1>9, <2>1, ClaimStays DEF Entitled
<1> QED
  BY <1>1, <1>6, <1>7, <1>8, <1>9

\* The running frame ends, and the worker is destroyed if nobody claims it.
LEMMA PrepareEntitled ==
  ASSUME StackOK, NEW t \in Threads, Entitled(t), stack[t] # << >>, PrepareDestroy(t),
         Last(stack[t]) # "io_destroy", t \in held => t \in held' \/ Len(stack[t]) = 1,
         ClientInv'
  PROVE  Entitled(t)'
<1>1. CASE Return(t)
  BY <1>1, ReturnEntitled
<1>2. CASE Goto(t, "io_destroy") /\ Reclaimable'
  <2> DEFINE n == Len(stack[t])
  <2>1. n \in Nat \ {0} /\ DOMAIN stack[t] = 1..n /\ "io_destroy" \in Frames
    BY FrameNames, SMTT(30) DEF StackOK
  <2>2. /\ stack'[t] \in Seq(Frames) /\ Len(stack'[t]) = n /\ stack'[t][n] = "io_destroy"
        /\ \A i \in 1..n : i # n => stack'[t][i] = stack[t][i]
    BY <1>2, <2>1, GotoStack DEF StackOK
  <2>3. ~Claiming(t)'
    BY <1>2, ClaimCountsNext DEF Threads
  <2> HIDE DEF n
  <2>4. Len(stack[t]) = n
    BY DEF n
  <2>5. CASE n = 1
    <3>1. stack'[t] = <<"io_destroy">>
      BY <2>2, <2>5
    <3> QED
      BY <3>1 DEF Entitled, Outside
  <2>6. CASE n # 1
    <3>1. stack'[t] # << >> /\ stack'[t][1] = stack[t][1]
      BY <2>1, <2>2, <2>6
    <3>2. Claiming(t) /\ t \notin held
      <4>1. ~Outside(t) /\ (BeforeUnblock(t) => n = 1)
        <5>1. ~Outside(t)
          BY DEF Outside, Last
        <5>2. ASSUME BeforeUnblock(t) PROVE stack[t] = <<"unblock_write">>
          BY <5>2 DEF BeforeUnblock, Last
        <5> QED
          BY <5>1, <5>2, <2>4
      <4>2. Claiming(t)
        BY <2>6, <4>1 DEF Entitled
      <4> QED
        BY <2>3, <2>4, <2>6, <3>1, <4>2 DEF Claiming
    <3>3. n = 2 /\ t = Io /\ stack[t][1] = "unblock_write"
      <4>1. CASE n = 2
        BY <2>2, <2>3, <2>4, <3>1, <3>2, <4>1 DEF Claiming
      <4>2. CASE n > 2
        <5>1. stack'[t][2] = stack[t][2] /\ Len(stack'[t]) > 1
          BY <2>1, <2>2, <4>2
        <5> QED
          BY <2>3, <3>1, <3>2, <5>1, ClaimStays
      <4> QED
        BY <2>1, <2>6, <4>1, <4>2
    <3>4. stack'[t] = <<"unblock_write", "io_destroy">>
      BY <2>2, <3>1, <3>3
    <3> QED
      BY <3>3, <3>4 DEF Entitled, BeforeUnblock
  <2> QED
    BY <2>5, <2>6
<1> QED
  BY <1>1, <1>2 DEF PrepareDestroy

\* A call from inside, or by the thread of a holder.
LEMMA CallEntitled ==
  ASSUME StackOK, NEW t \in Threads, Entitled(t), InApp(t), NEW f \in Frames, Call(t, f),
         t \in held => t \in held'
  PROVE  Claiming(t)'
<1>1. /\ Len(stack'[t]) = Len(stack[t]) + 1 /\ stack'[t] \in Seq(Frames)
      /\ \A i \in DOMAIN stack[t] : stack'[t][i] = stack[t][i]
      /\ DOMAIN stack[t] = 1..Len(stack[t]) /\ Len(stack[t]) \in Nat
  BY CallStack DEF StackOK
<1>2. stack'[t] # << >>
  BY <1>1
<1>3. CASE stack[t] = << >>
  BY <1>2, <1>3 DEF InApp, Claiming
<1>4. CASE stack[t] # << >>
  <2>1. Last(stack[t]) \notin {"io_destroy", "unblock_write"}
    BY <1>4 DEF InApp, AppFrames, Continuation
  <2>2. Claiming(t)
    BY <1>4, <2>1, RunningClaims
  <2>3. stack'[t][1] = stack[t][1]
    BY <1>1, <1>4
  <2>4. Len(stack[t]) > 1 => Len(stack'[t]) > 1 /\ stack'[t][2] = stack[t][2]
    BY <1>1
  <2> QED
    BY <1>2, <2>2, <2>3, <2>4, ClaimStays
<1> QED
  BY <1>3, <1>4

\* close() calls the handler: its frame is replaced and another one called.
LEMMA GotoCallEntitled ==
  ASSUME StackOK, NEW t \in Threads, Entitled(t), stack[t] # << >>, Last(stack[t]) = "closed",
         stack' = [stack EXCEPT ![t] =
                     Append(Append(Front(stack[t]), "closed2"), "handle_error_r")],
         held' = held
  PROVE  Claiming(t)'
<1> DEFINE n == Len(stack[t])
           r == Append(Front(stack[t]), "closed2")
<1>1. /\ stack[t] \in Seq(Frames) /\ n \in Nat \ {0} /\ DOMAIN stack[t] = 1..n
      /\ Last(stack[t]) = stack[t][n] /\ {"closed2", "handle_error_r"} \subseteq Frames
  BY FrameNames DEF StackOK, Last
<1>2. /\ r \in Seq(Frames) /\ Len(r) = n /\ DOMAIN r = 1..n
      /\ \A i \in 1..n : i # n => r[i] = stack[t][i]
  BY <1>1, SeqReplace
<1>3. stack'[t] = Append(r, "handle_error_r")
  BY DEF StackOK
<1> HIDE DEF n, r
<1>4. /\ stack'[t] # << >> /\ Len(stack'[t]) = n + 1
      /\ \A i \in 1..n : i # n => stack'[t][i] = stack[t][i]
  BY <1>1, <1>2, <1>3, SMTT(30)
<1>5. Claiming(t) /\ Len(stack[t]) = n
  BY RunningClaims DEF n
<1>6. CASE t \in held
  BY <1>4, <1>6 DEF Claiming
<1>7. CASE t \notin held
  <2>1. /\ stack[t][n] \notin ChainFrames \cup {"unref_connect", "unblock_write", "handle_open", "unref"}
    BY <1>1 DEF ChainFrames, ReadFrames, WriteFrames
  <2>2. n # 1
    BY <1>5, <1>7, <2>1 DEF Claiming
  <2>3. stack'[t][1] = stack[t][1]
    BY <1>1, <1>4, <2>2
  <2>4. CASE n = 2
    BY <1>4, <1>5, <1>7, <2>1, <2>3, <2>4 DEF Claiming
  <2>5. CASE n > 2
    <3>1. stack'[t][2] = stack[t][2] /\ Len(stack'[t]) > 1
      BY <1>1, <1>4, <2>5
    <3> QED
      BY <1>4, <1>5, <1>7, <2>3, <3>1, ClaimStays
  <2> QED
    BY <1>1, <2>2, <2>4, <2>5
<1> QED
  BY <1>6, <1>7

-----------------------------------------------------------------------------
(* The steps of the controller under a client.                             *)

LEMMA Unmoved ==
  ASSUME StackOK, NEW t \in Threads, Step(t) \/ Api(t) \/ (Completion /\ t = Io)
  PROVE  \A u \in Threads \ {t} : stack'[u] = stack[u]
<1>1. CASE Step(t)
  BY <1>1, StepShape DEF StackOK, Goto, Return, PrepareDestroy, InitUnref
<1>2. CASE Api(t)
  BY <1>2, ApiShape DEF StackOK, Call
<1>3. CASE Completion /\ t = Io
  BY <1>3, CompletionShape DEF StackOK, Call
<1> QED
  BY <1>1, <1>2, <1>3

\* References are given up for idle threads only.
LEMMA OnlyIdleLose ==
  ASSUME NEW t \in Threads, Step(t) \/ Api(t) \/ Completion
  PROVE  /\ Step(t) \/ Completion => held' = held
         /\ \A u \in held : u \in held' \/ (stack[u] = << >> /\ Unref(t, u))
<1>1. Step(t) => UNCHANGED held
  BY DEF Step, HandlerReturns, InitUnref, IoClose, Closed, ClosedAgain, ProcessRead, ProcessWrite,
     Notified, ReadError, WriteError, IoDestroy
<1>2. Completion => UNCHANGED held
  BY DEF Completion, ReadSucceeds, ReadFails, WriteSucceeds, WriteFails
<1>3. Api(t) => UNCHANGED held \/ \E u \in Users : Ref(t, u) \/ Unref(t, u)
  BY DEF Api, Write, TriggerRead, StopRead, FinalWrite, Close
<1>4. \A u : Ref(t, u) => held \subseteq held'
  BY DEF Ref
<1>5. \A u : Unref(t, u) => held' = held \ {u} /\ stack[u] = << >>
  BY DEF Unref
<1> QED
  BY <1>1, <1>2, <1>3, <1>4, <1>5

LEMMA ApiInside == ASSUME NEW t \in Threads, Api(t) PROVE InApp(t)
BY DEF Api, Write, TriggerRead, StopRead, FinalWrite, Close, Ref, Unref

LEMMA DestroyReturns ==
  ASSUME NEW t \in Threads, Step(t), Last(stack[t]) \in {"io_destroy", "unblock_write"}
  PROVE  IoDestroy(t) /\ Return(t)
<1>1. ~HandlerReturns(t)
  BY DEF HandlerReturns, AppFrames, Continuation
<1>2. IoDestroy(t)
  BY <1>1 DEF Step, InitUnref, IoClose, Closed, ClosedAgain, ProcessRead, ProcessWrite, Notified,
     ReadError, WriteError, Running
<1> QED
  BY <1>2 DEF IoDestroy

LEMMA SharedOwner ==
  ASSUME SharedInv, OwnerLeaves, NEW t \in Threads, Step(t) \/ Api(t) \/ (Completion /\ t = Io)
  PROVE  OwnerLeaves'
<1>1. StackOK /\ Acc \in Threads
  BY DEF SharedInv, ChainInv, Threads
<1>2. Places(OwnerFrames)' = Places(OwnerFrames)
  <2>1. CASE InitUnref(t)
    <3>1. stack[t] # << >> /\ Last(stack[t]) = "unref" /\ PrepareDestroy(t)
      BY <2>1 DEF InitUnref, Running
    <3>2. "unref" \notin OwnerFrames /\ "io_destroy" \notin OwnerFrames
      BY DEF OwnerFrames
    <3> QED
      BY <1>1, <3>1, <3>2, LeaveApart
  <2>2. Private(OwnerFrames)
    BY DEF Private
  <2> QED
    BY <1>1, <2>1, <2>2, StepApart, CallsApart
<1>3. ASSUME stack[Acc] = <<"unref_client">> PROVE t # Acc
  <2>1. stack[Acc] # << >> /\ Last(stack[Acc]) = "unref_client"
    BY <1>3 DEF Last
  <2>2. "unref_client" \notin AppFrames
    BY DEF AppFrames, Continuation
  <2>3. ~Step(Acc)
    BY <1>1, <2>1, <2>2, StepShape
  <2>4. ~Api(Acc)
    BY <1>1, <2>1, <2>2, ApiInside DEF InApp
  <2>5. Acc # Io
    BY ThreadsAssumption
  <2> QED
    BY <2>3, <2>4, <2>5
<1>4. stack[Acc] = <<"unref_client">> => stack'[Acc] = <<"unref_client">>
  BY <1>1, <1>3, Unmoved
<1> QED
  BY <1>2, <1>4 DEF OwnerLeaves

LEMMA StepEntitled ==
  ASSUME SharedInv, NEW t \in Threads, Entitled(t), Step(t), ClientInv'
  PROVE  Entitled(t)'
<1> DEFINE l == Last(stack[t])
<1>1. StackOK /\ stack[t] # << >> /\ held' = held
  BY StepShape, OnlyIdleLose DEF SharedInv, ChainInv
<1>2. CASE l \in AppFrames /\ Goto(t, Continuation[l])
  <2> DEFINE f == Continuation[l]
  <2>1. /\ f \in Frames /\ Goto(t, f)
        /\ l \notin {"io_destroy", "unref", "unref_connect", "unblock_write"}
        /\ l \in ChainFrames => f \in ChainFrames
        /\ l = "handle_open" => f = "unref"
    <3>1. l \notin {"io_destroy", "unref", "unref_connect", "unblock_write"}
      BY <1>2 DEF AppFrames, Continuation
    <3>2. l = "handle_open" => f = "unref"
      BY DEF Continuation
    <3> QED
      BY <1>2, <3>1, <3>2, ContinuationKind DEF ChainFrames
  <2> HIDE DEF f
  <2> QED
    BY <1>1, <2>1, GotoEntitled
<1>3. CASE Return(t)
  BY <1>1, <1>3, ReturnEntitled
<1>4. CASE PrepareDestroy(t) /\ l # "io_destroy"
  BY <1>1, <1>4, PrepareEntitled
<1>5. CASE l = "io_close" /\ Goto(t, "handle_close")
  <2>1. "io_close" \notin ChainFrames
    BY DEF ChainFrames, ReadFrames, WriteFrames
  <2> QED
    BY <1>1, <1>5, <2>1, GotoEntitled, FrameNames
<1>6. ASSUME NEW f \in {"filter_notify", "handle_final_w"}, Goto(t, f),
             l \in {"process_write", "notified"}
      PROVE  Entitled(t)'
  <2>1. f \in ChainFrames /\ f \in Frames
    BY FrameNames DEF ChainFrames, WriteFrames
  <2> QED
    BY <1>1, <1>6, <2>1, GotoEntitled
<1>7. CASE /\ l = "closed"
           /\ stack' = [stack EXCEPT ![t] =
                          Append(Append(Front(stack[t]), "closed2"), "handle_error_r")]
  BY <1>1, <1>7, GotoCallEntitled DEF Entitled
<1>8. InitUnref(t) /\ l = "unref" => PrepareDestroy(t)
  BY DEF InitUnref
<1> QED
  BY <1>2, <1>3, <1>4, <1>5, <1>6, <1>7, <1>8, StepShape, DestroyReturns

LEMMA ApiEntitled ==
  ASSUME SharedInv, NEW t \in Threads, Entitled(t), Api(t)
  PROVE  Entitled(t)'
<1>1. StackOK /\ InApp(t)
  BY ApiInside DEF SharedInv, ChainInv
<1>2. t \in held => t \in held' \/ (stack[t] = << >> /\ Unref(t, t))
  BY OnlyIdleLose
<1>3. CASE stack' = stack
  BY <1>2, <1>3, UnmovedEntitled
<1>4. ASSUME NEW f \in {"handle_final_w", "io_close", "io_destroy"}, Call(t, f)
      PROVE  Entitled(t)'
  <2>1. f \in Frames
    BY FrameNames
  <2>2. CASE t \in held => t \in held'
    BY <1>1, <1>4, <2>1, <2>2, CallEntitled DEF Entitled
  <2>3. CASE stack[t] = << >> /\ Unref(t, t)
    <3>1. stack' = stack \/ Call(t, "io_destroy")
      BY <2>3 DEF Unref
    <3>2. stack'[t] = << >> \/ stack'[t] = <<"io_destroy">>
      BY <1>1, <2>3, <3>1 DEF Call, StackOK
    <3> QED
      BY <3>2 DEF Entitled, Outside
  <2> QED
    BY <1>2, <2>2, <2>3
<1> QED
  BY <1>3, <1>4, ApiShape

LEMMA CompletionEntitled ==
  ASSUME SharedInv, Completion
  PROVE  Entitled(Io)'
<1>1. StackOK /\ Io \in Threads
  BY DEF SharedInv, ChainInv, Threads
<1>2. stack[Io] = << >>
  BY DEF Completion, ReadSucceeds, ReadFails, WriteSucceeds, WriteFails
<1>3. PICK f \in {"handle_read", "handle_error_r", "process_write", "handle_error_w"} : Call(Io, f)
  BY CompletionShape
<1>4. stack'[Io] = <<f>> /\ f \in ChainFrames
  BY <1>1, <1>2, <1>3 DEF Call, StackOK, ChainFrames, ReadFrames, WriteFrames
<1> QED
  BY <1>4 DEF Entitled, Claiming

LEMMA SharedLifespan ==
  ASSUME ClientInv, Lifespan, ClientInv', NEW t \in Threads,
         Step(t) \/ Api(t) \/ (Completion /\ t = Io)
  PROVE  Lifespan'
<1>1. SharedInv /\ StackOK
  BY DEF ClientInv, SharedInv, ChainInv
<1>2. OwnerLeaves'
  BY <1>1, SharedOwner DEF Lifespan
<1>3. ASSUME NEW u \in Threads PROVE Entitled(u)'
  <2>1. CASE u # t
    <3>1. stack'[u] = stack[u] /\ (u \in held => u \in held' \/ stack[u] = << >>)
      BY <1>1, <2>1, Unmoved, OnlyIdleLose
    <3> QED
      BY <3>1, UnmovedEntitled DEF Lifespan
  <2>2. CASE u = t
    BY <1>1, <2>2, StepEntitled, ApiEntitled, CompletionEntitled DEF Lifespan
  <2> QED
    BY <2>1, <2>2
<1> QED
  BY <1>2, <1>3 DEF Lifespan

-----------------------------------------------------------------------------
(* The steps of the client itself.                                         *)

LEMMA OwnStepLifespan ==
  ASSUME ClientInv, Lifespan, ClientInv', NEW t \in Threads, stack[t] # << >>, held' = held,
         Last(stack[t]) \in {"async_connect", "error_c", "unref_connect", "unblock_write"},
         \/ Return(t) \/ PrepareDestroy(t)
         \/ Last(stack[t]) = "unblock_write" /\ Goto(t, "process_write")
  PROVE  Lifespan'
<1> DEFINE l == Last(stack[t])
<1>1. StackOK /\ Acc \in Threads
  BY DEF ClientInv, SharedInv, ChainInv, Threads
<1>2. /\ l \notin OwnerFrames /\ l # "io_destroy" /\ "io_destroy" \notin OwnerFrames
      /\ "process_write" \in Frames /\ "process_write" \notin OwnerFrames
      /\ "process_write" \in ChainFrames
  BY FrameNames DEF OwnerFrames, ChainFrames, WriteFrames
<1>3. Places(OwnerFrames)' = Places(OwnerFrames)
  BY <1>1, <1>2, GotoKind, LeaveApart
<1>4. \A u \in Threads \ {t} : stack'[u] = stack[u]
  BY <1>1 DEF StackOK, Goto, Return, PrepareDestroy
<1>5. stack[Acc] = <<"unref_client">> => t # Acc
  BY DEF Last
<1>6. OwnerLeaves'
  BY <1>1, <1>3, <1>4, <1>5 DEF Lifespan, OwnerLeaves
<1>7. Entitled(t)'
  <2>1. CASE Return(t)
    BY <1>1, <2>1, ReturnEntitled DEF Lifespan
  <2>2. CASE PrepareDestroy(t)
    BY <1>1, <1>2, <2>2, PrepareEntitled DEF Lifespan
  <2>3. CASE l = "unblock_write" /\ Goto(t, "process_write")
    BY <1>1, <1>2, <2>3, GotoEntitled DEF Lifespan
  <2> QED
    BY <2>1, <2>2, <2>3
<1>8. ASSUME NEW u \in Threads PROVE Entitled(u)'
  BY <1>4, <1>7, UnmovedEntitled DEF Lifespan
<1> QED
  BY <1>6, <1>8 DEF Lifespan

LEMMA ClientStepLifespan ==
  ASSUME ClientInv, Lifespan, ClientInv', NEW t \in Threads, ClientStep(t), ~ClientUnref(t)
  PROVE  Lifespan'
<1>1. CASE AsyncConnect(t)
  BY <1>1, OwnStepLifespan DEF AsyncConnect, Running
<1>2. CASE ConnectError(t)
  BY <1>2, OwnStepLifespan DEF ConnectError, Running
<1>3. CASE ConnectUnref(t)
  BY <1>3, OwnStepLifespan DEF ConnectUnref, Running
<1>4. CASE UnblockWrite(t)
  BY <1>4, OwnStepLifespan DEF UnblockWrite, Running
<1> QED
  BY <1>1, <1>2, <1>3, <1>4 DEF ClientStep

\* The owner drops its reference, and is gone whether it destroys or not.
LEMMA ClientUnrefLifespan ==
  ASSUME ClientInv, Lifespan, NEW t \in Threads, ClientUnref(t)
  PROVE  Lifespan'
<1>1. /\ StackOK /\ stack[t] # << >> /\ Last(stack[t]) = "unref_client" /\ PrepareDestroy(t)
      /\ held' = held \ {Acc} /\ Acc \in Threads
  BY DEF ClientInv, SharedInv, ChainInv, ClientUnref, Running, Threads
<1>2. "unref_client" \in OwnerFrames /\ "io_destroy" \notin OwnerFrames
  BY DEF OwnerFrames
<1>3. Top(t) \in Places(OwnerFrames)
  BY <1>1, <1>2, TopPlace
<1>4. stack[Acc] = <<"unref_client">>
  BY <1>3 DEF Lifespan, OwnerLeaves
<1>5. <<Acc, 1>> \in Places(OwnerFrames)
  BY <1>1, <1>2, <1>4, PlacesDef
<1>6. t = Acc
  BY <1>3, <1>5 DEF ClientInv, Counted, Alone, Top
<1>7. Places(OwnerFrames)' = {}
  BY <1>1, <1>2, <1>3, LeavePlaces DEF ClientInv, Counted, Alone
<1>8. stack'[Acc] = << >> \/ stack'[Acc] = <<"io_destroy">>
  <2>1. Front(stack[Acc]) = << >>
    BY <1>4 DEF Front
  <2> QED
    BY <1>1, <1>6, <2>1 DEF PrepareDestroy, Goto, Return, StackOK
<1>9. ASSUME NEW u \in Threads PROVE Entitled(u)'
  <2>1. CASE u = Acc
    BY <1>8, <2>1 DEF Entitled, Outside
  <2>2. CASE u # Acc
    <3>1. stack'[u] = stack[u] /\ (u \in held => u \in held')
      BY <1>1, <1>6, <2>2 DEF PrepareDestroy, Goto, Return, StackOK
    <3> QED
      BY <3>1, UnmovedEntitled DEF Lifespan
  <2> QED
    BY <2>1, <2>2
<1> QED
  BY <1>7, <1>9 DEF Lifespan, OwnerLeaves

\* The owner starts the client, or begins to delete it.
LEMMA OwnerCallsLifespan ==
  ASSUME ClientInv, Lifespan, ClientStart \/ ClientDestructor
  PROVE  Lifespan'
<1>1. /\ StackOK /\ stack[Acc] = << >> /\ Acc \in held /\ held' = held /\ Acc \in Threads
  BY DEF ClientInv, SharedInv, ChainInv, Counted, ClientStart, ClientDestructor, OwnerIdle, Threads
<1>2. PICK f \in {"async_connect", "unref_client"} :
        Call(Acc, f) /\ (f = "unref_client" \/ ClientStart)
  BY DEF ClientStart, ClientDestructor
<1>3. f \in Frames
  BY FrameNames
<1>4. stack'[Acc] = <<f>> /\ \A u \in Threads \ {Acc} : stack'[u] = stack[u]
  BY <1>1, <1>2 DEF Call, StackOK
<1>5. ASSUME NEW u \in Threads PROVE Entitled(u)'
  <2>1. CASE u = Acc
    BY <1>1, <1>4, <2>1 DEF Entitled, Claiming
  <2>2. CASE u # Acc
    BY <1>1, <1>4, <2>2, UnmovedEntitled DEF Lifespan
  <2> QED
    BY <2>1, <2>2
<1>6. OwnerLeaves'
  <2>1. CASE f = "unref_client"
    BY <1>4, <2>1 DEF OwnerLeaves
  <2>2. CASE f = "async_connect"
    <3>1. f \notin OwnerFrames
      BY <2>2 DEF OwnerFrames
    <3>2. Places(OwnerFrames) = {}
      BY <1>1 DEF Lifespan, OwnerLeaves
    <3> QED
      BY <1>1, <1>2, <1>3, <3>1, <3>2, CallApart DEF OwnerLeaves
  <2> QED
    BY <2>1, <2>2
<1> QED
  BY <1>5, <1>6 DEF Lifespan

\* handle_connect begins.
LEMMA ConnectLifespan ==
  ASSUME ClientInv, Lifespan, ConnectSucceeds \/ ConnectFails
  PROVE  Lifespan'
<1>1. /\ StackOK /\ stack[Io] = << >> /\ held' = held
      /\ Acc \in Threads /\ Io \in Threads /\ Acc # Io
  BY ThreadsAssumption DEF ClientInv, SharedInv, ChainInv, ConnectSucceeds, ConnectFails, Threads
<1>2. \/ stack' = [stack EXCEPT ![Io] = <<"unblock_write", "handle_open">>]
      \/ stack' = [stack EXCEPT ![Io] = <<"unref_connect", "handle_error_c">>]
  BY DEF ConnectSucceeds, ConnectFails
<1>3. {"unblock_write", "handle_open", "unref_connect", "handle_error_c"}
        \subseteq Frames \ OwnerFrames
  BY FrameNames DEF OwnerFrames
<1>4. Places(OwnerFrames)' = Places(OwnerFrames)
  BY <1>1, <1>2, <1>3, Pair
<1>5. /\ \A u \in Threads \ {Io} : stack'[u] = stack[u]
      /\ \/ stack'[Io] = <<"unblock_write", "handle_open">>
         \/ stack'[Io] = <<"unref_connect", "handle_error_c">>
  BY <1>1, <1>2 DEF StackOK
<1>6. ASSUME NEW u \in Threads PROVE Entitled(u)'
  <2>1. CASE u = Io
    BY <1>5, <2>1 DEF Entitled, Claiming
  <2>2. CASE u # Io
    BY <1>1, <1>5, <2>2, UnmovedEntitled DEF Lifespan
  <2> QED
    BY <2>1, <2>2
<1> QED
  BY <1>1, <1>4, <1>5, <1>6 DEF Lifespan, OwnerLeaves

LEMMA LifespanInit == ClientInit => Lifespan
<1> SUFFICES ASSUME ClientInit PROVE Lifespan
  OBVIOUS
<1>1. \A t \in Threads : stack[t] = << >>
  BY DEF ClientInit
<1>2. Places(OwnerFrames) = {}
  BY <1>1 DEF Places
<1> QED
  BY <1>1, <1>2 DEF Lifespan, Entitled, Outside, OwnerLeaves

LEMMA LifespanNext ==
  ASSUME ClientInv, Lifespan, [ClientNext]_<<vars, clientVars>>
  PROVE  Lifespan'
<1>1. ClientInv'
  BY ClientNextInv
<1>2. CASE ClientNext
  <2>1. SharedCompletion => Completion
    BY DEF SharedCompletion, Completion
  <2>2. Io \in Threads
    BY DEF Threads
  <2> QED
    BY <1>1, <1>2, <2>1, <2>2, SharedLifespan, ClientStepLifespan, ClientUnrefLifespan,
       OwnerCallsLifespan, ConnectLifespan DEF ClientNext, SharedStep, SharedApi
<1>3. CASE UNCHANGED <<vars, clientVars>>
  <2>1. UNCHANGED <<stack, held>>
    BY <1>3 DEF vars
  <2>2. Places(OwnerFrames)' = Places(OwnerFrames)
    BY <2>1 DEF Places
  <2>3. \A u \in Threads : Entitled(u)'
    BY <2>1, UnmovedEntitled DEF Lifespan
  <2> QED
    BY <2>1, <2>2, <2>3 DEF Lifespan, OwnerLeaves
<1> QED
  BY <1>2, <1>3

\* Whoever runs inside a client has a claim on it, from the constructor to
\* io_destroy, but for unblock_write.
THEOREM ClientLifespan == ClientSpec => [](ClientInv /\ Lifespan)
<1>1. ClientInit => ClientInv /\ Lifespan
  BY ClientInitInv, LifespanInit
<1>2. (ClientInv /\ Lifespan) /\ [ClientNext]_<<vars, clientVars>> => (ClientInv /\ Lifespan)'
  BY ClientNextInv, LifespanNext
<1> QED
  BY <1>1, <1>2, PTL DEF ClientSpec

LEMMA NobodyLeft ==
  ASSUME ClientInv, Lifespan
  PROVE  ReclaimedAlone
<1> SUFFICES ASSUME Reclaimable
             PROVE  /\ \A t \in Threads : Outside(t) \/ BeforeUnblock(t)
                    /\ rop = "none" /\ wop = "none" /\ conn # "pending" /\ held = {}
  BY DEF ReclaimedAlone
<1> USE DEF ClientInv, SharedInv, ChainInv
<1>1. \A t \in Threads : Outside(t) \/ BeforeUnblock(t)
  BY ClaimCounts DEF Lifespan, Entitled
<1>2. rop = "none" /\ wop = "none"
  BY DEF Reclaimable, OneChainEach, OneChain
<1>3. Cardinality(held) \in Nat
  BY HeldNat
<1>4. Cardinality(held) = 0 /\ healthy \notin {"init", "conning"}
  BY <1>3 DEF Reclaimable, Counted
<1>5. held = {}
  BY <1>4, HeldEmpty
<1>6. conn # "pending"
  BY <1>4 DEF Connection
<1> QED
  BY <1>1, <1>2, <1>5, <1>6

\* Whenever __prepare_destroy finds a client reclaimable, all that may still run
\* in it is a handle_connect before its call of unblock_write.
THEOREM ClientIsAlone == ClientSpec => []ReclaimedAlone
<1>1. ClientInv /\ Lifespan => ReclaimedAlone
  BY NobodyLeft
<1> QED
  BY <1>1, ClientLifespan, PTL

\* And all that can bring it back to life is that unblock_write.
THEOREM OnlyUnblock == ClientSpec => OnlyUnblockRevives
<1>1. ASSUME ClientInv, Lifespan, ClientNext, Reclaimable, ~UnblockWrite(Io)
      PROVE  Reclaimable'
  <2>1. /\ \A t \in Threads : Outside(t) \/ BeforeUnblock(t)
        /\ rop = "none" /\ wop = "none" /\ conn # "pending" /\ held = {}
    BY <1>1, NobodyLeft DEF ReclaimedAlone
  <2>2. ASSUME NEW t \in Threads, stack[t] # << >>
        PROVE  /\ Last(stack[t]) \in {"io_destroy", "unblock_write"}
               /\ Last(stack[t]) = "unblock_write" => t = Io
    BY <2>1, <2>2 DEF Outside, BeforeUnblock, Last
  <2>3. ASSUME NEW t \in Threads PROVE ~Api(t)
    <3>1. ~InApp(t)
      BY <2>1, <2>2 DEF InApp, AppFrames, Continuation
    <3> QED
      BY <3>1, ApiInside
  <2>4. ASSUME NEW t \in Threads, Step(t) PROVE Reclaimable'
    <3>1. IoDestroy(t)
      BY <2>2, <2>4, StepShape, DestroyReturns
    <3> QED
      BY <1>1, <3>1 DEF IoDestroy, Reclaimable, status
  <2>5. ASSUME NEW t \in Threads PROVE ~ClientStep(t)
    BY <1>1, <2>2 DEF ClientStep, AsyncConnect, ClientUnref, ConnectError, ConnectUnref,
       UnblockWrite, Running
  <2>6. ~ClientStart /\ ~ClientDestructor
    BY <1>1, <2>1 DEF ClientStart, ClientDestructor, OwnerIdle, ClientInv, Counted
  <2>7. ~ConnectSucceeds /\ ~ConnectFails
    BY <2>1 DEF ConnectSucceeds, ConnectFails
  <2>8. ~SharedCompletion
    BY <2>1 DEF SharedCompletion, ReadSucceeds, ReadFails, WriteSucceeds, WriteFails
  <2> QED
    BY <1>1, <2>3, <2>4, <2>5, <2>6, <2>7, <2>8 DEF ClientNext, SharedStep, SharedApi
<1>2. ClientInv /\ Lifespan /\ [ClientNext]_<<vars, clientVars>>
        => [Reclaimable => Reclaimable' \/ UnblockWrite(Io)]_<<vars, clientVars>>
  BY <1>1
<1> QED
  BY <1>2, ClientLifespan, PTL DEF ClientSpec, OnlyUnblockRevives

=============================================================================
