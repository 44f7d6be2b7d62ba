----------------------- MODULE WorkerControllerProofs -----------------------
(***************************************************************************)
(* Proofs about WorkerController.  First what any user of the controller   *)
(* relies on, the server and the client alike: status bits, call stacks    *)
(* and outstanding operations agree (ChainInv), nothing that was asked for *)
(* is forgotten, and what the socket carried, what is in flight and what   *)
(* is cached are the accepted data, in order (SharedInv).  Then, for the   *)
(* server: the reference count agrees with who can reach the object, so it *)
(* is never used after it was destroyed (IInv), final_write comes last,    *)
(* and the controller implements ObjectLifetime.                           *)
(***************************************************************************)
EXTENDS WorkerController, FiniteSetTheorems, SequenceTheorems, TLAPS

-----------------------------------------------------------------------------
(* Stacks.                                                                 *)

StackOK == stack \in [Threads -> Seq(Frames)]

\* What becomes of one sequence when its last element is replaced, dropped,
\* or another one added.
LEMMA SeqDrop ==
  ASSUME NEW S, NEW s \in Seq(S), s # << >>
  PROVE  /\ Front(s) \in Seq(S) /\ Len(Front(s)) = Len(s) - 1
         /\ DOMAIN Front(s) = DOMAIN s \ {Len(s)}
         /\ \A i \in DOMAIN Front(s) : Front(s)[i] = s[i]
<1>1. Len(s) \in Nat \ {0} /\ DOMAIN s = 1..Len(s)
  OBVIOUS
<1>2. Front(s) \in Seq(S) /\ Len(Front(s)) = Len(s) - 1
  BY <1>1 DEF Front
<1>3. DOMAIN Front(s) = DOMAIN s \ {Len(s)}
  <2>1. DOMAIN Front(s) = 1..(Len(s) - 1)
    BY <1>1, <1>2
  <2> QED
    BY <1>1, <2>1
<1>4. \A i \in DOMAIN Front(s) : Front(s)[i] = s[i]
  BY <1>1, <1>2 DEF Front
<1> QED
  BY <1>2, <1>3, <1>4

LEMMA SeqPush ==
  ASSUME NEW S, NEW s \in Seq(S), NEW f \in S
  PROVE  LET r == Append(s, f)
         IN  /\ r \in Seq(S) /\ Len(r) = Len(s) + 1
             /\ DOMAIN r = DOMAIN s \cup {Len(s) + 1} /\ Len(s) + 1 \notin DOMAIN s
             /\ r[Len(s) + 1] = f /\ r # << >>
             /\ \A i \in DOMAIN s : r[i] = s[i]
OBVIOUS

LEMMA SeqReplace ==
  ASSUME NEW S, NEW s \in Seq(S), s # << >>, NEW f \in S
  PROVE  LET r == Append(Front(s), f)
         IN  /\ r \in Seq(S) /\ Len(r) = Len(s) /\ DOMAIN r = DOMAIN s
             /\ r[Len(s)] = f /\ r # << >>
             /\ \A i \in DOMAIN s : i # Len(s) => r[i] = s[i]
<1>1. Len(s) \in Nat \ {0} /\ DOMAIN s = 1..Len(s)
  OBVIOUS
<1>2. Front(s) \in Seq(S) /\ Len(Front(s)) = Len(s) - 1
      /\ DOMAIN Front(s) = DOMAIN s \ {Len(s)}
      /\ \A i \in DOMAIN Front(s) : Front(s)[i] = s[i]
  BY SeqDrop
<1> DEFINE r == Append(Front(s), f)
<1>3. /\ r \in Seq(S) /\ Len(r) = Len(Front(s)) + 1
      /\ r[Len(Front(s)) + 1] = f /\ r # << >>
      /\ \A i \in DOMAIN Front(s) : r[i] = Front(s)[i]
  BY <1>2, SeqPush
<1> HIDE DEF r
<1>4. Len(r) = Len(s) /\ r[Len(s)] = f
  <2>1. Len(Front(s)) + 1 = Len(s)
    BY <1>1, <1>2
  <2>2. Len(r) = Len(s)
    BY <1>3, <2>1
  <2>3. r[Len(s)] = f
    BY <1>3, <2>1, Zenon
  <2> QED
    BY <2>2, <2>3
<1>5. DOMAIN r = DOMAIN s
  <2>1. DOMAIN r = 1..Len(r)
    BY <1>3
  <2> QED
    BY <1>1, <1>4, <2>1, Zenon
<1> QED
  BY <1>2, <1>3, <1>4, <1>5 DEF r

-----------------------------------------------------------------------------
(* How a step of a thread changes the stacks and the places of frames.     *)

Top(t) == <<t, Len(stack[t])>>
New(t) == <<t, Len(stack[t]) + 1>>

LEMMA PlacesDef ==
  ASSUME StackOK, NEW fs
  PROVE  \A p : p \in Places(fs) <=>
           \E t \in Threads : \E i \in DOMAIN stack[t] : p = <<t, i>> /\ stack[t][i] \in fs
BY DEF Places, StackOK

LEMMA GotoStack ==
  ASSUME StackOK, NEW t \in Threads, stack[t] # << >>, NEW f \in Frames, Goto(t, f)
  PROVE  /\ StackOK'
         /\ \A u \in Threads \ {t} : stack'[u] = stack[u]
         /\ DOMAIN stack'[t] = DOMAIN stack[t] /\ Len(stack'[t]) = Len(stack[t])
         /\ stack'[t][Len(stack[t])] = f
         /\ \A i \in DOMAIN stack[t] : i # Len(stack[t]) => stack'[t][i] = stack[t][i]
<1>1. stack[t] \in Seq(Frames)
  BY DEF StackOK
<1>2. stack'[t] = Append(Front(stack[t]), f)
      /\ \A u \in Threads \ {t} : stack'[u] = stack[u]
  BY DEF StackOK, Goto
<1>3. stack'[t] \in Seq(Frames)
  BY <1>1, <1>2, SeqReplace
<1>4. StackOK'
  BY <1>3 DEF StackOK, Goto
<1> QED
  BY <1>1, <1>2, <1>4, SeqReplace

LEMMA GotoPlaces ==
  ASSUME StackOK, NEW t \in Threads, stack[t] # << >>, NEW f \in Frames, Goto(t, f), NEW fs
  PROVE  Places(fs)' = IF f \in fs THEN Places(fs) \cup {Top(t)} ELSE Places(fs) \ {Top(t)}
<1>1. /\ StackOK'
      /\ \A u \in Threads \ {t} : stack'[u] = stack[u]
      /\ DOMAIN stack'[t] = DOMAIN stack[t]
      /\ stack'[t][Len(stack[t])] = f
      /\ \A i \in DOMAIN stack[t] : i # Len(stack[t]) => stack'[t][i] = stack[t][i]
  BY GotoStack
<1>2. Len(stack[t]) \in DOMAIN stack[t]
  BY DEF StackOK
<1>3. \A p : p \in Places(fs) <=>
           \E u \in Threads : \E i \in DOMAIN stack[u] : p = <<u, i>> /\ stack[u][i] \in fs
  BY PlacesDef
<1>4. \A p : p \in Places(fs)' <=>
           \E u \in Threads : \E i \in DOMAIN stack'[u] : p = <<u, i>> /\ stack'[u][i] \in fs
  BY <1>1 DEF Places, StackOK
<1> QED
  BY <1>1, <1>2, <1>3, <1>4 DEF Top

LEMMA CallStack ==
  ASSUME StackOK, NEW t \in Threads, NEW f \in Frames, Call(t, f)
  PROVE  /\ StackOK'
         /\ \A u \in Threads \ {t} : stack'[u] = stack[u]
         /\ Len(stack'[t]) = Len(stack[t]) + 1
         /\ DOMAIN stack'[t] = DOMAIN stack[t] \cup {Len(stack[t]) + 1}
         /\ Len(stack[t]) + 1 \notin DOMAIN stack[t]
         /\ stack'[t][Len(stack[t]) + 1] = f
         /\ \A i \in DOMAIN stack[t] : stack'[t][i] = stack[t][i]
<1>1. stack[t] \in Seq(Frames)
  BY DEF StackOK
<1>2. stack'[t] = Append(stack[t], f)
      /\ \A u \in Threads \ {t} : stack'[u] = stack[u]
  BY DEF StackOK, Call
<1>3. stack'[t] \in Seq(Frames)
  BY <1>1, <1>2, SeqPush
<1>4. StackOK'
  BY <1>3 DEF StackOK, Call
<1> QED
  BY <1>1, <1>2, <1>4, SeqPush

LEMMA CallPlaces ==
  ASSUME StackOK, NEW t \in Threads, NEW f \in Frames, Call(t, f), NEW fs
  PROVE  /\ New(t) \notin Places(fs)
         /\ Places(fs)' = IF f \in fs THEN Places(fs) \cup {New(t)} ELSE Places(fs)
<1>1. /\ StackOK'
      /\ \A u \in Threads \ {t} : stack'[u] = stack[u]
      /\ DOMAIN stack'[t] = DOMAIN stack[t] \cup {Len(stack[t]) + 1}
      /\ Len(stack[t]) + 1 \notin DOMAIN stack[t]
      /\ stack'[t][Len(stack[t]) + 1] = f
      /\ \A i \in DOMAIN stack[t] : stack'[t][i] = stack[t][i]
  BY CallStack
<1>3. \A p : p \in Places(fs) <=>
           \E u \in Threads : \E i \in DOMAIN stack[u] : p = <<u, i>> /\ stack[u][i] \in fs
  BY PlacesDef
<1>4. \A p : p \in Places(fs)' <=>
           \E u \in Threads : \E i \in DOMAIN stack'[u] : p = <<u, i>> /\ stack'[u][i] \in fs
  BY <1>1 DEF Places, StackOK
<1>5. New(t) \notin Places(fs)
  BY <1>1, <1>3 DEF New
<1>6. \A p : p \in Places(fs) => p \in Places(fs)'
  BY <1>1, <1>3, <1>4
<1>7. \A p : p \in Places(fs)' /\ p \notin Places(fs) => p = New(t) /\ f \in fs
  BY <1>1, <1>3, <1>4 DEF New
<1>8. f \in fs => New(t) \in Places(fs)'
  BY <1>1, <1>4 DEF New
<1> QED
  BY <1>5, <1>6, <1>7, <1>8

LEMMA ReturnStack ==
  ASSUME StackOK, NEW t \in Threads, stack[t] # << >>, Return(t)
  PROVE  /\ StackOK'
         /\ \A u \in Threads \ {t} : stack'[u] = stack[u]
         /\ Len(stack'[t]) = Len(stack[t]) - 1
         /\ DOMAIN stack'[t] = DOMAIN stack[t] \ {Len(stack[t])}
         /\ \A i \in DOMAIN stack'[t] : stack'[t][i] = stack[t][i]
<1>1. stack[t] \in Seq(Frames)
  BY DEF StackOK
<1>2. stack'[t] = Front(stack[t])
      /\ \A u \in Threads \ {t} : stack'[u] = stack[u]
  BY DEF StackOK, Return
<1>3. stack'[t] \in Seq(Frames)
  BY <1>1, <1>2, SeqDrop
<1>4. StackOK'
  BY <1>3 DEF StackOK, Return
<1> QED
  BY <1>1, <1>2, <1>4, SeqDrop, ZenonT(60)

LEMMA ReturnPlaces ==
  ASSUME StackOK, NEW t \in Threads, stack[t] # << >>, Return(t), NEW fs
  PROVE  Places(fs)' = Places(fs) \ {Top(t)}
<1>1. /\ StackOK'
      /\ \A u \in Threads \ {t} : stack'[u] = stack[u]
      /\ DOMAIN stack'[t] = DOMAIN stack[t] \ {Len(stack[t])}
      /\ \A i \in DOMAIN stack'[t] : stack'[t][i] = stack[t][i]
  BY ReturnStack
<1>3. \A p : p \in Places(fs) <=>
           \E u \in Threads : \E i \in DOMAIN stack[u] : p = <<u, i>> /\ stack[u][i] \in fs
  BY PlacesDef
<1>4. \A p : p \in Places(fs)' <=>
           \E u \in Threads : \E i \in DOMAIN stack'[u] : p = <<u, i>> /\ stack'[u][i] \in fs
  BY <1>1 DEF Places, StackOK
<1> QED
  BY <1>1, <1>3, <1>4 DEF Top

LEMMA TopPlace ==
  ASSUME StackOK, NEW t \in Threads, stack[t] # << >>, NEW fs
  PROVE  Top(t) \in Places(fs) <=> Last(stack[t]) \in fs
<1>1. Len(stack[t]) \in DOMAIN stack[t]
  BY DEF StackOK
<1> QED
  BY <1>1, PlacesDef DEF Top, Last

\* A frame is replaced and another one called: the second step of close.
LEMMA GotoCall ==
  ASSUME StackOK, NEW t \in Threads, stack[t] # << >>, NEW f \in Frames, NEW g \in Frames,
         stack' = [stack EXCEPT ![t] = Append(Append(Front(stack[t]), f), g)], NEW fs,
         Last(stack[t]) \notin fs, f \notin fs
  PROVE  /\ StackOK'
         /\ \A u \in Threads \ {t} : stack'[u] = stack[u]
         /\ Len(stack'[t]) = Len(stack[t]) + 1
         /\ Len(stack[t]) # 1 => stack'[t][1] = stack[t][1]
         /\ New(t) \notin Places(fs)
         /\ g \in fs => Places(fs)' = Places(fs) \cup {New(t)}
         /\ g \notin fs => Places(fs)' = Places(fs)
<1> DEFINE r == Append(Front(stack[t]), f)
<1>1. stack[t] \in Seq(Frames) /\ Len(stack[t]) \in DOMAIN stack[t]
      /\ DOMAIN stack[t] = 1..Len(stack[t]) /\ Len(stack[t]) \in Nat
  BY DEF StackOK
<1>2. /\ r \in Seq(Frames) /\ Len(r) = Len(stack[t]) /\ DOMAIN r = DOMAIN stack[t]
      /\ r[Len(stack[t])] = f
      /\ \A i \in DOMAIN stack[t] : i # Len(stack[t]) => r[i] = stack[t][i]
  BY <1>1, SeqReplace
<1>3. stack'[t] = Append(r, g) /\ \A u \in Threads \ {t} : stack'[u] = stack[u]
  BY DEF StackOK
<1> HIDE DEF r
<1>4. /\ stack'[t] \in Seq(Frames) /\ Len(stack'[t]) = Len(r) + 1
      /\ DOMAIN stack'[t] = DOMAIN r \cup {Len(r) + 1} /\ Len(r) + 1 \notin DOMAIN r
      /\ stack'[t][Len(r) + 1] = g
      /\ \A i \in DOMAIN r : stack'[t][i] = r[i]
  <2> DEFINE q == Append(r, g)
  <2>1. /\ q \in Seq(Frames) /\ Len(q) = Len(r) + 1
        /\ DOMAIN q = DOMAIN r \cup {Len(r) + 1} /\ Len(r) + 1 \notin DOMAIN r
        /\ q[Len(r) + 1] = g
        /\ \A i \in DOMAIN r : q[i] = r[i]
    BY <1>2, SeqPush
  <2> QED
    BY <1>3, <2>1, Zenon
<1>5. StackOK'
  BY <1>3, <1>4 DEF StackOK
<1>6. \A p : p \in Places(fs) <=>
           \E u \in Threads : \E i \in DOMAIN stack[u] : p = <<u, i>> /\ stack[u][i] \in fs
  BY PlacesDef
<1>7. \A p : p \in Places(fs)' <=>
           \E u \in Threads : \E i \in DOMAIN stack'[u] : p = <<u, i>> /\ stack'[u][i] \in fs
  BY <1>5 DEF Places, StackOK
<1>8. New(t) \notin Places(fs)
  BY <1>1, <1>6 DEF New
<1>9. \A p : p \in Places(fs) => p \in Places(fs)'
  <2> SUFFICES ASSUME NEW u \in Threads, NEW i \in DOMAIN stack[u], stack[u][i] \in fs
               PROVE  i \in DOMAIN stack'[u] /\ stack'[u][i] \in fs
    BY <1>6, <1>7
  <2>1. CASE u # t
    BY <1>3, <2>1
  <2>2. CASE u = t
    <3>1. i # Len(stack[t])
      BY <2>2 DEF Last
    <3> QED
      BY <1>2, <1>4, <2>2, <3>1
  <2> QED
    BY <2>1, <2>2
<1>10. \A p : p \in Places(fs)' /\ p \notin Places(fs) => p = New(t) /\ g \in fs
  BY <1>2, <1>3, <1>4, <1>6, <1>7, SMTT(30) DEF New
<1>11. g \in fs => New(t) \in Places(fs)'
  BY <1>2, <1>4, <1>7 DEF New
<1>12. Len(stack[t]) # 1 => stack'[t][1] = stack[t][1]
  <2>1. 1 \in DOMAIN stack[t]
    BY <1>1
  <2> QED
    BY <1>2, <1>4, <2>1
<1>13. Len(stack'[t]) = Len(stack[t]) + 1
  BY <1>2, <1>4
<1> QED
  BY <1>3, <1>5, <1>8, <1>9, <1>10, <1>11, <1>12, <1>13

-----------------------------------------------------------------------------
(* The chains: the part of the invariant that the client shares.           *)

StatusOK ==
  /\ rd \in 0..2 /\ wr \in 0..2 /\ cl \in {0, 1, 3}
  /\ willread \in BOOLEAN /\ finalwrite \in BOOLEAN /\ blockwrite \in BOOLEAN
  /\ refcnt \in Int
  /\ sock \in BOOLEAN /\ rop \in Ops /\ wop \in Ops
  /\ held \subseteq Threads
  /\ destroyed \in BOOLEAN
  /\ calls \in 0..MaxCalls

DataOK == cache \in Seq(Nat) /\ buffer \in Seq(Nat) /\ sent \in Seq(Nat) /\ accepted \in Nat

ChainInv == StatusOK /\ DataOK /\ StackOK /\ OneChainEach

LEMMA HeldNat == ASSUME StatusOK PROVE IsFiniteSet(held) /\ Cardinality(held) \in Nat
<1>1. IsFiniteSet(Threads)
  <2>1. IsFiniteSet(Users \cup {Acc}) /\ Threads = (Users \cup {Acc}) \cup {Io}
    BY ThreadsAssumption, FS_AddElement DEF Threads
  <2> QED
    BY <2>1, FS_AddElement
<1> QED
  BY <1>1, FS_Subset, FS_CardinalityType DEF StatusOK

LEMMA HeldEmpty == ASSUME StatusOK, Cardinality(held) = 0 PROVE held = {}
BY HeldNat, FS_EmptySet

ChainFrames == ReadFrames \cup WriteFrames

\* What the running frame becomes, in a set of frames that keeps it or not.
LEMMA GotoKind ==
  ASSUME StackOK, NEW t \in Threads, stack[t] # << >>, NEW f \in Frames, Goto(t, f), NEW fs,
         Last(stack[t]) \in fs <=> f \in fs
  PROVE  StackOK' /\ Places(fs)' = Places(fs)
<1>1. Top(t) \in Places(fs) <=> Last(stack[t]) \in fs
  BY TopPlace
<1>2. StackOK' /\ Places(fs)' = IF f \in fs THEN Places(fs) \cup {Top(t)} ELSE Places(fs) \ {Top(t)}
  BY GotoStack, GotoPlaces
<1> QED
  BY <1>1, <1>2

\* A frame ends, by __prepare_destroy or without.
LEMMA LeavePlaces ==
  ASSUME StackOK, NEW t \in Threads, stack[t] # << >>, Return(t) \/ PrepareDestroy(t),
         NEW fs, "io_destroy" \notin fs
  PROVE  StackOK' /\ Places(fs)' = Places(fs) \ {Top(t)}
<1>1. "io_destroy" \in Frames
  BY DEF Frames, CodeFrames
<1>2. CASE Return(t)
  BY <1>2, ReturnStack, ReturnPlaces
<1>3. CASE Goto(t, "io_destroy")
  BY <1>1, <1>3, GotoStack, GotoPlaces
<1> QED
  BY <1>2, <1>3 DEF PrepareDestroy

\* Steps of frames that belong to no chain, and steps that leave the stacks alone.
LEMMA OtherFrames ==
  ASSUME ChainInv, NEW t \in Threads, NEW f \in Frames \ ChainFrames,
         \/ Call(t, f)
         \/ /\ stack[t] # << >> /\ Last(stack[t]) \notin ChainFrames
            /\ Goto(t, f) \/ Return(t) \/ PrepareDestroy(t)
         \/ stack' = stack
  PROVE  /\ StackOK'
         /\ Places(ReadFrames)' = Places(ReadFrames)
         /\ Places(WriteFrames)' = Places(WriteFrames)
<1>1. StackOK
  BY DEF ChainInv
<1>2. f \notin ReadFrames /\ f \notin WriteFrames
      /\ "io_destroy" \notin ReadFrames /\ "io_destroy" \notin WriteFrames
  BY DEF ChainFrames, ReadFrames, WriteFrames
<1>3. CASE Call(t, f)
  BY <1>1, <1>2, <1>3, CallStack, CallPlaces
<1>4. ASSUME stack[t] # << >>, Last(stack[t]) \notin ChainFrames,
             Goto(t, f) \/ Return(t) \/ PrepareDestroy(t)
      PROVE  /\ StackOK'
             /\ Places(ReadFrames)' = Places(ReadFrames)
             /\ Places(WriteFrames)' = Places(WriteFrames)
  <2>1. Last(stack[t]) \notin ReadFrames /\ Last(stack[t]) \notin WriteFrames
    BY <1>4 DEF ChainFrames
  <2>2. Top(t) \notin Places(ReadFrames) /\ Top(t) \notin Places(WriteFrames)
    BY <1>1, <1>4, <2>1, TopPlace
  <2>3. CASE Goto(t, f)
    BY <1>1, <1>2, <1>4, <2>1, <2>3, GotoKind
  <2>4. CASE Return(t) \/ PrepareDestroy(t)
    <3>1. StackOK' /\ Places(ReadFrames)' = Places(ReadFrames) \ {Top(t)}
      BY <1>1, <1>2, <1>4, <2>4, LeavePlaces
    <3>2. Places(WriteFrames)' = Places(WriteFrames) \ {Top(t)}
      BY <1>1, <1>2, <1>4, <2>4, LeavePlaces
    <3> QED
      BY <2>2, <3>1, <3>2
  <2> QED
    BY <1>4, <2>3, <2>4
<1>5. CASE stack' = stack
  BY <1>1, <1>5 DEF StackOK, Places
<1> QED
  BY <1>3, <1>4, <1>5

\* Such a step keeps the chains when it changes neither bits nor operations.
LEMMA SameChains ==
  ASSUME ChainInv, UNCHANGED <<rd, wr, rop, wop>>,
         Places(ReadFrames)' = Places(ReadFrames), Places(WriteFrames)' = Places(WriteFrames)
  PROVE  OneChainEach'
BY DEF ChainInv, OneChainEach, OneChain

\* The chain that the running frame belongs to, and no other operation of it.
LEMMA RunningChain ==
  ASSUME ChainInv, NEW t \in Threads, stack[t] # << >>
  PROVE  /\ Last(stack[t]) \in ReadFrames =>
              rd = 1 /\ rop = "none" /\ Places(ReadFrames) \ {Top(t)} = {}
         /\ Last(stack[t]) \in WriteFrames =>
              wr = 1 /\ wop = "none" /\ Places(WriteFrames) \ {Top(t)} = {}
         /\ Last(stack[t]) \notin ReadFrames => Top(t) \notin Places(ReadFrames)
         /\ Last(stack[t]) \notin WriteFrames => Top(t) \notin Places(WriteFrames)
<1>1. /\ Top(t) \in Places(ReadFrames) <=> Last(stack[t]) \in ReadFrames
      /\ Top(t) \in Places(WriteFrames) <=> Last(stack[t]) \in WriteFrames
  BY TopPlace DEF ChainInv
<1> QED
  BY <1>1 DEF ChainInv, OneChainEach, OneChain

-----------------------------------------------------------------------------
(* The chains: the steps of a thread in the controller.                    *)

LEMMA ContinuationKind ==
  ASSUME NEW f \in AppFrames
  PROVE  /\ f # "io_destroy" /\ Continuation[f] \in Frames \ {"io_destroy"}
         /\ f \in ReadFrames <=> Continuation[f] \in ReadFrames
         /\ f \in WriteFrames <=> Continuation[f] \in WriteFrames
<1>1. f \in {"handle_open", "handle_read", "handle_close", "filter_notify",
             "handle_error_r", "handle_error_w", "handle_final_w", "handle_error_c"}
  BY DEF AppFrames, Continuation
<1> QED
  BY <1>1 DEF Continuation, Frames, CodeFrames, ReadFrames, WriteFrames

LEMMA HandlerReturnsChain ==
  ASSUME ChainInv, NEW t \in Threads, HandlerReturns(t)
  PROVE  ChainInv'
<1> DEFINE f == Continuation[Last(stack[t])]
<1>1. /\ stack[t] # << >> /\ Last(stack[t]) \in AppFrames /\ Goto(t, f)
      /\ UNCHANGED <<status, refcnt, data, ioVars, held, destroyed, calls>>
  BY DEF HandlerReturns
<1>2. /\ f \in Frames
      /\ Last(stack[t]) \in ReadFrames <=> f \in ReadFrames
      /\ Last(stack[t]) \in WriteFrames <=> f \in WriteFrames
  BY <1>1, ContinuationKind
<1> HIDE DEF f
<1>3. /\ StackOK'
      /\ Places(ReadFrames)' = Places(ReadFrames)
      /\ Places(WriteFrames)' = Places(WriteFrames)
  BY <1>1, <1>2, GotoKind DEF ChainInv
<1>4. OneChainEach'
  BY <1>1, <1>3, SameChains DEF status, ioVars
<1> QED
  BY <1>1, <1>3, <1>4 DEF ChainInv, StatusOK, DataOK, status, data, ioVars

LEMMA LeaveOther ==
  ASSUME ChainInv, NEW t \in Threads, stack[t] # << >>, Last(stack[t]) \notin ChainFrames,
         Return(t) \/ PrepareDestroy(t), UNCHANGED <<rd, wr, rop, wop>>
  PROVE  StackOK' /\ OneChainEach'
<1>1. "unref" \in Frames \ ChainFrames
  BY DEF Frames, CodeFrames, ChainFrames, ReadFrames, WriteFrames
<1> QED
  BY <1>1, OtherFrames, SameChains

LEMMA InitUnrefChain ==
  ASSUME ChainInv, NEW t \in Threads, InitUnref(t)
  PROVE  ChainInv'
<1>1. /\ stack[t] # << >> /\ Last(stack[t]) = "unref" /\ PrepareDestroy(t)
      /\ refcnt' = refcnt - 1
      /\ UNCHANGED <<status, data, ioVars, held, destroyed, calls>>
  BY DEF InitUnref, Running
<1>2. "unref" \notin ChainFrames
  BY DEF ChainFrames, ReadFrames, WriteFrames
<1>3. StackOK' /\ OneChainEach'
  BY <1>1, <1>2, LeaveOther DEF status, ioVars
<1> QED
  BY <1>1, <1>3 DEF ChainInv, StatusOK, DataOK, status, data, ioVars

LEMMA IoCloseChain ==
  ASSUME ChainInv, NEW t \in Threads, IoClose(t)
  PROVE  ChainInv'
<1>1. /\ stack[t] # << >> /\ Last(stack[t]) = "io_close" /\ Goto(t, "handle_close")
      /\ sock' = FALSE
      /\ UNCHANGED <<status, refcnt, data, rop, wop, held, destroyed, calls>>
  BY DEF IoClose, Running
<1>2. "handle_close" \in Frames \ ChainFrames /\ "io_close" \notin ChainFrames
  BY DEF Frames, AppFrames, Continuation, ChainFrames, ReadFrames, WriteFrames
<1>3. StackOK' /\ OneChainEach'
  BY <1>1, <1>2, OtherFrames, SameChains DEF status
<1> QED
  BY <1>1, <1>3 DEF ChainInv, StatusOK, DataOK, status, data

LEMMA ClosedAgainChain ==
  ASSUME ChainInv, NEW t \in Threads, ClosedAgain(t)
  PROVE  ChainInv'
<1>1. /\ stack[t] # << >> /\ Last(stack[t]) = "closed2" /\ PrepareDestroy(t)
      /\ UNCHANGED <<status, refcnt, data, ioVars, held, destroyed, calls>>
  BY DEF ClosedAgain, Running
<1>2. "closed2" \notin ChainFrames
  BY DEF ChainFrames, ReadFrames, WriteFrames
<1>3. StackOK' /\ OneChainEach'
  BY <1>1, <1>2, LeaveOther DEF status, ioVars
<1> QED
  BY <1>1, <1>3 DEF ChainInv, StatusOK, DataOK, status, data, ioVars

\* The second step of close starts a read chain that fails, if there is none.
LEMMA ClosedChain ==
  ASSUME ChainInv, NEW t \in Threads, Closed(t)
  PROVE  ChainInv'
<1>1. /\ stack[t] # << >> /\ Last(stack[t]) = "closed" /\ cl' = 3
      /\ UNCHANGED <<willread, wr, finalwrite, blockwrite, refcnt, data, ioVars,
                     held, destroyed, calls>>
  BY DEF Closed, Running
<1>2. /\ "closed" \notin ReadFrames /\ "closed" \notin WriteFrames
      /\ "closed2" \notin ReadFrames /\ "closed2" \notin WriteFrames
      /\ "handle_error_r" \in ReadFrames /\ "handle_error_r" \notin WriteFrames
      /\ "closed2" \in Frames /\ "handle_error_r" \in Frames
  BY DEF ReadFrames, WriteFrames, Frames, AppFrames, CodeFrames, Continuation
<1>3. CASE rd = 0 /\ ~willread
  <2>1. rd' = 1 /\ stack' = [stack EXCEPT ![t] =
                               Append(Append(Front(stack[t]), "closed2"), "handle_error_r")]
    BY <1>3 DEF Closed
  <2> DEFINE f == "closed2"
             g == "handle_error_r"
  <2>2. /\ StackOK /\ stack[t] # << >> /\ f \in Frames /\ g \in Frames
        /\ Last(stack[t]) \notin ReadFrames /\ f \notin ReadFrames /\ g \in ReadFrames
        /\ Last(stack[t]) \notin WriteFrames /\ f \notin WriteFrames /\ g \notin WriteFrames
        /\ stack' = [stack EXCEPT ![t] = Append(Append(Front(stack[t]), f), g)]
    BY <1>1, <1>2, <2>1 DEF ChainInv
  <2> HIDE DEF f, g
  <2>3. StackOK' /\ Places(WriteFrames)' = Places(WriteFrames)
    BY <2>2, GotoCall, ZenonT(60)
  <2>4. New(t) \notin Places(ReadFrames) /\ Places(ReadFrames)' = Places(ReadFrames) \cup {New(t)}
    <3>1. New(t) \notin Places(ReadFrames)
      BY <2>2, GotoCall, ZenonT(60)
    <3>2. Places(ReadFrames)' = Places(ReadFrames) \cup {New(t)}
      BY <2>2, GotoCall
    <3> QED
      BY <3>1, <3>2
  <2>5. OneChainEach'
    BY <1>1, <1>3, <2>1, <2>3, <2>4 DEF ChainInv, OneChainEach, OneChain, ioVars
  <2> QED
    BY <1>1, <2>1, <2>3, <2>5 DEF ChainInv, StatusOK, DataOK, data, ioVars
<1>4. CASE ~(rd = 0 /\ ~willread)
  <2>1. rd' = rd /\ PrepareDestroy(t)
    BY <1>4 DEF Closed
  <2>2. StackOK' /\ OneChainEach'
    BY <1>1, <1>2, <2>1, LeaveOther DEF ChainFrames, ioVars
  <2> QED
    BY <1>1, <2>1, <2>2 DEF ChainInv, StatusOK, DataOK, data, ioVars
<1> QED
  BY <1>3, <1>4

\* A frame of the read (write) chain ends, and leaves the other chain alone.
LEMMA LeaveChain ==
  ASSUME ChainInv, NEW t \in Threads, stack[t] # << >>, Return(t) \/ PrepareDestroy(t)
  PROVE  /\ StackOK'
         /\ Last(stack[t]) \in ReadFrames \ WriteFrames =>
              /\ Places(ReadFrames)' = {} /\ rd = 1 /\ rop = "none"
              /\ Places(WriteFrames)' = Places(WriteFrames)
         /\ Last(stack[t]) \in WriteFrames \ ReadFrames =>
              /\ Places(WriteFrames)' = {} /\ wr = 1 /\ wop = "none"
              /\ Places(ReadFrames)' = Places(ReadFrames)
<1>1. "io_destroy" \notin ReadFrames /\ "io_destroy" \notin WriteFrames
  BY DEF ReadFrames, WriteFrames
<1>2. /\ StackOK'
      /\ Places(ReadFrames)' = Places(ReadFrames) \ {Top(t)}
      /\ Places(WriteFrames)' = Places(WriteFrames) \ {Top(t)}
  BY <1>1, LeavePlaces DEF ChainInv
<1> QED
  BY <1>2, RunningChain

LEMMA ProcessReadChain ==
  ASSUME ChainInv, NEW t \in Threads, ProcessRead(t)
  PROVE  ChainInv'
<1>1. /\ stack[t] # << >> /\ Last(stack[t]) = "process_read"
      /\ UNCHANGED <<willread, wr, cl, finalwrite, blockwrite, refcnt, data, sock, wop,
                     held, destroyed, calls>>
      /\ Return(t) \/ PrepareDestroy(t)
  BY DEF ProcessRead, Running
<1>2. "process_read" \in ReadFrames \ WriteFrames
  BY DEF ReadFrames, WriteFrames
<1>3. /\ StackOK'
      /\ Places(ReadFrames)' = {} /\ rd = 1 /\ rop = "none"
      /\ Places(WriteFrames)' = Places(WriteFrames)
  BY <1>1, <1>2, LeaveChain
<1>4. \/ rd' = 1 /\ rop' \in {"live", "dead"}
      \/ rd' = 0 /\ rop' = "none"
  BY <1>3 DEF ProcessRead, IoRead, Started
<1>5. OneChainEach'
  BY <1>1, <1>3, <1>4 DEF ChainInv, OneChainEach, OneChain
<1> QED
  BY <1>1, <1>3, <1>4, <1>5 DEF ChainInv, StatusOK, DataOK, data, Ops

\* The data after write_cache_.pop.
LEMMA PopData ==
  ASSUME DataOK, PopAndWrite
  PROVE  cache' \in Seq(Nat) /\ buffer' \in Seq(Nat)
<1>1. PopSize \in 0..Len(cache) /\ Len(cache) \in Nat
  BY BoundsAssumption DEF DataOK, PopSize
<1> QED
  BY <1>1, SMTT(30) DEF DataOK, PopAndWrite

LEMMA ProcessWriteChain ==
  ASSUME ChainInv, NEW t \in Threads, ProcessWrite(t)
  PROVE  ChainInv'
<1>1. /\ stack[t] # << >> /\ Last(stack[t]) = "process_write"
      /\ UNCHANGED <<status, refcnt, accepted, sent, sock, rop, held, destroyed, calls>>
  BY DEF ProcessWrite, Running
<1>2. /\ "process_write" \in WriteFrames \ ReadFrames
      /\ "filter_notify" \in WriteFrames \ ReadFrames /\ "filter_notify" \in Frames
  BY DEF ReadFrames, WriteFrames, Frames, AppFrames, Continuation
<1>3. CASE cache # << >>
  <2>1. PopAndWrite /\ Return(t)
    BY <1>3 DEF ProcessWrite
  <2>2. /\ StackOK'
        /\ Places(WriteFrames)' = {} /\ wr = 1 /\ wop = "none"
        /\ Places(ReadFrames)' = Places(ReadFrames)
    BY <1>1, <1>2, <2>1, LeaveChain
  <2>3. wop' \in {"live", "dead"}
    BY <2>1, <2>2 DEF PopAndWrite, IoWrite, Started
  <2>4. OneChainEach'
    BY <1>1, <2>2, <2>3 DEF ChainInv, OneChainEach, OneChain, status
  <2> QED
    BY <1>1, <2>1, <2>2, <2>3, <2>4, PopData DEF ChainInv, StatusOK, DataOK, status, Ops
<1>4. CASE cache = << >>
  <2>1. Goto(t, "filter_notify") /\ UNCHANGED <<cache, buffer, wop>>
    BY <1>4 DEF ProcessWrite
  <2>2. /\ StackOK'
        /\ Places(ReadFrames)' = Places(ReadFrames)
        /\ Places(WriteFrames)' = Places(WriteFrames)
    BY <1>1, <1>2, <2>1, GotoKind DEF ChainInv
  <2>3. OneChainEach'
    BY <1>1, <2>1, <2>2, SameChains DEF status
  <2> QED
    BY <1>1, <2>1, <2>2, <2>3 DEF ChainInv, StatusOK, DataOK, status
<1> QED
  BY <1>3, <1>4

LEMMA NotifiedChain ==
  ASSUME ChainInv, NEW t \in Threads, Notified(t)
  PROVE  ChainInv'
<1>1. /\ stack[t] # << >> /\ Last(stack[t]) = "notified"
      /\ UNCHANGED <<rd, willread, cl, finalwrite, blockwrite, refcnt, accepted, sent,
                     sock, rop, held, destroyed, calls>>
  BY DEF Notified, Running
<1>2. /\ "notified" \in WriteFrames \ ReadFrames
      /\ "handle_final_w" \in WriteFrames \ ReadFrames /\ "handle_final_w" \in Frames
  BY DEF ReadFrames, WriteFrames, Frames, AppFrames, Continuation
<1>3. CASE cache # << >>
  <2>1. PopAndWrite /\ Return(t) /\ wr' = wr
    BY <1>3 DEF Notified
  <2>2. /\ StackOK'
        /\ Places(WriteFrames)' = {} /\ wr = 1 /\ wop = "none"
        /\ Places(ReadFrames)' = Places(ReadFrames)
    BY <1>1, <1>2, <2>1, LeaveChain
  <2>3. wop' \in {"live", "dead"}
    BY <2>1, <2>2 DEF PopAndWrite, IoWrite, Started
  <2>4. OneChainEach'
    BY <1>1, <2>1, <2>2, <2>3 DEF ChainInv, OneChainEach, OneChain
  <2> QED
    BY <1>1, <2>1, <2>2, <2>3, <2>4, PopData DEF ChainInv, StatusOK, DataOK, Ops
<1>4. CASE cache = << >> /\ finalwrite
  <2>1. Goto(t, "handle_final_w") /\ UNCHANGED <<cache, buffer, wop, wr>>
    BY <1>4 DEF Notified
  <2>2. /\ StackOK'
        /\ Places(ReadFrames)' = Places(ReadFrames)
        /\ Places(WriteFrames)' = Places(WriteFrames)
    BY <1>1, <1>2, <2>1, GotoKind DEF ChainInv
  <2>3. OneChainEach'
    BY <1>1, <2>1, <2>2, SameChains
  <2> QED
    BY <1>1, <2>1, <2>2, <2>3 DEF ChainInv, StatusOK, DataOK
<1>5. CASE cache = << >> /\ ~finalwrite
  <2>1. wr' = 0 /\ UNCHANGED <<cache, buffer, wop>> /\ PrepareDestroy(t)
    BY <1>5 DEF Notified
  <2>2. /\ StackOK'
        /\ Places(WriteFrames)' = {} /\ wop = "none"
        /\ Places(ReadFrames)' = Places(ReadFrames)
    BY <1>1, <1>2, <2>1, LeaveChain
  <2>3. OneChainEach'
    BY <1>1, <2>1, <2>2 DEF ChainInv, OneChainEach, OneChain
  <2> QED
    BY <1>1, <2>1, <2>2, <2>3 DEF ChainInv, StatusOK, DataOK
<1> QED
  BY <1>3, <1>4, <1>5

LEMMA ReadErrorChain ==
  ASSUME ChainInv, NEW t \in Threads, ReadError(t)
  PROVE  ChainInv'
<1>1. /\ stack[t] # << >> /\ Last(stack[t]) = "error_r" /\ rd' = Flip(rd)
      /\ UNCHANGED <<willread, wr, cl, finalwrite, blockwrite, refcnt, data, ioVars,
                     held, destroyed, calls>>
      /\ PrepareDestroy(t)
  BY DEF ReadError, Running
<1>2. "error_r" \in ReadFrames \ WriteFrames
  BY DEF ReadFrames, WriteFrames
<1>3. /\ StackOK'
      /\ Places(ReadFrames)' = {} /\ rd = 1 /\ rop = "none"
      /\ Places(WriteFrames)' = Places(WriteFrames)
  BY <1>1, <1>2, LeaveChain
<1>4. rd' = 2
  BY <1>1, <1>3 DEF Flip
<1>5. OneChainEach'
  BY <1>1, <1>3, <1>4 DEF ChainInv, OneChainEach, OneChain, ioVars
<1> QED
  BY <1>1, <1>3, <1>4, <1>5 DEF ChainInv, StatusOK, DataOK, data, ioVars

LEMMA WriteErrorChain ==
  ASSUME ChainInv, NEW t \in Threads, WriteError(t)
  PROVE  ChainInv'
<1>1. /\ stack[t] # << >> /\ Last(stack[t]) = "error_w" /\ wr' = Flip(wr)
      /\ UNCHANGED <<rd, willread, cl, finalwrite, blockwrite, refcnt, data, ioVars,
                     held, destroyed, calls>>
      /\ PrepareDestroy(t)
  BY DEF WriteError, Running
<1>2. "error_w" \in WriteFrames \ ReadFrames
  BY DEF ReadFrames, WriteFrames
<1>3. /\ StackOK'
      /\ Places(WriteFrames)' = {} /\ wr = 1 /\ wop = "none"
      /\ Places(ReadFrames)' = Places(ReadFrames)
  BY <1>1, <1>2, LeaveChain
<1>4. wr' = 2
  BY <1>1, <1>3 DEF Flip
<1>5. OneChainEach'
  BY <1>1, <1>3, <1>4 DEF ChainInv, OneChainEach, OneChain, ioVars
<1> QED
  BY <1>1, <1>3, <1>4, <1>5 DEF ChainInv, StatusOK, DataOK, data, ioVars

LEMMA IoDestroyChain ==
  ASSUME ChainInv, NEW t \in Threads, IoDestroy(t)
  PROVE  ChainInv'
<1>1. /\ stack[t] # << >> /\ Last(stack[t]) = "io_destroy" /\ destroyed' = TRUE /\ Return(t)
      /\ UNCHANGED <<status, refcnt, data, ioVars, held, calls>>
  BY DEF IoDestroy, Running
<1>2. "io_destroy" \notin ChainFrames
  BY DEF ChainFrames, ReadFrames, WriteFrames
<1>3. StackOK' /\ OneChainEach'
  BY <1>1, <1>2, LeaveOther DEF status, ioVars
<1> QED
  BY <1>1, <1>3 DEF ChainInv, StatusOK, DataOK, status, data, ioVars

LEMMA StepChain ==
  ASSUME ChainInv, NEW t \in Threads, Step(t)
  PROVE  ChainInv'
BY HandlerReturnsChain, InitUnrefChain, IoCloseChain, ClosedChain, ClosedAgainChain,
   ProcessReadChain, ProcessWriteChain, NotifiedChain, ReadErrorChain, WriteErrorChain,
   IoDestroyChain DEF Step

-----------------------------------------------------------------------------
(* The chains: the calls of the application.                               *)

LEMMA CountBound == ASSUME ChainInv, Count PROVE calls' \in 0..MaxCalls
BY BoundsAssumption DEF ChainInv, StatusOK, Count

\* The units of one write, and the two parts of it.
LEMMA UnitsType ==
  ASSUME accepted \in Nat, NEW n \in Nat
  PROVE  Units(n) \in Seq(Nat) /\ SubSeq(Units(n), 1, Fit(n)) \in Seq(Nat)
         /\ SubSeq(Units(n), Fit(n) + 1, n) \in Seq(Nat)
<1>1. Units(n) \in Seq(Nat) /\ Len(Units(n)) = n
  BY DEF Units
<1>2. Fit(n) \in 0..n
  BY BoundsAssumption DEF Fit
<1> QED
  BY <1>1, <1>2

LEMMA SamePlaces ==
  ASSUME ChainInv, stack' = stack
  PROVE  StackOK' /\ \A fs : Places(fs)' = Places(fs)
BY DEF ChainInv, StackOK, Places

LEMMA WriteChain ==
  ASSUME ChainInv, NEW t \in Threads, NEW n \in WriteSizes, Write(t, n)
  PROVE  ChainInv'
<1> USE DEF ChainInv
<1>1. /\ calls' \in 0..MaxCalls /\ accepted' = accepted + n
      /\ IF wr = 0 /\ ~blockwrite THEN WriteNow(n) ELSE WriteLater(n)
      /\ UNCHANGED <<rd, willread, cl, finalwrite, blockwrite, refcnt, sent,
                     sock, rop, stack, held, destroyed>>
  BY CountBound DEF Write, IoFilterOut
<1>2. n \in Nat /\ accepted \in Nat
  BY BoundsAssumption DEF DataOK
<1>3. /\ Units(n) \in Seq(Nat) /\ SubSeq(Units(n), 1, Fit(n)) \in Seq(Nat)
      /\ SubSeq(Units(n), Fit(n) + 1, n) \in Seq(Nat)
  BY <1>2, UnitsType
<1>4. /\ accepted' \in Nat /\ sent' \in Seq(Nat)
      /\ cache \o SubSeq(Units(n), Fit(n) + 1, n) \in Seq(Nat)
      /\ cache \o Units(n) \in Seq(Nat)
  BY <1>1, <1>2, <1>3, ConcatProperties DEF DataOK
<1>5. /\ StackOK'
      /\ Places(ReadFrames)' = Places(ReadFrames)
      /\ Places(WriteFrames)' = Places(WriteFrames)
  BY <1>1, SamePlaces
<1>6. CASE wr = 0 /\ ~blockwrite
  <2>1. wop = "none" /\ Places(WriteFrames) = {}
    BY <1>6 DEF OneChainEach, OneChain
  <2>2. WriteNow(n)
    BY <1>1, <1>6
  <2>3. wr' = 1 /\ wop' \in {"live", "dead"}
    BY <2>1, <2>2 DEF WriteNow, IoWrite, Started
  <2>4. DataOK'
    BY <1>3, <1>4, <2>2 DEF DataOK, WriteNow
  <2>5. OneChainEach'
    BY <1>1, <1>5, <2>1, <2>3 DEF OneChainEach, OneChain
  <2> QED
    BY <1>1, <1>5, <2>3, <2>4, <2>5 DEF StatusOK, Ops
<1>7. CASE ~(wr = 0 /\ ~blockwrite)
  <2>1. WriteLater(n)
    BY <1>1, <1>7
  <2>2. DataOK'
    BY <1>4, <2>1 DEF DataOK, WriteLater
  <2>3. OneChainEach'
    BY <1>1, <1>5, <2>1, SameChains DEF WriteLater
  <2> QED
    BY <1>1, <1>5, <2>1, <2>2, <2>3 DEF StatusOK, WriteLater
<1> QED
  BY <1>6, <1>7

LEMMA TriggerReadChain ==
  ASSUME ChainInv, NEW t \in Threads, TriggerRead(t)
  PROVE  ChainInv'
<1> USE DEF ChainInv
<1>1. /\ calls' \in 0..MaxCalls /\ willread' = TRUE
      /\ IF rd = 0 THEN rd' = 1 /\ IoRead ELSE UNCHANGED <<rd, rop>>
      /\ UNCHANGED <<wr, cl, finalwrite, blockwrite, refcnt, data, sock, wop,
                     stack, held, destroyed>>
  BY CountBound DEF TriggerRead
<1>2. /\ StackOK'
      /\ Places(ReadFrames)' = Places(ReadFrames)
      /\ Places(WriteFrames)' = Places(WriteFrames)
  BY <1>1, SamePlaces
<1>3. CASE rd = 0
  <2>1. rop = "none" /\ Places(ReadFrames) = {}
    BY <1>3 DEF OneChainEach, OneChain
  <2>2. rd' = 1 /\ rop' \in {"live", "dead"}
    BY <1>1, <1>3, <2>1 DEF IoRead, Started
  <2>3. OneChainEach'
    BY <1>1, <1>2, <2>1, <2>2 DEF OneChainEach, OneChain
  <2> QED
    BY <1>1, <1>2, <2>2, <2>3 DEF StatusOK, DataOK, Ops, data
<1>4. CASE rd # 0
  <2>1. OneChainEach'
    BY <1>1, <1>2, <1>4, SameChains
  <2> QED
    BY <1>1, <1>2, <1>4, <2>1 DEF StatusOK, DataOK, data
<1> QED
  BY <1>3, <1>4

LEMMA StopReadChain ==
  ASSUME ChainInv, NEW t \in Threads, StopRead(t)
  PROVE  ChainInv'
<1>1. /\ calls' \in 0..MaxCalls /\ willread' = FALSE
      /\ UNCHANGED <<rd, wr, cl, finalwrite, blockwrite, refcnt, data, ioVars,
                     stack, held, destroyed>>
  BY CountBound DEF StopRead
<1>2. StackOK' /\ OneChainEach'
  BY <1>1, SamePlaces, SameChains DEF ioVars
<1> QED
  BY <1>1, <1>2 DEF ChainInv, StatusOK, DataOK, data, ioVars

\* A final_write made before left the write side busy, so it starts one chain only.
LEMMA FinalWriteChain ==
  ASSUME ChainInv, NothingForgotten, NEW t \in Threads, FinalWrite(t)
  PROVE  ChainInv'
<1> USE DEF ChainInv
<1>1. /\ calls' \in 0..MaxCalls /\ finalwrite' = TRUE
      /\ wr' = IF wr = 0 THEN 1 ELSE wr
      /\ IF wr = 0 THEN Call(t, "handle_final_w") ELSE stack' = stack
      /\ UNCHANGED <<rd, willread, cl, blockwrite, refcnt, data, ioVars, held, destroyed>>
  BY CountBound DEF FinalWrite, NothingForgotten
<1>2. CASE wr = 0
  <2>1. wop = "none" /\ Places(WriteFrames) = {}
    BY <1>2 DEF OneChainEach, OneChain
  <2>2. "handle_final_w" \in Frames /\ "handle_final_w" \in WriteFrames
        /\ "handle_final_w" \notin ReadFrames
    BY DEF ReadFrames, WriteFrames, Frames, AppFrames, Continuation
  <2>3. /\ StackOK'
        /\ Places(ReadFrames)' = Places(ReadFrames)
        /\ Places(WriteFrames)' = Places(WriteFrames) \cup {New(t)}
    BY <1>1, <1>2, <2>2, CallStack, CallPlaces
  <2>4. OneChainEach'
    BY <1>1, <1>2, <2>1, <2>3 DEF OneChainEach, OneChain, ioVars
  <2> QED
    BY <1>1, <1>2, <2>3, <2>4 DEF StatusOK, DataOK, data, ioVars
<1>3. CASE wr # 0
  <2>1. StackOK' /\ OneChainEach'
    BY <1>1, <1>3, SamePlaces, SameChains DEF ioVars
  <2> QED
    BY <1>1, <1>3, <2>1 DEF StatusOK, DataOK, data, ioVars
<1> QED
  BY <1>2, <1>3

LEMMA CloseChain ==
  ASSUME ChainInv, NEW t \in Threads, Close(t)
  PROVE  ChainInv'
<1>1. /\ cl' = 1 /\ Call(t, "io_close")
      /\ UNCHANGED <<rd, willread, wr, finalwrite, blockwrite, refcnt, data, ioVars,
                     held, destroyed, calls>>
  BY DEF Close
<1>2. "io_close" \in Frames \ ChainFrames
  BY DEF ChainFrames, ReadFrames, WriteFrames, Frames, CodeFrames
<1>3. StackOK' /\ OneChainEach'
  BY <1>1, <1>2, OtherFrames, SameChains DEF ioVars
<1> QED
  BY <1>1, <1>3 DEF ChainInv, StatusOK, DataOK, data, ioVars

LEMMA RefChain ==
  ASSUME ChainInv, NEW t \in Threads, NEW u \in Users, Ref(t, u)
  PROVE  ChainInv'
<1>1. /\ calls' \in 0..MaxCalls /\ refcnt' = refcnt + 1 /\ held' = held \cup {u}
      /\ UNCHANGED <<status, data, ioVars, stack, destroyed>>
  BY CountBound DEF Ref
<1>2. StackOK' /\ OneChainEach'
  BY <1>1, SamePlaces, SameChains DEF status, ioVars
<1>3. u \in Threads
  BY DEF Threads
<1> QED
  BY <1>1, <1>2, <1>3 DEF ChainInv, StatusOK, DataOK, status, data, ioVars

LEMMA UnrefChain ==
  ASSUME ChainInv, NEW t \in Threads, NEW u \in Users, Unref(t, u)
  PROVE  ChainInv'
<1>1. /\ refcnt' = refcnt - 1 /\ held' = held \ {u}
      /\ UNCHANGED <<status, data, ioVars, destroyed, calls>>
      /\ Call(t, "io_destroy") \/ stack' = stack
  BY DEF Unref
<1>2. "io_destroy" \in Frames \ ChainFrames
  BY DEF ChainFrames, ReadFrames, WriteFrames, Frames, CodeFrames
<1>3. StackOK' /\ OneChainEach'
  BY <1>1, <1>2, OtherFrames, SameChains DEF status, ioVars
<1> QED
  BY <1>1, <1>3 DEF ChainInv, StatusOK, DataOK, status, data, ioVars

LEMMA ApiChain ==
  ASSUME ChainInv, NothingForgotten, NEW t \in Threads, Api(t)
  PROVE  ChainInv'
BY WriteChain, TriggerReadChain, StopReadChain, FinalWriteChain, CloseChain, RefChain, UnrefChain
   DEF Api

-----------------------------------------------------------------------------
(* The chains: the completions.                                            *)

LEMMA ReadCompletes ==
  ASSUME ChainInv, rop \in {"live", "dead"}, rop' = "none",
         NEW f \in {"handle_read", "handle_error_r"}, Call(Io, f),
         UNCHANGED <<status, refcnt, data, sock, wop, held, destroyed, calls>>
  PROVE  ChainInv'
<1> USE DEF ChainInv
<1>1. rd = 1 /\ Places(ReadFrames) = {}
  BY DEF OneChainEach, OneChain
<1>2. f \in Frames /\ f \in ReadFrames /\ f \notin WriteFrames
  BY DEF ReadFrames, WriteFrames, Frames, AppFrames, Continuation
<1>3. Io \in Threads
  BY DEF Threads
<1>4. /\ StackOK'
      /\ Places(ReadFrames)' = Places(ReadFrames) \cup {New(Io)}
      /\ Places(WriteFrames)' = Places(WriteFrames)
  BY <1>2, <1>3, CallStack, CallPlaces
<1>5. OneChainEach'
  BY <1>1, <1>4 DEF OneChainEach, OneChain, status
<1> QED
  BY <1>4, <1>5 DEF StatusOK, DataOK, status, data, Ops

LEMMA WriteCompletes ==
  ASSUME ChainInv, wop \in {"live", "dead"}, wop' = "none",
         NEW f \in {"process_write", "handle_error_w"}, Call(Io, f), DataOK',
         UNCHANGED <<status, refcnt, sock, rop, held, destroyed, calls>>
  PROVE  ChainInv'
<1> USE DEF ChainInv
<1>1. wr = 1 /\ Places(WriteFrames) = {}
  BY DEF OneChainEach, OneChain
<1>2. f \in Frames /\ f \in WriteFrames /\ f \notin ReadFrames
  BY DEF ReadFrames, WriteFrames, Frames, AppFrames, CodeFrames, Continuation
<1>3. Io \in Threads
  BY DEF Threads
<1>4. /\ StackOK'
      /\ Places(WriteFrames)' = Places(WriteFrames) \cup {New(Io)}
      /\ Places(ReadFrames)' = Places(ReadFrames)
  BY <1>2, <1>3, CallStack, CallPlaces
<1>5. OneChainEach'
  BY <1>1, <1>4 DEF OneChainEach, OneChain, status
<1> QED
  BY <1>4, <1>5 DEF StatusOK, status, Ops

LEMMA CompletionChain == ASSUME ChainInv, Completion PROVE ChainInv'
<1>1. CASE ReadSucceeds
  BY <1>1, ReadCompletes DEF ReadSucceeds
<1>2. CASE ReadFails
  BY <1>2, ReadCompletes DEF ReadFails
<1>3. CASE WriteSucceeds
  <2>1. DataOK'
    <3>1. sent \o buffer \in Seq(Nat)
      BY ConcatProperties DEF ChainInv, DataOK
    <3> QED
      BY <1>3, <3>1 DEF WriteSucceeds, ChainInv, DataOK
  <2> QED
    BY <1>3, <2>1, WriteCompletes DEF WriteSucceeds
<1>4. CASE WriteFails
  <2>1. DataOK'
    <3>1. PICK k \in 0..(IF wop = "live" THEN Len(buffer) ELSE 0) :
                 sent' = sent \o SubSeq(buffer, 1, k)
      BY <1>4 DEF WriteFails
    <3>2. buffer \in Seq(Nat) /\ Len(buffer) \in Nat
      BY DEF ChainInv, DataOK
    <3>3. k \in 0..Len(buffer)
      BY <3>2
    <3>4. SubSeq(buffer, 1, k) \in Seq(Nat)
      BY <3>2, <3>3
    <3>5. sent' \in Seq(Nat)
      BY <3>1, <3>4, ConcatProperties DEF ChainInv, DataOK
    <3> QED
      BY <1>4, <3>5 DEF WriteFails, ChainInv, DataOK
  <2> QED
    BY <1>4, <2>1, WriteCompletes DEF WriteFails
<1> QED
  BY <1>1, <1>2, <1>3, <1>4 DEF Completion

LEMMA StutterChain == ASSUME ChainInv, UNCHANGED vars PROVE ChainInv'
<1>1. StackOK' /\ OneChainEach'
  BY SamePlaces, SameChains DEF vars, status, ioVars
<1> QED
  BY <1>1 DEF ChainInv, StatusOK, DataOK, vars, status, data, ioVars

-----------------------------------------------------------------------------
(* NothingForgotten is inductive given the types of the status bits.       *)

LEMMA ApiForgets ==
  ASSUME ChainInv, NothingForgotten, NEW t \in Threads, Api(t)
  PROVE  NothingForgotten'
<1> USE DEF NothingForgotten
<1>1. CASE \E n \in WriteSizes : Write(t, n)
  BY <1>1 DEF Write, IoFilterOut, WriteNow, WriteLater
<1>2. CASE TriggerRead(t)
  BY <1>2 DEF TriggerRead, data
<1>3. CASE StopRead(t)
  BY <1>3 DEF StopRead, data
<1>4. CASE FinalWrite(t)
  BY <1>4 DEF FinalWrite, data
<1>5. CASE Close(t)
  BY <1>5 DEF Close, data
<1>6. CASE \E u \in Users : Ref(t, u) \/ Unref(t, u)
  BY <1>6 DEF Ref, Unref, status, data
<1> QED
  BY <1>1, <1>2, <1>3, <1>4, <1>5, <1>6 DEF Api

LEMMA StepForgets ==
  ASSUME ChainInv, NothingForgotten, NEW t \in Threads, Step(t)
  PROVE  NothingForgotten'
<1> USE DEF NothingForgotten
<1>1. StatusOK
  BY DEF ChainInv
<1>2. CASE HandlerReturns(t)
  BY <1>2 DEF HandlerReturns, status, data
<1>3. CASE InitUnref(t) \/ ClosedAgain(t)
  BY <1>3 DEF InitUnref, ClosedAgain, status, data
<1>4. CASE IoClose(t)
  BY <1>4 DEF IoClose, status, data
<1>5. CASE Closed(t)
  BY <1>5 DEF Closed, data
<1>6. CASE ProcessRead(t)
  BY <1>6 DEF ProcessRead, data
<1>7. CASE ProcessWrite(t)
  BY <1>7 DEF ProcessWrite, status
<1>8. CASE Notified(t)
  BY <1>8 DEF Notified
<1>9. CASE ReadError(t)
  <2>1. rd' # 0
    BY <1>1, <1>9 DEF ReadError, Flip, StatusOK
  <2> QED
    BY <1>9, <2>1 DEF ReadError, data
<1>10. CASE WriteError(t)
  <2>1. wr' # 0
    BY <1>1, <1>10 DEF WriteError, Flip, StatusOK
  <2> QED
    BY <1>10, <2>1 DEF WriteError, data
<1>11. CASE IoDestroy(t)
  BY <1>11 DEF IoDestroy, status, data
<1> QED
  BY <1>2, <1>3, <1>4, <1>5, <1>6, <1>7, <1>8, <1>9, <1>10, <1>11 DEF Step

LEMMA CompletionForgets ==
  ASSUME NothingForgotten, Completion
  PROVE  NothingForgotten'
BY DEF NothingForgotten, Completion, ReadSucceeds, ReadFails, WriteSucceeds, WriteFails,
       status, data


-----------------------------------------------------------------------------
(* The sequence 1..n, and the parts of one that is cut.                    *)

LEMMA SequencedType ==
  ASSUME NEW n \in Nat
  PROVE  Sequenced(n) \in Seq(Nat) /\ Len(Sequenced(n)) = n
BY DEF Sequenced

\* The next m units continue the first n ones.
LEMMA SequencedMore ==
  ASSUME NEW n \in Nat, NEW m \in Nat
  PROVE  Sequenced(n) \o [i \in 1..m |-> n + i] = Sequenced(n + m)
<1> DEFINE a == Sequenced(n)
           b == [i \in 1..m |-> n + i]
           c == Sequenced(n + m)
<1>1. a \in Seq(Nat) /\ b \in Seq(Nat) /\ c \in Seq(Nat)
      /\ Len(a) = n /\ Len(b) = m /\ Len(c) = n + m
  BY SequencedType
<1>2. /\ \A i \in 1..n : a[i] = c[i]
      /\ \A i \in 1..m : b[i] = c[n + i]
  BY DEF Sequenced
<1> HIDE DEF a, b, c
<1>3. a \o b \in Seq(Nat) /\ Len(a \o b) = n + m
      /\ \A i \in 1..(n + m) : (a \o b)[i] = IF i <= n THEN a[i] ELSE b[i - n]
  BY <1>1, ConcatProperties
<1>4. ASSUME NEW i \in 1..(n + m) PROVE (a \o b)[i] = c[i]
  <2>1. CASE i <= n
    BY <1>2, <1>3, <2>1
  <2>2. CASE i > n
    <3>1. i - n \in 1..m /\ n + (i - n) = i
      BY <2>2
    <3>2. b[i - n] = c[n + (i - n)]
      BY <1>2, <3>1, Zenon
    <3>3. (a \o b)[i] = b[i - n]
      BY <1>3, <2>2
    <3>4. c[n + (i - n)] = c[i]
      BY <3>1, Zenon
    <3> QED
      BY <3>2, <3>3, <3>4, Zenon
  <2>3. i <= n \/ i > n
    OBVIOUS
  <2> QED
    BY <2>1, <2>2, <2>3, Zenon
<1>5. a \o b = c
  BY <1>1, <1>3, <1>4, SeqEqual
<1> QED
  BY <1>5 DEF a, b, c

\* What comes first of 1..n is 1..k.
LEMMA SequencedPrefix ==
  ASSUME NEW n \in Nat, NEW a \in Seq(Nat), NEW b \in Seq(Nat), a \o b = Sequenced(n)
  PROVE  a = Sequenced(Len(a)) /\ Len(a) <= n /\ (b = << >> => Len(a) = n)
<1>1. Len(a) \in Nat /\ Len(b) \in Nat /\ Len(a) + Len(b) = n
  <2>1. Len(a \o b) = Len(a) + Len(b)
    BY ConcatProperties
  <2>2. Len(a \o b) = n
    BY SequencedType, Zenon
  <2>3. Len(a) \in Nat /\ Len(b) \in Nat
    OBVIOUS
  <2> QED
    BY <2>1, <2>2, <2>3, Zenon
<1>2. Sequenced(Len(a)) \in Seq(Nat) /\ Len(Sequenced(Len(a))) = Len(a)
  BY <1>1, SequencedType
<1>3. ASSUME NEW i \in 1..Len(a) PROVE a[i] = Sequenced(Len(a))[i]
  <2>1. (a \o b)[i] = a[i]
    BY <1>1
  <2> QED
    BY <1>1, <2>1 DEF Sequenced
<1> QED
  BY <1>1, <1>2, <1>3, SeqEqual

LEMMA Regroup ==
  ASSUME NEW a \in Seq(Nat), NEW b \in Seq(Nat), NEW c \in Seq(Nat)
  PROVE  (a \o b) \o c = a \o (b \o c)
BY ConcatAssociative, SMTT(30)

\* A sequence cut after its first k elements.
LEMMA Cut ==
  ASSUME NEW s \in Seq(Nat), NEW k \in 0..Len(s)
  PROVE  /\ SubSeq(s, 1, k) \in Seq(Nat) /\ SubSeq(s, k + 1, Len(s)) \in Seq(Nat)
         /\ SubSeq(s, 1, k) \o SubSeq(s, k + 1, Len(s)) = s
<1>1. /\ 1 \in 1..(Len(s) + 1) /\ k \in (1 - 1)..Len(s) /\ Len(s) \in k..Len(s)
      /\ k \in Int /\ k + 1 \in Int /\ Len(s) \in Int
  OBVIOUS
<1>2. SubSeq(s, 1, k) \o SubSeq(s, k + 1, Len(s)) = SubSeq(s, 1, Len(s))
  BY <1>1, ConcatAdjacentSubSeq, Zenon
<1>3. SubSeq(s, 1, Len(s)) = s
  BY SubSeqFull, Zenon
<1>4. SubSeq(s, 1, k) \in Seq(Nat)
  <2>1. \A i \in 1..k : s[i] \in Nat
    OBVIOUS
  <2> QED
    BY <1>1, <2>1
<1>5. SubSeq(s, k + 1, Len(s)) \in Seq(Nat)
  <2>1. \A i \in (k + 1)..Len(s) : s[i] \in Nat
    OBVIOUS
  <2> QED
    BY <1>1, <2>1
<1> QED
  BY <1>2, <1>3, <1>4, <1>5, Zenon

-----------------------------------------------------------------------------
(* The invariant of the data.                                              *)

\* The frames of a write chain whose operation failed, or that announced the
\* end of the data: the chain then ends for good, and nothing is sent any more.
FailingFrames == {"handle_error_w", "error_w"}
Failing       == wr = 2 \/ Places(FailingFrames) # {}

\* Until then everything accepted is sent, in flight or cached, in order.
DataInv ==
  /\ SentInOrder
  /\ wop = "none" => buffer = << >>
  /\ ~Failing => sent \o buffer \o cache = Sequenced(accepted)

\* A side that is failing cannot write, and a chain that works is not failing.
LEMMA FailingChain ==
  ASSUME ChainInv
  PROVE  /\ wr = 0 => ~Failing
         /\ wop # "none" => ~Failing
         /\ \A t \in Threads : stack[t] # << >> /\ Last(stack[t]) \in WriteFrames \ FailingFrames
              => ~Failing /\ wop = "none"
<1> USE DEF ChainInv, OneChainEach, OneChain, Failing
<1>1. FailingFrames \subseteq WriteFrames
  BY DEF FailingFrames, WriteFrames
<1>2. \A p : p \in Places(FailingFrames) => p \in Places(WriteFrames)
  BY <1>1, PlacesDef
<1>3. wr = 0 => ~Failing
  BY <1>2
<1>4. wop # "none" => ~Failing
  BY <1>2
<1>5. ASSUME NEW t \in Threads, stack[t] # << >>, Last(stack[t]) \in WriteFrames \ FailingFrames
      PROVE  ~Failing /\ wop = "none"
  <2>1. Top(t) \in Places(WriteFrames) /\ Top(t) \notin Places(FailingFrames)
    BY <1>5, TopPlace
  <2> QED
    BY <1>2, <2>1
<1> QED
  BY <1>3, <1>4, <1>5

\* A step of a thread leaves the frames below the running one where they are.
LEMMA FailingPlaces ==
  ASSUME StackOK, NEW t \in Threads, stack[t] # << >> => Last(stack[t]) \notin FailingFrames,
         \/ \E f \in Frames : Call(t, f)
         \/ stack[t] # << >> /\ Return(t)
         \/ stack[t] # << >> /\ \E f \in Frames : Goto(t, f)
         \/ stack' = stack
  PROVE  Places(FailingFrames) \subseteq Places(FailingFrames)'
<1>1. stack[t] # << >> => Top(t) \notin Places(FailingFrames)
  BY TopPlace
<1>2. CASE \E f \in Frames : Call(t, f)
  BY <1>2, CallPlaces
<1>3. CASE stack[t] # << >> /\ Return(t)
  BY <1>1, <1>3, ReturnPlaces
<1>4. CASE stack[t] # << >> /\ \E f \in Frames : Goto(t, f)
  BY <1>1, <1>4, GotoPlaces
<1>5. CASE stack' = stack
  BY <1>5 DEF Places
<1> QED
  BY <1>2, <1>3, <1>4, <1>5

-----------------------------------------------------------------------------
(* The steps.                                                              *)

\* Steps that move no data.
LEMMA SameData ==
  ASSUME DataInv, UNCHANGED <<data, wop>>, Failing => Failing'
  PROVE  DataInv'
BY DEF DataInv, SentInOrder, data

\* What a write adds continues what was accepted.
LEMMA WriteData ==
  ASSUME ChainInv, NothingForgotten, DataInv, NEW t \in Threads, NEW n \in WriteSizes, Write(t, n)
  PROVE  DataInv'
<1>1. n \in Nat /\ accepted \in Nat /\ sent \in Seq(Nat) /\ buffer \in Seq(Nat)
      /\ cache \in Seq(Nat) /\ Len(sent) \in Nat
  BY BoundsAssumption DEF ChainInv, DataOK
<1>2. /\ accepted' = accepted + n /\ sent' = sent /\ stack' = stack
      /\ IF wr = 0 /\ ~blockwrite THEN WriteNow(n) ELSE WriteLater(n)
  BY DEF Write, IoFilterOut
<1>3. SentInOrder'
  BY <1>1, <1>2 DEF DataInv, SentInOrder
<1>4. Places(FailingFrames)' = Places(FailingFrames)
  BY <1>2 DEF Places
<1>5. Units(n) \in Seq(Nat) /\ Len(Units(n)) = n
  BY <1>1 DEF Units
<1>6. Sequenced(accepted) \o Units(n) = Sequenced(accepted')
  BY <1>1, <1>2, SequencedMore, Zenon DEF Units
<1>7. CASE wr = 0 /\ ~blockwrite
  <2>1. WriteNow(n)
    BY <1>2, <1>7
  <2>2. ~Failing /\ wop = "none"
    BY <1>7, FailingChain DEF ChainInv, OneChainEach, OneChain
  <2>3. buffer = << >> /\ cache = << >>
    BY <1>7, <2>2 DEF DataInv, NothingForgotten
  <2>4. sent = Sequenced(accepted)
    <3>1. sent \o buffer \o cache = sent
      BY <1>1, <2>3, ConcatEmptySeq
    <3> QED
      BY <2>2, <3>1 DEF DataInv
  <2>5. Fit(n) \in 0..n
    BY <1>1, BoundsAssumption DEF Fit
  <2> DEFINE a == SubSeq(Units(n), 1, Fit(n))
             b == SubSeq(Units(n), Fit(n) + 1, n)
  <2>6. a \in Seq(Nat) /\ b \in Seq(Nat) /\ a \o b = Units(n)
    BY <1>5, <2>5, Cut
  <2>7. buffer' = a /\ cache' = << >> \o b /\ wop' # "none"
    BY <2>1, <2>3 DEF WriteNow, IoWrite, Started
  <2> HIDE DEF a, b
  <2>8. cache' = b
    BY <2>6, <2>7, ConcatEmptySeq
  <2>9. sent' \o buffer' \o cache' = Sequenced(accepted')
    <3>1. (sent \o a) \o b = sent \o (a \o b)
      BY <1>1, <2>6, Regroup, ZenonT(60)
    <3> QED
      BY <1>2, <1>6, <2>4, <2>6, <2>7, <2>8, <3>1, Zenon
  <2> QED
    BY <1>3, <2>7, <2>9 DEF DataInv
<1>8. CASE ~(wr = 0 /\ ~blockwrite)
  <2>1. cache' = cache \o Units(n) /\ UNCHANGED <<wr, buffer, wop>>
    BY <1>2, <1>8 DEF WriteLater
  <2>2. ASSUME ~Failing'
        PROVE  sent' \o buffer' \o cache' = Sequenced(accepted')
    <3>1. sent \o buffer \o cache = Sequenced(accepted)
      BY <1>4, <2>1, <2>2 DEF DataInv, Failing
    <3>2. sent \o buffer \in Seq(Nat)
      BY <1>1, ConcatProperties
    <3>3. ((sent \o buffer) \o cache) \o Units(n) = (sent \o buffer) \o (cache \o Units(n))
      BY <1>1, <1>5, <3>2, Regroup, Zenon
    <3> QED
      BY <1>2, <1>6, <2>1, <3>1, <3>3, Zenon
  <2> QED
    BY <1>3, <2>1, <2>2 DEF DataInv
<1> QED
  BY <1>7, <1>8

\* What is taken from the cache is what comes next.
LEMMA CachedNext ==
  ASSUME ChainInv, DataInv, ~Failing, wop = "none", PopAndWrite, UNCHANGED <<sent, accepted>>
  PROVE  wop' # "none" /\ sent' \o buffer' \o cache' = Sequenced(accepted')
<1>1. accepted \in Nat /\ sent \in Seq(Nat) /\ cache \in Seq(Nat) /\ Len(cache) \in Nat
  BY DEF ChainInv, DataOK
<1>2. buffer = << >> /\ sent \o buffer \o cache = Sequenced(accepted)
  BY DEF DataInv
<1>3. PopSize \in 0..Len(cache)
  BY <1>1, BoundsAssumption DEF PopSize
<1>4. /\ buffer' \in Seq(Nat) /\ cache' \in Seq(Nat) /\ buffer' \o cache' = cache
      /\ wop' # "none"
  BY <1>1, <1>3, Cut DEF PopAndWrite, IoWrite, Started
<1>5. sent \o buffer = sent
  BY <1>1, <1>2, ConcatEmptySeq
<1>6. (sent \o buffer') \o cache' = sent \o (buffer' \o cache')
  BY <1>1, <1>4, Regroup, ZenonT(60)
<1> QED
  BY <1>2, <1>4, <1>5, <1>6, Zenon

LEMMA ProcessWriteData ==
  ASSUME ChainInv, DataInv, NEW t \in Threads, ProcessWrite(t)
  PROVE  DataInv'
<1>1. /\ stack[t] # << >> /\ Last(stack[t]) = "process_write"
      /\ UNCHANGED <<status, sent, accepted>>
  BY DEF ProcessWrite, Running
<1>2. ~Failing /\ wop = "none"
  BY <1>1, FailingChain DEF WriteFrames, FailingFrames
<1>3. SentInOrder'
  BY <1>1 DEF DataInv, SentInOrder
<1>4. CASE cache # << >>
  BY <1>1, <1>2, <1>3, <1>4, CachedNext DEF ProcessWrite, DataInv
<1>5. CASE cache = << >>
  <2>1. UNCHANGED <<cache, buffer, wop>>
    BY <1>5 DEF ProcessWrite
  <2> QED
    BY <1>1, <1>2, <1>3, <2>1 DEF DataInv
<1> QED
  BY <1>4, <1>5

LEMMA NotifiedData ==
  ASSUME ChainInv, DataInv, NEW t \in Threads, Notified(t)
  PROVE  DataInv'
<1>1. /\ stack[t] # << >> /\ Last(stack[t]) = "notified"
      /\ UNCHANGED <<sent, accepted>>
  BY DEF Notified, Running
<1>2. ~Failing /\ wop = "none"
  BY <1>1, FailingChain DEF WriteFrames, FailingFrames
<1>3. SentInOrder'
  BY <1>1 DEF DataInv, SentInOrder
<1>4. CASE cache # << >>
  BY <1>1, <1>2, <1>3, <1>4, CachedNext DEF Notified, DataInv
<1>5. CASE cache = << >>
  <2>1. UNCHANGED <<cache, buffer, wop>>
    BY <1>5 DEF Notified
  <2> QED
    BY <1>1, <1>2, <1>3, <2>1 DEF DataInv
<1> QED
  BY <1>4, <1>5

\* A write that completes sends what was in flight.
LEMMA WriteSucceedsData ==
  ASSUME ChainInv, DataInv, WriteSucceeds
  PROVE  DataInv'
<1>1. /\ wop = "live" /\ wop' = "none" /\ sent' = sent \o buffer /\ buffer' = << >>
      /\ UNCHANGED <<status, cache, accepted>>
  BY DEF WriteSucceeds
<1>2. accepted \in Nat /\ sent \in Seq(Nat) /\ buffer \in Seq(Nat) /\ cache \in Seq(Nat)
  BY DEF ChainInv, DataOK
<1>3. sent \o buffer \o cache = Sequenced(accepted)
  BY <1>1, FailingChain DEF DataInv
<1>4. sent' \in Seq(Nat)
  BY <1>1, <1>2, ConcatProperties
<1>5. sent' \o cache = Sequenced(accepted)
  BY <1>1, <1>3
<1>6. SentInOrder'
  BY <1>1, <1>2, <1>4, <1>5, SequencedPrefix, Zenon DEF SentInOrder
<1>7. sent' \o buffer' = sent'
  BY <1>1, <1>4, ConcatEmptySeq, Zenon
<1> QED
  BY <1>1, <1>5, <1>6, <1>7 DEF DataInv

\* One that fails may have sent a part; the rest is lost, and so is the chain.
LEMMA WriteFailsData ==
  ASSUME ChainInv, DataInv, WriteFails
  PROVE  DataInv'
<1>1. /\ wop # "none" /\ wop' = "none" /\ buffer' = << >> /\ Call(Io, "handle_error_w")
      /\ UNCHANGED <<cache, accepted>>
  BY DEF WriteFails
<1>2. /\ accepted \in Nat /\ sent \in Seq(Nat) /\ buffer \in Seq(Nat) /\ cache \in Seq(Nat)
      /\ Len(buffer) \in Nat
  BY DEF ChainInv, DataOK
<1>3. sent \o buffer \o cache = Sequenced(accepted)
  BY <1>1, FailingChain DEF DataInv
<1>4. PICK k \in 0..(IF wop = "live" THEN Len(buffer) ELSE 0) :
             sent' = sent \o SubSeq(buffer, 1, k)
  BY DEF WriteFails
<1>5. k \in 0..Len(buffer)
  BY <1>2
<1> DEFINE a == SubSeq(buffer, 1, k)
           b == SubSeq(buffer, k + 1, Len(buffer))
<1>6. a \in Seq(Nat) /\ b \in Seq(Nat) /\ a \o b = buffer /\ sent' = sent \o a
  BY <1>2, <1>4, <1>5, Cut
<1> HIDE DEF a, b
<1>7. sent' \in Seq(Nat) /\ b \o cache \in Seq(Nat)
  BY <1>2, <1>6, ConcatProperties
<1>8. sent' \o (b \o cache) = Sequenced(accepted)
  <2>1. sent' \o b = sent \o buffer
    BY <1>2, <1>6, Regroup, ZenonT(60)
  <2>2. sent' \in Seq(Nat) /\ b \in Seq(Nat) /\ cache \in Seq(Nat)
    BY <1>2, <1>6, <1>7
  <2>3. (sent' \o b) \o cache = sent' \o (b \o cache)
    BY <2>2, Regroup, Zenon
  <2> QED
    BY <1>3, <2>1, <2>3
<1>9. SentInOrder'
  BY <1>1, <1>2, <1>7, <1>8, SequencedPrefix, Zenon DEF SentInOrder
<1>10. Failing'
  <2>1. Io \in Threads /\ "handle_error_w" \in Frames /\ "handle_error_w" \in FailingFrames
    BY DEF Threads, Frames, AppFrames, Continuation, FailingFrames
  <2>2. Places(FailingFrames)' = Places(FailingFrames) \cup {New(Io)}
    BY <1>1, <2>1, CallPlaces DEF ChainInv
  <2> QED
    BY <2>2 DEF Failing
<1> QED
  BY <1>1, <1>9, <1>10 DEF DataInv

\* Every other step moves no data, and a failing chain goes on failing.
LEMMA QuietStep ==
  ASSUME ChainInv, NEW t \in Threads, stack[t] # << >>, Last(stack[t]) \notin FailingFrames,
         NEW f \in Frames, wr = 2 => wr' = 2,
         Goto(t, f) \/ Return(t) \/ PrepareDestroy(t)
  PROVE  Failing => Failing'
<1>1. "io_destroy" \in Frames
  BY DEF Frames, CodeFrames
<1>2. Return(t) \/ \E g \in Frames : Goto(t, g)
  BY <1>1 DEF PrepareDestroy
<1>3. Places(FailingFrames) \subseteq Places(FailingFrames)'
  BY <1>2, FailingPlaces DEF ChainInv
<1> QED
  BY <1>3 DEF Failing

LEMMA ApiData ==
  ASSUME ChainInv, NothingForgotten, DataInv, NEW t \in Threads, Api(t)
  PROVE  DataInv'
<1>1. CASE \E n \in WriteSizes : Write(t, n)
  BY <1>1, WriteData
<1>2. ASSUME Places(FailingFrames) \subseteq Places(FailingFrames)', wr = 2 => wr' = 2,
             UNCHANGED <<data, wop>>
      PROVE  DataInv'
  BY <1>2, SameData DEF Failing
<1>3. CASE TriggerRead(t) \/ StopRead(t) \/ \E u \in Users : Ref(t, u)
  <2>1. UNCHANGED <<data, wop, wr, stack>>
    BY <1>3 DEF TriggerRead, StopRead, Ref, status, ioVars
  <2> QED
    BY <1>2, <2>1 DEF Places
<1>4. ASSUME InApp(t), NEW f \in Frames, Call(t, f) \/ stack' = stack
      PROVE  Places(FailingFrames) \subseteq Places(FailingFrames)'
  <2>1. CASE Call(t, f)
    BY <1>4, <2>1, CallPlaces DEF ChainInv
  <2>2. CASE stack' = stack
    BY <2>2 DEF Places
  <2> QED
    BY <1>4, <2>1, <2>2
<1>5. {"handle_final_w", "io_close", "io_destroy"} \subseteq Frames
  BY DEF Frames, AppFrames, CodeFrames, Continuation
<1>6. CASE FinalWrite(t)
  <2>1. /\ UNCHANGED <<data, wop>> /\ InApp(t) /\ (wr = 2 => wr' = 2)
        /\ Call(t, "handle_final_w") \/ stack' = stack
    BY <1>6 DEF FinalWrite, ioVars
  <2> QED
    BY <1>2, <1>4, <1>5, <2>1
<1>7. CASE Close(t)
  <2>1. UNCHANGED <<data, wop, wr>> /\ InApp(t) /\ Call(t, "io_close")
    BY <1>7 DEF Close, ioVars
  <2> QED
    BY <1>2, <1>4, <1>5, <2>1
<1>8. CASE \E u \in Users : Unref(t, u)
  <2>1. UNCHANGED <<data, wop, wr>> /\ InApp(t) /\ (Call(t, "io_destroy") \/ stack' = stack)
    BY <1>8 DEF Unref, ioVars, status
  <2> QED
    BY <1>2, <1>4, <1>5, <2>1
<1> QED
  BY <1>1, <1>3, <1>6, <1>7, <1>8 DEF Api

LEMMA StepData ==
  ASSUME ChainInv, DataInv, NEW t \in Threads, Step(t)
  PROVE  DataInv'
<1>1. StackOK
  BY DEF ChainInv
<1>2. ASSUME UNCHANGED <<data, wop>>, Failing => Failing'
      PROVE  DataInv'
  BY <1>2, SameData
<1>3. "unref" \in Frames
  BY DEF Frames, CodeFrames
<1>4. CASE HandlerReturns(t)
  <2> DEFINE f == Continuation[Last(stack[t])]
  <2>1. /\ stack[t] # << >> /\ Last(stack[t]) \in AppFrames /\ Goto(t, f)
        /\ UNCHANGED <<data, wop, wr>>
    BY <1>4 DEF HandlerReturns, status, ioVars
  <2>2. f \in Frames
    BY <2>1, ContinuationKind
  <2>3. Last(stack[t]) \in FailingFrames => f \in FailingFrames
    BY <2>1 DEF FailingFrames, Continuation, AppFrames
  <2> HIDE DEF f
  <2>4. CASE Last(stack[t]) \in FailingFrames
    <3>1. Places(FailingFrames)' = Places(FailingFrames) \cup {Top(t)}
      BY <1>1, <2>1, <2>2, <2>3, <2>4, GotoPlaces
    <3> QED
      BY <1>2, <2>1, <3>1 DEF Failing
  <2>5. CASE Last(stack[t]) \notin FailingFrames
    BY <1>2, <2>1, <2>2, <2>5, QuietStep
  <2> QED
    BY <2>4, <2>5
<1>5. CASE InitUnref(t) \/ ClosedAgain(t) \/ ProcessRead(t) \/ ReadError(t) \/ IoDestroy(t)
  <2>1. stack[t] # << >> /\ Last(stack[t]) \notin FailingFrames
    BY <1>5 DEF InitUnref, ClosedAgain, ProcessRead, ReadError, IoDestroy, Running, FailingFrames
  <2>2. UNCHANGED <<data, wop, wr>> /\ (Return(t) \/ PrepareDestroy(t))
    BY <1>5 DEF InitUnref, ClosedAgain, ProcessRead, ReadError, IoDestroy, status, ioVars
  <2> QED
    BY <1>2, <1>3, <2>1, <2>2, QuietStep
<1>6. CASE IoClose(t)
  <2>1. stack[t] # << >> /\ Last(stack[t]) \notin FailingFrames
    BY <1>6 DEF IoClose, Running, FailingFrames
  <2>2. UNCHANGED <<data, wop, wr>> /\ Goto(t, "handle_close")
    BY <1>6 DEF IoClose, status
  <2>3. "handle_close" \in Frames
    BY DEF Frames, AppFrames, Continuation
  <2> QED
    BY <1>2, <2>1, <2>2, <2>3, QuietStep
<1>7. CASE Closed(t)
  <2>1. stack[t] # << >> /\ Last(stack[t]) = "closed" /\ UNCHANGED <<data, wop, wr>>
    BY <1>7 DEF Closed, Running, ioVars
  <2>2. CASE rd = 0 /\ ~willread
    <3>1. stack' = [stack EXCEPT ![t] =
                      Append(Append(Front(stack[t]), "closed2"), "handle_error_r")]
      BY <1>7, <2>2 DEF Closed
    <3>2. {"closed", "closed2", "handle_error_r"} \subseteq Frames
          /\ {"closed", "closed2", "handle_error_r"} \cap FailingFrames = {}
      BY DEF Frames, AppFrames, CodeFrames, Continuation, FailingFrames
    <3>3. "closed2" \in Frames /\ "handle_error_r" \in Frames
          /\ Last(stack[t]) \notin FailingFrames /\ "closed2" \notin FailingFrames
          /\ "handle_error_r" \notin FailingFrames
      BY <2>1, <3>2
    <3>4. Places(FailingFrames)' = Places(FailingFrames)
      BY <1>1, <2>1, <3>1, <3>3, GotoCall, ZenonT(60)
    <3> QED
      BY <1>2, <2>1, <3>4 DEF Failing
  <2>3. CASE ~(rd = 0 /\ ~willread)
    <3>1. PrepareDestroy(t) /\ Last(stack[t]) \notin FailingFrames
      BY <1>7, <2>1, <2>3 DEF Closed, FailingFrames
    <3> QED
      BY <1>2, <1>3, <2>1, <3>1, QuietStep
  <2> QED
    BY <2>2, <2>3
<1>8. CASE WriteError(t)
  <2>1. stack[t] # << >> /\ Last(stack[t]) \in WriteFrames /\ wr' = 3 - wr
        /\ UNCHANGED <<data, wop>>
    BY <1>8 DEF WriteError, Running, WriteFrames, Flip, ioVars
  <2>2. wr = 1
    BY <2>1, TopPlace DEF ChainInv, OneChainEach, OneChain
  <2> QED
    BY <1>2, <2>1, <2>2 DEF Failing
<1> QED
  BY <1>4, <1>5, <1>6, <1>7, <1>8, ProcessWriteData, NotifiedData DEF Step

LEMMA CompletionData ==
  ASSUME ChainInv, DataInv, Completion
  PROVE  DataInv'
<1>1. CASE ReadSucceeds \/ ReadFails
  <2>1. UNCHANGED <<data, wop, wr>> /\ (Call(Io, "handle_read") \/ Call(Io, "handle_error_r"))
    BY <1>1 DEF ReadSucceeds, ReadFails, status
  <2>2. Io \in Threads /\ "handle_read" \in Frames /\ "handle_error_r" \in Frames
    BY DEF Threads, Frames, AppFrames, Continuation
  <2>3. Places(FailingFrames) \subseteq Places(FailingFrames)'
    BY <2>1, <2>2, CallPlaces DEF ChainInv
  <2> QED
    BY <2>1, <2>3, SameData DEF Failing
<1> QED
  BY <1>1, WriteSucceedsData, WriteFailsData DEF Completion

\* Before anything was written.
LEMMA NoData ==
  ASSUME sent = << >>, buffer = << >>, cache = << >>, accepted = 0
  PROVE  DataInv
<1>1. Sequenced(0) = << >> /\ Len(<< >>) = 0
  BY DEF Sequenced
<1>2. << >> \o << >> \o << >> = << >>
  OBVIOUS
<1> QED
  BY <1>1, <1>2 DEF DataInv, SentInOrder

-----------------------------------------------------------------------------
(* What any user of the controller relies on, and the steps that keep it.  *)

SharedInv == ChainInv /\ NothingForgotten /\ DataInv

LEMMA ApiShared ==
  ASSUME SharedInv, NEW t \in Threads, Api(t)
  PROVE  SharedInv'
BY ApiChain, ApiForgets, ApiData DEF SharedInv

LEMMA StepShared ==
  ASSUME SharedInv, NEW t \in Threads, Step(t)
  PROVE  SharedInv'
BY StepChain, StepForgets, StepData DEF SharedInv

LEMMA CompletionShared ==
  ASSUME SharedInv, Completion
  PROVE  SharedInv'
BY CompletionChain, CompletionForgets, CompletionData DEF SharedInv

LEMMA StutterShared ==
  ASSUME SharedInv, UNCHANGED vars
  PROVE  SharedInv'
<1>1. UNCHANGED <<data, wop, wr, stack>> /\ UNCHANGED status
  BY DEF vars, status, ioVars
<1>2. Failing => Failing'
  BY <1>1 DEF Failing, Places
<1>3. DataInv'
  BY <1>1, <1>2, SameData DEF SharedInv
<1>4. NothingForgotten'
  BY <1>1 DEF SharedInv, NothingForgotten, status, data
<1> QED
  BY <1>3, <1>4, StutterChain DEF SharedInv
-----------------------------------------------------------------------------
(* The lifetime: the rest of the inductive invariant of the server.        *)

InitFrames    == {"handle_open", "unref"}
DestroyFrames == {"io_destroy"}

\* refcnt_ counts the holders, and io_init until it drops its reference.
References ==
  /\ held \subseteq Users
  /\ refcnt = Cardinality(held) + (IF Places(InitFrames) # {} THEN 1 ELSE 0)

\* What a thread inside the worker claims with its outermost frame: io_init a
\* reference, a completion the chain it belongs to, a user its reference.
Outermost ==
  /\ Places(InitFrames) \subseteq {<<Acc, 1>>}
  /\ \A t \in Threads : \A i \in DOMAIN stack[t] : stack[t][i] = "io_destroy" => Len(stack[t]) = 1
  /\ stack[Acc] # << >> => stack[Acc][1] \in InitFrames \cup DestroyFrames
  /\ stack[Io] # << >> => stack[Io][1] \in ReadFrames \cup WriteFrames \cup DestroyFrames
  /\ \A u \in Users : stack[u] # << >> => u \in held \/ stack[u][1] = "io_destroy"

\* The object is given back by one thread, once, when nothing claims it.
Destruction ==
  /\ \A p, q \in Places(DestroyFrames) : p = q
  /\ Places(DestroyFrames) # {} => Reclaimable /\ ~destroyed
  /\ destroyed => Reclaimable

IInv == SharedInv /\ References /\ Outermost /\ Destruction

-----------------------------------------------------------------------------
(* Nobody is inside a worker that can be given back.                       *)

\* A frame at the bottom of a stack is the place <<t, 1>>.
LEMMA Bottom ==
  ASSUME StackOK, NEW t \in Threads, stack[t] # << >>, NEW fs
  PROVE  /\ stack[t][1] \in fs <=> <<t, 1>> \in Places(fs)
         /\ 1 \in DOMAIN stack[t] /\ Len(stack[t]) \in DOMAIN stack[t]
         /\ Len(stack[t]) \in Nat \ {0} /\ DOMAIN stack[t] = 1..Len(stack[t])
<1>1. /\ 1 \in DOMAIN stack[t] /\ Len(stack[t]) \in DOMAIN stack[t]
      /\ Len(stack[t]) \in Nat \ {0} /\ DOMAIN stack[t] = 1..Len(stack[t])
  BY DEF StackOK
<1> QED
  BY <1>1, PlacesDef

\* An unclaimed worker: no reference, no chain, no frame but that of io_destroy.
LEMMA Quiet ==
  ASSUME IInv, Reclaimable
  PROVE  /\ held = {} /\ rop = "none" /\ wop = "none"
         /\ \A t \in Threads : stack[t] # << >> =>
              Len(stack[t]) = 1 /\ stack[t][1] = "io_destroy" /\ Last(stack[t]) = "io_destroy"
<1> USE DEF IInv, SharedInv, ChainInv
<1>1. Cardinality(held) = 0 /\ Places(InitFrames) = {}
  BY HeldNat DEF Reclaimable, References
<1>2. held = {}
  BY <1>1, HeldEmpty
<1>3. rd # 1 /\ wr # 1
  BY DEF Reclaimable, StatusOK
<1>4. rop = "none" /\ wop = "none" /\ Places(ReadFrames) = {} /\ Places(WriteFrames) = {}
  BY <1>3 DEF OneChainEach, OneChain
<1>5. ASSUME NEW t \in Threads, stack[t] # << >>
      PROVE  stack[t][1] = "io_destroy"
  <2>1. CASE t = Acc
    BY <1>1, <1>5, <2>1, Bottom DEF Outermost, DestroyFrames
  <2>2. CASE t = Io
    BY <1>4, <1>5, <2>2, Bottom DEF Outermost, DestroyFrames
  <2>3. CASE t \in Users
    BY <1>2, <1>5, <2>3 DEF Outermost
  <2> QED
    BY <2>1, <2>2, <2>3 DEF Threads
<1>6. ASSUME NEW t \in Threads, stack[t] # << >>
      PROVE  Len(stack[t]) = 1 /\ Last(stack[t]) = "io_destroy"
  BY <1>5, <1>6, Bottom DEF Outermost, Last
<1> QED
  BY <1>2, <1>4, <1>5, <1>6

\* A thread that may act on the worker keeps it alive.
LEMMA Alive ==
  ASSUME IInv, NEW t \in Threads,
         InApp(t) \/ (stack[t] # << >> /\ Last(stack[t]) # "io_destroy")
  PROVE  ~Reclaimable /\ ~destroyed /\ Places(DestroyFrames) = {}
<1>1. ~Reclaimable
  BY Quiet DEF InApp, AppFrames, Continuation
<1> QED
  BY <1>1 DEF IInv, Destruction

\* So does an outstanding operation.
LEMMA AliveOps ==
  ASSUME IInv, rop # "none" \/ wop # "none"
  PROVE  ~Reclaimable /\ ~destroyed /\ Places(DestroyFrames) = {}
BY Quiet DEF IInv, Destruction

\* Only the last frame of io_init, or of a completion, can leave the worker
\* unclaimed: a frame further in has one below it that claims.
LEMMA OnlyOutermost ==
  ASSUME IInv, NEW t \in Threads, stack[t] # << >>, Last(stack[t]) # "io_destroy",
         Reclaimable', held' = held,
         Last(stack[t]) \in ReadFrames \/ rd' = rd,
         Last(stack[t]) \in WriteFrames \/ wr' = wr,
         Last(stack[t]) \in InitFrames \/ refcnt' = refcnt
  PROVE  Len(stack[t]) = 1 /\ t \in {Acc, Io}
<1> USE DEF IInv, SharedInv, ChainInv
<1>1. /\ Top(t) \in Places(ReadFrames) <=> Last(stack[t]) \in ReadFrames
      /\ Top(t) \in Places(WriteFrames) <=> Last(stack[t]) \in WriteFrames
      /\ Top(t) \in Places(InitFrames) <=> Last(stack[t]) \in InitFrames
  BY TopPlace
<1>2. CASE Last(stack[t]) \in InitFrames
  BY <1>1, <1>2 DEF Outermost, Top
<1>3. CASE Last(stack[t]) \notin InitFrames
  <2>1. refcnt = 0 /\ Cardinality(held) = 0 /\ Places(InitFrames) = {}
    <3>1. refcnt = 0
      BY <1>3 DEF Reclaimable
    <3>2. Cardinality(held) \in Nat
      BY HeldNat
    <3> QED
      BY <3>1, <3>2 DEF References
  <2>2. held = {}
    BY <2>1, HeldEmpty
  <2>3. stack[t][1] # "io_destroy"
    BY Bottom DEF Outermost, Last
  <2>4. t \notin Users
    BY <2>2, <2>3 DEF Outermost
  <2>5. t # Acc
    BY <2>1, <2>3, Bottom DEF Outermost, DestroyFrames
  <2>6. t = Io
    BY <2>4, <2>5 DEF Threads
  <2>7. CASE <<Io, 1>> \in Places(ReadFrames)
    <3>1. rd = 1
      BY <2>7 DEF OneChainEach, OneChain
    <3>2. rd' # 1
      BY DEF Reclaimable
    <3>3. Top(t) = <<Io, 1>>
      BY <1>1, <2>7, <3>1, <3>2 DEF OneChainEach, OneChain
    <3> QED
      BY <2>6, <3>3 DEF Top
  <2>8. CASE <<Io, 1>> \in Places(WriteFrames)
    <3>1. wr = 1
      BY <2>8 DEF OneChainEach, OneChain
    <3>2. wr' # 1
      BY DEF Reclaimable
    <3>3. Top(t) = <<Io, 1>>
      BY <1>1, <2>8, <3>1, <3>2 DEF OneChainEach, OneChain
    <3> QED
      BY <2>6, <3>3 DEF Top
  <2> QED
    BY <2>3, <2>6, <2>7, <2>8, Bottom DEF Outermost, DestroyFrames
<1> QED
  BY <1>2, <1>3

-----------------------------------------------------------------------------
(* The three ways a frame ends, for the parts of IInv about stacks.        *)

LEMMA NoDestroyFrame ==
  ASSUME StackOK', Places(DestroyFrames)' = {}
  PROVE  \A u \in Threads : \A i \in DOMAIN stack'[u] : stack'[u][i] # "io_destroy"
<1> SUFFICES ASSUME NEW u \in Threads, NEW i \in DOMAIN stack'[u], stack'[u][i] = "io_destroy"
             PROVE  FALSE
  OBVIOUS
<1>1. <<u, i>> \in Places(DestroyFrames)'
  BY DEF Places, DestroyFrames
<1> QED
  BY <1>1

\* __prepare_destroy: the frame returns, or it becomes io_destroy.
LEMMA PrepareStep ==
  ASSUME IInv, NEW t \in Threads, stack[t] # << >>, Last(stack[t]) # "io_destroy",
         PrepareDestroy(t), held' = held, destroyed' = destroyed,
         Last(stack[t]) \in ReadFrames \/ rd' = rd,
         Last(stack[t]) \in WriteFrames \/ wr' = wr,
         Last(stack[t]) \in InitFrames \/ refcnt' = refcnt
  PROVE  /\ StackOK' /\ Outermost' /\ Destruction'
         /\ Places(InitFrames)' = Places(InitFrames) \ {Top(t)}
<1> USE DEF IInv, SharedInv, ChainInv
<1>1. ~destroyed' /\ Places(DestroyFrames) = {}
  BY Alive
<1>2. CASE Reclaimable'
  <2>1. Len(stack[t]) = 1 /\ t \in {Acc, Io}
    BY <1>2, OnlyOutermost
  <2>2. Goto(t, "io_destroy")
    BY <1>2 DEF PrepareDestroy
  <2>3. "io_destroy" \in Frames /\ "io_destroy" \in DestroyFrames
        /\ "io_destroy" \notin InitFrames
    BY DEF Frames, CodeFrames, DestroyFrames, InitFrames
  <2>4. /\ StackOK'
        /\ \A u \in Threads \ {t} : stack'[u] = stack[u]
        /\ DOMAIN stack'[t] = DOMAIN stack[t] /\ Len(stack'[t]) = Len(stack[t])
        /\ stack'[t][Len(stack[t])] = "io_destroy"
    BY <2>2, <2>3, GotoStack
  <2>5. /\ Places(InitFrames)' = Places(InitFrames) \ {Top(t)}
        /\ Places(DestroyFrames)' = {Top(t)}
    BY <1>1, <2>2, <2>3, GotoPlaces
  <2>6. Outermost'
    BY <2>1, <2>4, <2>5, ThreadsAssumption DEF Outermost, DestroyFrames, Threads
  <2>7. Destruction'
    BY <1>1, <1>2, <2>5 DEF Destruction
  <2> QED
    BY <2>4, <2>5, <2>6, <2>7
<1>3. CASE ~Reclaimable'
  <2>1. Return(t)
    BY <1>3 DEF PrepareDestroy
  <2>2. /\ StackOK'
        /\ \A u \in Threads \ {t} : stack'[u] = stack[u]
        /\ Len(stack'[t]) = Len(stack[t]) - 1
        /\ DOMAIN stack'[t] = DOMAIN stack[t] \ {Len(stack[t])}
        /\ \A i \in DOMAIN stack'[t] : stack'[t][i] = stack[t][i]
    BY <2>1, ReturnStack
  <2>3. /\ Places(InitFrames)' = Places(InitFrames) \ {Top(t)}
        /\ Places(DestroyFrames)' = {}
    BY <1>1, <2>1, ReturnPlaces
  <2>4. stack'[t] # << >> => 1 \in DOMAIN stack'[t]
    BY <2>2 DEF StackOK
  <2>5. \A u \in Threads : stack'[u] # << >> => stack[u] # << >> /\ stack'[u][1] = stack[u][1]
    BY <2>2, <2>4
  <2>6. \A u \in Threads : \A i \in DOMAIN stack'[u] : stack'[u][i] # "io_destroy"
    BY <2>2, <2>3, NoDestroyFrame
  <2>7. Outermost'
    BY <2>3, <2>5, <2>6 DEF Outermost, Threads
  <2>8. Destruction'
    BY <1>1, <2>3 DEF Destruction
  <2> QED
    BY <2>2, <2>3, <2>7, <2>8
<1> QED
  BY <1>2, <1>3

\* A frame becomes another of the same kind.
LEMMA GotoStep ==
  ASSUME IInv, NEW t \in Threads, stack[t] # << >>, Last(stack[t]) # "io_destroy",
         NEW f \in Frames \ {"io_destroy"}, Goto(t, f), held' = held, destroyed' = destroyed,
         Last(stack[t]) \in InitFrames <=> f \in InitFrames,
         Last(stack[t]) \in ReadFrames <=> f \in ReadFrames,
         Last(stack[t]) \in WriteFrames <=> f \in WriteFrames
  PROVE  /\ StackOK' /\ Outermost' /\ Destruction'
         /\ Places(InitFrames)' = Places(InitFrames)
<1> USE DEF IInv, SharedInv, ChainInv
<1>1. ~destroyed' /\ Places(DestroyFrames) = {}
  BY Alive
<1>2. /\ StackOK'
      /\ \A u \in Threads \ {t} : stack'[u] = stack[u]
      /\ DOMAIN stack'[t] = DOMAIN stack[t] /\ Len(stack'[t]) = Len(stack[t])
      /\ stack'[t][Len(stack[t])] = f
      /\ \A i \in DOMAIN stack[t] : i # Len(stack[t]) => stack'[t][i] = stack[t][i]
  BY GotoStack
<1>3. Places(InitFrames)' = Places(InitFrames)
  BY GotoKind
<1>4. Places(DestroyFrames)' = {}
  BY <1>1, GotoPlaces DEF DestroyFrames
<1>5. Destruction'
  BY <1>1, <1>4 DEF Destruction
<1>6. \A u \in Threads : \A i \in DOMAIN stack'[u] : stack'[u][i] # "io_destroy"
  BY <1>2, <1>4, NoDestroyFrame
<1>7. \A u \in Threads \ {t} : stack'[u] = stack[u]
  BY <1>2
<1>8. stack[t][1] # "io_destroy"
  BY <1>1, Bottom DEF DestroyFrames
<1>9. /\ stack[t][1] \in InitFrames => stack'[t][1] \in InitFrames
      /\ stack[t][1] \in ReadFrames => stack'[t][1] \in ReadFrames
      /\ stack[t][1] \in WriteFrames => stack'[t][1] \in WriteFrames
  BY <1>2, Bottom DEF Last
<1>10. Outermost'
  BY <1>3, <1>6, <1>7, <1>8, <1>9 DEF Outermost, Threads, DestroyFrames
<1> QED
  BY <1>2, <1>3, <1>5, <1>10

\* A frame returns, which leaves the worker claimed.
LEMMA ReturnStep ==
  ASSUME IInv, NEW t \in Threads, stack[t] # << >>, Last(stack[t]) # "io_destroy",
         Return(t), held' = held, destroyed' = destroyed
  PROVE  /\ StackOK' /\ Outermost' /\ Destruction'
         /\ Places(InitFrames)' = Places(InitFrames) \ {Top(t)}
<1> USE DEF IInv, SharedInv, ChainInv
<1>1. ~destroyed' /\ Places(DestroyFrames) = {}
  BY Alive
<1>2. /\ StackOK'
      /\ \A u \in Threads \ {t} : stack'[u] = stack[u]
      /\ Len(stack'[t]) = Len(stack[t]) - 1
      /\ DOMAIN stack'[t] = DOMAIN stack[t] \ {Len(stack[t])}
      /\ \A i \in DOMAIN stack'[t] : stack'[t][i] = stack[t][i]
  BY ReturnStack
<1>3. /\ Places(InitFrames)' = Places(InitFrames) \ {Top(t)}
      /\ Places(DestroyFrames)' = {}
  BY <1>1, ReturnPlaces
<1>4. stack'[t] # << >> => 1 \in DOMAIN stack'[t]
  BY <1>2 DEF StackOK
<1>5. \A u \in Threads : stack'[u] # << >> => stack[u] # << >> /\ stack'[u][1] = stack[u][1]
  BY <1>2, <1>4
<1>6. \A u \in Threads : \A i \in DOMAIN stack'[u] : stack'[u][i] # "io_destroy"
  BY <1>2, <1>3, NoDestroyFrame
<1>7. Outermost'
  BY <1>3, <1>5, <1>6 DEF Outermost, Threads
<1>8. Destruction'
  BY <1>1, <1>3 DEF Destruction
<1> QED
  BY <1>2, <1>3, <1>7, <1>8

\* A frame is called by a thread that may act on the worker, or by a completion.
LEMMA CallStep ==
  ASSUME IInv, NEW t \in Threads, NEW f \in Frames \ (InitFrames \cup DestroyFrames),
         Call(t, f), held' = held, destroyed' = destroyed,
         InApp(t) \/ (t = Io /\ stack[t] = << >> /\ (rop # "none" \/ wop # "none")
                         /\ f \in ReadFrames \cup WriteFrames)
  PROVE  /\ StackOK' /\ Outermost' /\ Destruction'
         /\ Places(InitFrames)' = Places(InitFrames)
<1> USE DEF IInv, SharedInv, ChainInv
<1>1. ~destroyed' /\ Places(DestroyFrames) = {}
  BY Alive, AliveOps
<1>2. /\ StackOK'
      /\ \A u \in Threads \ {t} : stack'[u] = stack[u]
      /\ Len(stack'[t]) = Len(stack[t]) + 1
      /\ stack'[t][Len(stack[t]) + 1] = f
      /\ \A i \in DOMAIN stack[t] : stack'[t][i] = stack[t][i]
  BY CallStack
<1>3. /\ Places(InitFrames)' = Places(InitFrames)
      /\ Places(DestroyFrames)' = {}
  BY <1>1, CallPlaces
<1>4. \A u \in Threads : \A i \in DOMAIN stack'[u] : stack'[u][i] # "io_destroy"
  BY <1>2, <1>3, NoDestroyFrame
<1>5. stack[t] # << >> => stack'[t][1] = stack[t][1]
  BY <1>2, Bottom
<1>6. stack[t] = << >> => t \in held \/ (t = Io /\ stack'[t][1] \in ReadFrames \cup WriteFrames)
  BY <1>2 DEF InApp
<1>7. held \subseteq Users
  BY DEF References
<1>8. Outermost'
  BY <1>2, <1>3, <1>4, <1>5, <1>6, <1>7, ThreadsAssumption DEF Outermost, Threads, DestroyFrames
<1>9. Destruction'
  BY <1>1, <1>3 DEF Destruction
<1> QED
  BY <1>2, <1>3, <1>8, <1>9


-----------------------------------------------------------------------------
(* Every step keeps the lifetime: the steps of a thread in the controller. *)

LEMMA HandlerReturnsInv ==
  ASSUME IInv, NEW t \in Threads, HandlerReturns(t)
  PROVE  References' /\ Outermost' /\ Destruction'
<1> DEFINE f == Continuation[Last(stack[t])]
<1>1. /\ stack[t] # << >> /\ Last(stack[t]) \in AppFrames /\ Goto(t, f)
      /\ UNCHANGED <<refcnt, held, destroyed>>
  BY DEF HandlerReturns
<1>2. /\ Last(stack[t]) # "io_destroy" /\ f \in Frames \ {"io_destroy"}
      /\ Last(stack[t]) \in ReadFrames <=> f \in ReadFrames
      /\ Last(stack[t]) \in WriteFrames <=> f \in WriteFrames
  BY <1>1, ContinuationKind
<1>3. Last(stack[t]) \in InitFrames <=> f \in InitFrames
  BY <1>1 DEF InitFrames, AppFrames, Continuation
<1> HIDE DEF f
<1>4. Outermost' /\ Destruction' /\ Places(InitFrames)' = Places(InitFrames)
  BY <1>1, <1>2, <1>3, GotoStep
<1>5. References'
  BY <1>1, <1>4 DEF IInv, References
<1> QED
  BY <1>4, <1>5

\* A frame ends by __prepare_destroy, and the count does not change.
LEMMA PreparedInv ==
  ASSUME IInv, NEW t \in Threads, stack[t] # << >>, PrepareDestroy(t),
         UNCHANGED <<refcnt, held, destroyed>>,
         Last(stack[t]) \in {"closed", "closed2", "process_read", "notified", "error_r", "error_w"},
         Last(stack[t]) \in ReadFrames \/ rd' = rd,
         Last(stack[t]) \in WriteFrames \/ wr' = wr
  PROVE  References' /\ Outermost' /\ Destruction'
<1>1. Last(stack[t]) # "io_destroy" /\ Last(stack[t]) \notin InitFrames
  BY DEF InitFrames
<1>2. Top(t) \notin Places(InitFrames)
  BY <1>1, TopPlace DEF IInv, SharedInv, ChainInv
<1> QED
  BY <1>1, <1>2, PrepareStep DEF IInv, References

LEMMA InitUnrefInv ==
  ASSUME IInv, NEW t \in Threads, InitUnref(t)
  PROVE  References' /\ Outermost' /\ Destruction'
<1> USE DEF IInv, SharedInv, ChainInv
<1>1. /\ stack[t] # << >> /\ Last(stack[t]) = "unref" /\ PrepareDestroy(t)
      /\ refcnt' = refcnt - 1
      /\ UNCHANGED <<rd, wr, held, destroyed>>
  BY DEF InitUnref, Running, status
<1>2. Last(stack[t]) \in InitFrames /\ Last(stack[t]) # "io_destroy"
  BY <1>1 DEF InitFrames
<1>3. /\ Outermost' /\ Destruction'
      /\ Places(InitFrames)' = Places(InitFrames) \ {Top(t)}
  BY <1>1, <1>2, PrepareStep
<1>4. Top(t) \in Places(InitFrames)
  BY <1>1, <1>2, TopPlace
<1>5. Places(InitFrames) # {} /\ Places(InitFrames)' = {}
  BY <1>3, <1>4 DEF Outermost
<1>6. References'
  BY <1>1, <1>5, HeldNat DEF References
<1> QED
  BY <1>3, <1>6

LEMMA IoCloseInv ==
  ASSUME IInv, NEW t \in Threads, IoClose(t)
  PROVE  References' /\ Outermost' /\ Destruction'
<1>1. /\ stack[t] # << >> /\ Last(stack[t]) = "io_close" /\ Goto(t, "handle_close")
      /\ UNCHANGED <<refcnt, held, destroyed>>
  BY DEF IoClose, Running
<1>2. /\ "handle_close" \in Frames
      /\ {"io_close", "handle_close"} \cap (InitFrames \cup ReadFrames \cup WriteFrames) = {}
  BY DEF Frames, AppFrames, Continuation, InitFrames, ReadFrames, WriteFrames
<1> QED
  BY <1>1, <1>2, GotoStep DEF IInv, References

LEMMA ClosedInv ==
  ASSUME IInv, NEW t \in Threads, Closed(t)
  PROVE  References' /\ Outermost' /\ Destruction'
<1> USE DEF IInv, SharedInv, ChainInv
<1>1. /\ stack[t] # << >> /\ Last(stack[t]) = "closed"
      /\ UNCHANGED <<wr, refcnt, held, destroyed>>
  BY DEF Closed, Running
<1>2. CASE rd = 0 /\ ~willread
  <2> DEFINE f == "closed2"
             g == "handle_error_r"
  <2>1. /\ f \in Frames /\ g \in Frames
        /\ stack' = [stack EXCEPT ![t] = Append(Append(Front(stack[t]), f), g)]
    BY <1>2 DEF Closed, Frames, AppFrames, CodeFrames, Continuation
  <2>2. /\ {f, g, "closed"} \cap DestroyFrames = {}
        /\ {f, g, "closed"} \cap InitFrames = {}
        /\ "closed" \notin ReadFrames \cup WriteFrames
    BY DEF InitFrames, DestroyFrames, ReadFrames, WriteFrames
  <2>3. /\ Last(stack[t]) \notin InitFrames /\ f \notin InitFrames /\ g \notin InitFrames
        /\ Last(stack[t]) \notin DestroyFrames /\ f \notin DestroyFrames /\ g \notin DestroyFrames
    BY <1>1, <2>2
  <2> HIDE DEF f, g
  <2>4. /\ StackOK'
        /\ \A u \in Threads \ {t} : stack'[u] = stack[u]
        /\ Len(stack[t]) # 1 => stack'[t][1] = stack[t][1]
        /\ Places(InitFrames)' = Places(InitFrames)
    BY <1>1, <2>1, <2>3, GotoCall, ZenonT(60)
  <2>5. Places(DestroyFrames)' = Places(DestroyFrames)
    BY <1>1, <2>1, <2>3, GotoCall, ZenonT(60)
  <2>6. ~destroyed /\ Places(DestroyFrames) = {}
    BY <1>1, Alive
  <2>7. \A u \in Threads : \A i \in DOMAIN stack'[u] : stack'[u][i] # "io_destroy"
    BY <2>4, <2>5, <2>6, NoDestroyFrame
  <2>8. stack[t][1] # "io_destroy"
    BY <1>1, <2>6, Bottom DEF DestroyFrames
  <2>9. Len(stack[t]) = 1 => stack[t][1] = "closed"
    BY <1>1 DEF Last
  <2>10. Len(stack[t]) = 1 => t \in Users
    BY <1>1, <2>2, <2>8, <2>9 DEF Outermost, Threads, DestroyFrames
  <2>11. stack[t] # << >> /\ (t \in Users => t \in held)
    BY <1>1, <2>8 DEF Outermost
  <2>12. Outermost'
    BY <1>1, <2>4, <2>7, <2>10, <2>11, ThreadsAssumption DEF Outermost, Threads, DestroyFrames
  <2>13. Destruction'
    BY <1>1, <2>5, <2>6 DEF Destruction
  <2>14. References'
    BY <1>1, <2>4 DEF References
  <2> QED
    BY <2>12, <2>13, <2>14
<1>3. CASE ~(rd = 0 /\ ~willread)
  <2>1. rd' = rd /\ PrepareDestroy(t)
    BY <1>3 DEF Closed
  <2> QED
    BY <1>1, <2>1, PreparedInv
<1> QED
  BY <1>2, <1>3

LEMMA ClosedAgainInv ==
  ASSUME IInv, NEW t \in Threads, ClosedAgain(t)
  PROVE  References' /\ Outermost' /\ Destruction'
<1>1. /\ stack[t] # << >> /\ Last(stack[t]) = "closed2" /\ PrepareDestroy(t)
      /\ UNCHANGED <<rd, wr, refcnt, held, destroyed>>
  BY DEF ClosedAgain, Running, status
<1> QED
  BY <1>1, PreparedInv

\* A frame of a chain returns because it started the next operation.
LEMMA ReturnedInv ==
  ASSUME IInv, NEW t \in Threads, stack[t] # << >>, Return(t),
         UNCHANGED <<refcnt, held, destroyed>>,
         Last(stack[t]) \in {"process_read", "process_write", "notified"}
  PROVE  References' /\ Outermost' /\ Destruction'
<1>1. Last(stack[t]) # "io_destroy" /\ Last(stack[t]) \notin InitFrames
  BY DEF InitFrames
<1>2. Top(t) \notin Places(InitFrames)
  BY <1>1, TopPlace DEF IInv, SharedInv, ChainInv
<1> QED
  BY <1>1, <1>2, ReturnStep DEF IInv, References

LEMMA ProcessReadInv ==
  ASSUME IInv, NEW t \in Threads, ProcessRead(t)
  PROVE  References' /\ Outermost' /\ Destruction'
<1>1. /\ stack[t] # << >> /\ Last(stack[t]) = "process_read"
      /\ UNCHANGED <<wr, refcnt, held, destroyed>>
      /\ Return(t) \/ PrepareDestroy(t)
  BY DEF ProcessRead, Running
<1>2. "process_read" \in ReadFrames
  BY DEF ReadFrames
<1> QED
  BY <1>1, <1>2, ReturnedInv, PreparedInv

LEMMA ProcessWriteInv ==
  ASSUME IInv, NEW t \in Threads, ProcessWrite(t)
  PROVE  References' /\ Outermost' /\ Destruction'
<1>1. /\ stack[t] # << >> /\ Last(stack[t]) = "process_write"
      /\ UNCHANGED <<refcnt, held, destroyed>>
      /\ Return(t) \/ Goto(t, "filter_notify")
  BY DEF ProcessWrite, Running
<1>2. /\ {"process_write", "filter_notify"} \subseteq WriteFrames
      /\ {"process_write", "filter_notify"} \cap (ReadFrames \cup InitFrames) = {}
      /\ "filter_notify" \in Frames
  BY DEF InitFrames, ReadFrames, WriteFrames, Frames, AppFrames, Continuation
<1>3. CASE Return(t)
  BY <1>1, <1>3, ReturnedInv
<1>4. CASE Goto(t, "filter_notify")
  BY <1>1, <1>2, <1>4, GotoStep DEF IInv, References
<1> QED
  BY <1>1, <1>3, <1>4

LEMMA NotifiedInv ==
  ASSUME IInv, NEW t \in Threads, Notified(t)
  PROVE  References' /\ Outermost' /\ Destruction'
<1>1. /\ stack[t] # << >> /\ Last(stack[t]) = "notified"
      /\ UNCHANGED <<rd, refcnt, held, destroyed>>
      /\ Return(t) \/ Goto(t, "handle_final_w") \/ PrepareDestroy(t)
  BY DEF Notified, Running
<1>2. /\ {"notified", "handle_final_w"} \subseteq WriteFrames
      /\ {"notified", "handle_final_w"} \cap (ReadFrames \cup InitFrames) = {}
      /\ "handle_final_w" \in Frames
  BY DEF InitFrames, ReadFrames, WriteFrames, Frames, AppFrames, Continuation
<1>3. CASE Return(t)
  BY <1>1, <1>3, ReturnedInv
<1>4. CASE Goto(t, "handle_final_w")
  BY <1>1, <1>2, <1>4, GotoStep DEF IInv, References
<1>5. CASE PrepareDestroy(t)
  BY <1>1, <1>2, <1>5, PreparedInv
<1> QED
  BY <1>1, <1>3, <1>4, <1>5

LEMMA ReadErrorInv ==
  ASSUME IInv, NEW t \in Threads, ReadError(t)
  PROVE  References' /\ Outermost' /\ Destruction'
<1>1. /\ stack[t] # << >> /\ Last(stack[t]) = "error_r" /\ PrepareDestroy(t)
      /\ UNCHANGED <<wr, refcnt, held, destroyed>>
  BY DEF ReadError, Running
<1>2. "error_r" \in ReadFrames
  BY DEF ReadFrames
<1> QED
  BY <1>1, <1>2, PreparedInv

LEMMA WriteErrorInv ==
  ASSUME IInv, NEW t \in Threads, WriteError(t)
  PROVE  References' /\ Outermost' /\ Destruction'
<1>1. /\ stack[t] # << >> /\ Last(stack[t]) = "error_w" /\ PrepareDestroy(t)
      /\ UNCHANGED <<rd, refcnt, held, destroyed>>
  BY DEF WriteError, Running
<1>2. "error_w" \in WriteFrames
  BY DEF WriteFrames
<1> QED
  BY <1>1, <1>2, PreparedInv

LEMMA IoDestroyInv ==
  ASSUME IInv, NEW t \in Threads, IoDestroy(t)
  PROVE  References' /\ Outermost' /\ Destruction'
<1> USE DEF IInv, SharedInv, ChainInv
<1>1. /\ stack[t] # << >> /\ Last(stack[t]) = "io_destroy" /\ destroyed' = TRUE /\ Return(t)
      /\ UNCHANGED <<status, refcnt, data, ioVars, held, calls>>
  BY DEF IoDestroy, Running
<1>2. Top(t) \in Places(DestroyFrames)
  BY <1>1, TopPlace DEF DestroyFrames
<1>3. Reclaimable /\ Places(DestroyFrames) \ {Top(t)} = {}
  BY <1>2 DEF Destruction
<1>4. /\ held = {} /\ Len(stack[t]) = 1
      /\ \A u \in Threads : stack[u] # << >> => stack[u][1] = "io_destroy"
  BY <1>1, <1>3, Quiet
<1>5. /\ StackOK'
      /\ \A u \in Threads \ {t} : stack'[u] = stack[u]
      /\ Len(stack'[t]) = Len(stack[t]) - 1
      /\ DOMAIN stack'[t] = DOMAIN stack[t] \ {Len(stack[t])}
      /\ \A i \in DOMAIN stack'[t] : stack'[t][i] = stack[t][i]
  BY <1>1, ReturnStack
<1>6. \A fs : Places(fs)' = Places(fs) \ {Top(t)}
  BY <1>1, ReturnPlaces
<1>7. "io_destroy" \notin InitFrames
  BY DEF InitFrames
<1>8. Top(t) \notin Places(InitFrames)
  BY <1>1, <1>7, TopPlace
<1>9. Places(InitFrames)' = Places(InitFrames) /\ Places(DestroyFrames)' = {}
  BY <1>3, <1>6, <1>8
<1>10. \A u \in Threads : \A i \in DOMAIN stack'[u] : stack'[u][i] # "io_destroy"
  BY <1>5, <1>9, NoDestroyFrame
<1>11. \A u \in Threads : stack'[u] = << >>
  <2> SUFFICES ASSUME NEW u \in Threads, stack'[u] # << >>
               PROVE  FALSE
    OBVIOUS
  <2>1. 1 \in DOMAIN stack'[u]
    BY <1>5 DEF StackOK
  <2>2. stack[u] # << >> /\ stack'[u][1] = stack[u][1]
    BY <1>1, <1>5, <2>1
  <2> QED
    BY <1>4, <1>10, <2>1, <2>2
<1>12. Outermost'
  BY <1>9, <1>10, <1>11 DEF Outermost, Threads
<1>13. Destruction'
  BY <1>1, <1>3, <1>9 DEF Destruction, Reclaimable, status
<1> QED
  BY <1>1, <1>9, <1>12, <1>13 DEF References

-----------------------------------------------------------------------------
(* Every step keeps the lifetime: the calls of the application.            *)

\* A step that calls and returns from nothing, while the worker is claimed.
LEMMA SameStack ==
  ASSUME IInv, stack' = stack, held \subseteq held', destroyed' = destroyed,
         ~destroyed, Places(DestroyFrames) = {}
  PROVE  Outermost' /\ Destruction' /\ Places(InitFrames)' = Places(InitFrames)
<1>1. \A fs : Places(fs)' = Places(fs)
  BY DEF Places
<1>2. Outermost'
  BY <1>1 DEF IInv, Outermost
<1>3. Destruction'
  BY <1>1 DEF IInv, Destruction
<1> QED
  BY <1>1, <1>2, <1>3

\* A call that only touches the state of the chains.
LEMMA PlainCallInv ==
  ASSUME IInv, NEW t \in Threads, InApp(t), stack' = stack,
         UNCHANGED <<refcnt, held, destroyed>>
  PROVE  References' /\ Outermost' /\ Destruction'
<1>1. Outermost' /\ Destruction' /\ Places(InitFrames)' = Places(InitFrames)
  BY Alive, SameStack
<1> QED
  BY <1>1 DEF IInv, References

\* A call that enters a callback or io_close.
LEMMA FrameCallInv ==
  ASSUME IInv, NEW t \in Threads, InApp(t),
         Call(t, "handle_final_w") \/ Call(t, "io_close"),
         UNCHANGED <<refcnt, held, destroyed>>
  PROVE  References' /\ Outermost' /\ Destruction'
<1>1. /\ "handle_final_w" \in Frames \ (InitFrames \cup DestroyFrames)
      /\ "io_close" \in Frames \ (InitFrames \cup DestroyFrames)
  BY DEF InitFrames, DestroyFrames, Frames, AppFrames, CodeFrames, Continuation
<1>2. Outermost' /\ Destruction' /\ Places(InitFrames)' = Places(InitFrames)
  BY <1>1, CallStep
<1> QED
  BY <1>2 DEF IInv, References

LEMMA RefInv ==
  ASSUME IInv, NEW t \in Threads, NEW u \in Users, Ref(t, u)
  PROVE  References' /\ Outermost' /\ Destruction'
<1> USE DEF IInv, SharedInv, ChainInv
<1>1. /\ InApp(t) /\ u \notin held /\ refcnt' = refcnt + 1 /\ held' = held \cup {u}
      /\ UNCHANGED <<stack, destroyed>>
  BY DEF Ref
<1>2. Outermost' /\ Destruction' /\ Places(InitFrames)' = Places(InitFrames)
  BY <1>1, Alive, SameStack
<1>3. Cardinality(held') = Cardinality(held) + 1
  BY <1>1, HeldNat, FS_AddElement
<1>4. refcnt = Cardinality(held) + (IF Places(InitFrames) # {} THEN 1 ELSE 0)
      /\ held \subseteq Users
  BY DEF References
<1>5. Cardinality(held) \in Nat
  BY HeldNat
<1>6. References'
  BY <1>1, <1>2, <1>3, <1>4, <1>5 DEF References
<1> QED
  BY <1>2, <1>6

LEMMA UnrefInv ==
  ASSUME IInv, NEW t \in Threads, NEW u \in Users, Unref(t, u)
  PROVE  References' /\ Outermost' /\ Destruction'
<1> USE DEF IInv, SharedInv, ChainInv
<1>1. /\ InApp(t) /\ u \in held /\ stack[u] = << >>
      /\ refcnt' = refcnt - 1 /\ held' = held \ {u}
      /\ UNCHANGED <<status, data, ioVars, destroyed, calls>>
      /\ IF Reclaimable' THEN Call(t, "io_destroy") ELSE stack' = stack
  BY DEF Unref
<1>2. ~Reclaimable /\ ~destroyed /\ Places(DestroyFrames) = {}
  BY <1>1, Alive
<1>3. Cardinality(held') = Cardinality(held) - 1 /\ Cardinality(held') \in Nat
      /\ Cardinality(held) \in Nat
  BY <1>1, HeldNat, FS_RemoveElement, FS_CardinalityType
<1>4. \A x \in Threads : \A i \in DOMAIN stack[x] : stack[x][i] # "io_destroy"
  <2> SUFFICES ASSUME NEW x \in Threads, NEW i \in DOMAIN stack[x], stack[x][i] = "io_destroy"
               PROVE  FALSE
    OBVIOUS
  <2>1. <<x, i>> \in Places(DestroyFrames)
    BY PlacesDef DEF DestroyFrames
  <2> QED
    BY <1>2, <2>1
<1>5. \A x \in Threads : stack[x] # << >> => 1 \in DOMAIN stack[x]
  BY Bottom
<1>6. held \subseteq Users /\ refcnt = Cardinality(held) + (IF Places(InitFrames) # {} THEN 1 ELSE 0)
  BY DEF References
<1>7. CASE Reclaimable'
  <2>1. Places(InitFrames) = {} /\ Cardinality(held \ {u}) = 0
    BY <1>1, <1>3, <1>6, <1>7 DEF Reclaimable
  <2>2. rd # 1 /\ wr # 1
    BY <1>1, <1>7 DEF Reclaimable, status, StatusOK
  <2>3. held = {u}
    <3>1. IsFiniteSet(held \ {u})
      BY HeldNat, FS_RemoveElement
    <3>2. held \ {u} = {}
      BY <2>1, <3>1, FS_EmptySet
    <3> QED
      BY <1>1, <3>2
  <2>4. Places(ReadFrames) = {} /\ Places(WriteFrames) = {}
    BY <2>2 DEF OneChainEach, OneChain
  <2>5. \A x \in Threads : stack[x] = << >>
    <3> SUFFICES ASSUME NEW x \in Threads, stack[x] # << >>
                 PROVE  FALSE
      OBVIOUS
    <3>1. stack[x][1] # "io_destroy"
      BY <1>4, <1>5
    <3>2. x # Acc
      BY <2>1, <3>1, Bottom DEF Outermost, DestroyFrames
    <3>3. x # Io
      BY <2>4, <3>1, Bottom DEF Outermost, DestroyFrames
    <3>4. x \notin Users
      BY <1>1, <2>3, <3>1 DEF Outermost
    <3> QED
      BY <3>2, <3>3, <3>4 DEF Threads
  <2>6. t = u
    BY <1>1, <2>3, <2>5 DEF InApp
  <2>7. Call(t, "io_destroy")
    BY <1>1, <1>7
  <2>8. "io_destroy" \in Frames /\ "io_destroy" \in DestroyFrames /\ "io_destroy" \notin InitFrames
    BY DEF Frames, CodeFrames, InitFrames, DestroyFrames
  <2>9. /\ StackOK'
        /\ \A x \in Threads \ {t} : stack'[x] = stack[x]
        /\ Len(stack'[t]) = Len(stack[t]) + 1
        /\ stack'[t][Len(stack[t]) + 1] = "io_destroy"
    BY <2>7, <2>8, CallStack
  <2>10. Places(InitFrames)' = Places(InitFrames)
    BY <2>7, <2>8, CallPlaces
  <2>11. Places(DestroyFrames)' = Places(DestroyFrames) \cup {New(t)}
    BY <2>7, <2>8, CallPlaces
  <2>12. Len(stack'[t]) = 1 /\ stack'[t][1] = "io_destroy"
    <3>1. Len(stack[t]) = 0
      BY <2>5
    <3> QED
      BY <2>9, <3>1
  <2>13. Outermost'
    BY <2>1, <2>5, <2>6, <2>9, <2>10, <2>12, ThreadsAssumption DEF Outermost, Threads
  <2>14. Destruction'
    BY <1>1, <1>2, <1>7, <2>11 DEF Destruction
  <2>15. References'
    BY <1>1, <1>3, <1>6, <2>10 DEF References
  <2> QED
    BY <2>13, <2>14, <2>15
<1>8. CASE ~Reclaimable'
  <2>1. stack' = stack
    BY <1>1, <1>8
  <2>2. \A fs : Places(fs)' = Places(fs)
    BY <2>1 DEF Places
  <2>3. Destruction'
    BY <1>1, <1>2, <2>2 DEF Destruction
  <2>4. \A x \in Users : stack[x] # << >> => x \in held'
    BY <1>1, <1>4, <1>5 DEF Outermost, Threads
  <2>5. Outermost'
    BY <2>1, <2>2, <2>4 DEF Outermost
  <2>6. References'
    BY <1>1, <1>3, <1>6, <2>2 DEF References
  <2> QED
    BY <2>3, <2>5, <2>6
<1> QED
  BY <1>7, <1>8

LEMMA ApiInv == ASSUME IInv, NEW t \in Threads, Api(t) PROVE IInv'
<1>1. SharedInv'
  BY ApiShared DEF IInv
<1>2. CASE \/ \E n \in WriteSizes : Write(t, n)
           \/ TriggerRead(t) \/ StopRead(t) \/ (FinalWrite(t) /\ stack' = stack)
  <2>1. InApp(t) /\ stack' = stack /\ UNCHANGED <<refcnt, held, destroyed>>
    BY <1>2 DEF Write, TriggerRead, StopRead, FinalWrite
  <2> QED
    BY <1>1, <2>1, PlainCallInv DEF IInv
<1>3. CASE Close(t) \/ (FinalWrite(t) /\ stack' # stack)
  <2>1. /\ InApp(t) /\ UNCHANGED <<refcnt, held, destroyed>>
        /\ Call(t, "handle_final_w") \/ Call(t, "io_close")
    BY <1>3 DEF Close, FinalWrite
  <2> QED
    BY <1>1, <2>1, FrameCallInv DEF IInv
<1>4. ASSUME NEW u \in Users, Ref(t, u) \/ Unref(t, u)
      PROVE  IInv'
  BY <1>1, <1>4, RefInv, UnrefInv DEF IInv
<1> QED
  BY <1>2, <1>3, <1>4 DEF Api

LEMMA StepInv == ASSUME IInv, NEW t \in Threads, Step(t) PROVE IInv'
<1>1. SharedInv'
  BY StepShared DEF IInv
<1>2. References' /\ Outermost' /\ Destruction'
  BY HandlerReturnsInv, InitUnrefInv, IoCloseInv, ClosedInv, ClosedAgainInv, ProcessReadInv,
     ProcessWriteInv, NotifiedInv, ReadErrorInv, WriteErrorInv, IoDestroyInv DEF Step
<1> QED
  BY <1>1, <1>2 DEF IInv

LEMMA CompletionInv == ASSUME IInv, Completion PROVE IInv'
<1>1. SharedInv'
  BY CompletionShared DEF IInv
<1>2. /\ stack[Io] = << >> /\ (rop # "none" \/ wop # "none")
      /\ \E f \in {"handle_read", "handle_error_r", "process_write", "handle_error_w"} : Call(Io, f)
      /\ UNCHANGED <<refcnt, held, destroyed>>
  BY DEF Completion, ReadSucceeds, ReadFails, WriteSucceeds, WriteFails
<1>3. PICK f \in {"handle_read", "handle_error_r", "process_write", "handle_error_w"} : Call(Io, f)
  BY <1>2
<1>4. /\ Io \in Threads /\ f \in Frames \ (InitFrames \cup DestroyFrames)
      /\ f \in ReadFrames \cup WriteFrames
  BY DEF Threads, InitFrames, DestroyFrames, ReadFrames, WriteFrames, Frames, AppFrames,
         CodeFrames, Continuation
<1>5. Outermost' /\ Destruction' /\ Places(InitFrames)' = Places(InitFrames)
  BY <1>2, <1>3, <1>4, CallStep
<1>6. References'
  BY <1>2, <1>5 DEF IInv, References
<1> QED
  BY <1>1, <1>5, <1>6 DEF IInv

LEMMA StutterInv == ASSUME IInv, UNCHANGED vars PROVE IInv'
<1>1. SharedInv'
  BY StutterShared DEF IInv
<1>2. UNCHANGED <<stack, held, destroyed, refcnt, rd, wr, cl>>
  BY DEF vars, status
<1>3. \A fs : Places(fs)' = Places(fs)
  BY <1>2 DEF Places
<1> QED
  BY <1>1, <1>2, <1>3 DEF IInv, References, Outermost, Destruction, Reclaimable

LEMMA NextInv == ASSUME IInv, [Next]_vars PROVE IInv'
BY ApiInv, StepInv, CompletionInv, StutterInv DEF Next

-----------------------------------------------------------------------------
(* The invariant holds in every state.                                     *)

LEMMA InitInv == Init => IInv
<1> SUFFICES ASSUME Init PROVE IInv
  OBVIOUS
<1>1. "handle_open" \in Frames /\ "handle_open" \in InitFrames
      /\ "handle_open" \notin ReadFrames \cup WriteFrames \cup DestroyFrames
  BY DEF Frames, AppFrames, Continuation, InitFrames, ReadFrames, WriteFrames, DestroyFrames
<1>2. stack = [t \in Threads |-> IF t = Acc THEN <<"handle_open">> ELSE << >>]
      /\ Acc \in Threads
  BY DEF Init, Threads
<1>3. <<"handle_open">> \in Seq(Frames) /\ << >> \in Seq(Frames)
  BY <1>1
<1>4. StackOK
  BY <1>2, <1>3 DEF StackOK
<1>5. /\ stack[Acc] = <<"handle_open">> /\ DOMAIN stack[Acc] = {1}
      /\ \A t \in Threads : t # Acc => stack[t] = << >> /\ DOMAIN stack[t] = {}
  BY <1>2
<1>6. Places(InitFrames) = {<<Acc, 1>>} /\ Places(ReadFrames) = {}
      /\ Places(WriteFrames) = {} /\ Places(DestroyFrames) = {}
  <2>1. \A fs : \A p : p \in Places(fs) <=> p = <<Acc, 1>> /\ "handle_open" \in fs
    BY <1>2, <1>4, <1>5, PlacesDef
  <2> QED
    BY <1>1, <2>1
<1>7. StatusOK
  <2>1. calls \in 0..MaxCalls
    BY BoundsAssumption DEF Init
  <2>2. /\ rd \in 0..2 /\ wr \in 0..2 /\ cl \in {0, 1, 3}
        /\ refcnt \in Int /\ rop \in Ops /\ wop \in Ops /\ held \subseteq Threads
    BY DEF Init, Ops
  <2>3. /\ willread \in BOOLEAN /\ finalwrite \in BOOLEAN /\ blockwrite \in BOOLEAN
        /\ sock \in BOOLEAN /\ destroyed \in BOOLEAN
    BY Zenon DEF Init
  <2> QED
    BY <2>1, <2>2, <2>3 DEF StatusOK
<1>8. DataOK
  BY DEF Init, DataOK
<1>9. OneChainEach
  BY <1>6 DEF Init, OneChainEach, OneChain
<1>10. References
  <2>1. Cardinality(held) = 0
    BY FS_EmptySet DEF Init
  <2> QED
    BY <1>6, <2>1 DEF Init, References
<1>11. Outermost
  <2>1. \A t \in Threads : \A i \in DOMAIN stack[t] : stack[t][i] # "io_destroy"
    BY <1>5
  <2>2. Io # Acc /\ \A u \in Users : u # Acc /\ u \in Threads
    BY ThreadsAssumption DEF Threads
  <2>3. Io \in Threads
    BY DEF Threads
  <2> QED
    BY <1>1, <1>5, <1>6, <2>1, <2>2, <2>3 DEF Outermost
<1>12. Destruction
  BY <1>6 DEF Init, Destruction
<1>13. NothingForgotten
  BY DEF Init, NothingForgotten
<1>14. DataInv
  BY NoData DEF Init
<1>15. SharedInv
  BY <1>4, <1>7, <1>8, <1>9, <1>13, <1>14 DEF SharedInv, ChainInv
<1> QED
  BY <1>10, <1>11, <1>12, <1>15 DEF IInv

\* The bits of status_, the reference count, the chains, the call stacks and
\* the data agree in every state, for any users and any sequence of calls.
THEOREM Invariance == Spec => []IInv
BY InitInv, NextInv, PTL DEF Spec

-----------------------------------------------------------------------------
(* What follows from it.                                                   *)

\* worker_controller_impl keeps its variables in range: the two-bit fields of
\* status_ never hold 3 on a side, the XOR of two bits notwithstanding.
THEOREM TypeCorrect == Spec => []TypeOK
<1>1. IInv => TypeOK
  BY DEF IInv, SharedInv, ChainInv, References, StatusOK, DataOK, StackOK, TypeOK
<1> QED
  BY <1>1, Invariance, PTL

\* At most one read and one write chain run, and status_ says when.
THEOREM ChainsAreSingle == Spec => []OneChainEach
<1>1. IInv => OneChainEach
  BY DEF IInv, SharedInv, ChainInv
<1> QED
  BY <1>1, Invariance, PTL

\* After io_destroy no thread is in the worker, none can enter it, and the
\* io_service holds no operation of it.
THEOREM NeverUsedAfterDestroy == Spec => []NoUseAfterDestroy
<1>1. IInv => NoUseAfterDestroy
  <2> SUFFICES ASSUME IInv, destroyed PROVE NoUseAfterDestroy
    BY DEF NoUseAfterDestroy
  <2>1. Reclaimable /\ Places(DestroyFrames) = {}
    BY DEF IInv, Destruction
  <2>2. held = {} /\ rop = "none" /\ wop = "none" /\ refcnt = 0
    BY <2>1, Quiet DEF Reclaimable
  <2>3. \A t \in Threads : stack[t] = << >>
    <3> SUFFICES ASSUME NEW t \in Threads, stack[t] # << >> PROVE FALSE
      OBVIOUS
    <3>1. StackOK /\ stack[t][1] \in DestroyFrames
      BY <2>1, Quiet DEF IInv, SharedInv, ChainInv, DestroyFrames
    <3> QED
      BY <2>1, <3>1, Bottom
  <2> QED
    BY <2>2, <2>3 DEF NoUseAfterDestroy
<1> QED
  BY <1>1, Invariance, PTL

\* Cached data has a writer, a wanted read a reader, a final_write a chain.
THEOREM NothingIsForgotten == Spec => []NothingForgotten
<1>1. IInv => NothingForgotten
  BY DEF IInv, SharedInv
<1> QED
  BY <1>1, Invariance, PTL

\* What failed or was closed, seen by one step of whoever uses the controller.
Stays == (rd = 2 => rd' = 2) /\ (wr = 2 => wr' = 2) /\ (cl = 3 => cl' = 3)

LEMMA ApiStays == ASSUME NEW t \in Threads, Api(t) PROVE Stays
BY DEF Stays, Api, Write, IoFilterOut, WriteNow, WriteLater, TriggerRead, StopRead, FinalWrite,
       Close, Ref, Unref, status

\* The flip of process_error meets a side at 1: the frame belongs to its chain.
LEMMA StepStays == ASSUME ChainInv, NEW t \in Threads, Step(t) PROVE Stays
<1> USE DEF Stays
<1>1. ASSUME Last(stack[t]) \in ReadFrames, stack[t] # << >> PROVE rd = 1
  BY <1>1, RunningChain
<1>2. ASSUME Last(stack[t]) \in WriteFrames, stack[t] # << >> PROVE wr = 1
  BY <1>2, RunningChain
<1>3. CASE \/ HandlerReturns(t) \/ InitUnref(t) \/ IoClose(t) \/ ClosedAgain(t)
           \/ ProcessWrite(t) \/ IoDestroy(t)
  BY <1>3 DEF HandlerReturns, InitUnref, IoClose, ClosedAgain, ProcessWrite, IoDestroy, status
<1>4. CASE Closed(t)
  BY <1>4 DEF Closed
<1>5. CASE ProcessRead(t)
  BY <1>1, <1>5 DEF ProcessRead, Running, ReadFrames
<1>6. CASE ReadError(t)
  BY <1>1, <1>6 DEF ReadError, Running, ReadFrames
<1>7. CASE Notified(t)
  BY <1>2, <1>7 DEF Notified, Running, WriteFrames
<1>8. CASE WriteError(t)
  BY <1>2, <1>8 DEF WriteError, Running, WriteFrames
<1> QED
  BY <1>3, <1>4, <1>5, <1>6, <1>7, <1>8 DEF Step

LEMMA CompletionStays == ASSUME Completion PROVE Stays
BY DEF Stays, Completion, ReadSucceeds, ReadFails, WriteSucceeds, WriteFails, status

\* A side of the connection that failed, and a closed connection, stay so.
THEOREM FailureIsFinal == Spec => FailedForGood
<1>1. ASSUME IInv, Next PROVE Stays
  BY <1>1, ApiStays, StepStays, CompletionStays DEF Next, IInv, SharedInv
<1>2. UNCHANGED vars => UNCHANGED status
  BY DEF vars, status
<1>3. IInv /\ [Next]_vars => [Stays]_status
  BY <1>1, <1>2
<1> QED
  BY <1>3, Invariance, PTL DEF Spec, FailedForGood, Stays


\* Until the write side fails, what was sent, what is in flight and what is
\* cached make up the accepted data; so the socket carries it in order, whatever
\* the sizes of the writes and of the buffer.
THEOREM DataIsSentInOrder == Spec => []SentInOrder
<1>1. IInv => SentInOrder
  BY DEF IInv, SharedInv, DataInv
<1> QED
  BY <1>1, Invariance, PTL

-----------------------------------------------------------------------------
(* final_write.                                                            *)

\* A frame handle_final_w comes to run that did not run before.
Announced(t) ==
  LET d == Len(stack'[t])
  IN  /\ d > 0 /\ stack'[t][d] = "handle_final_w"
      /\ d > Len(stack[t]) \/ stack[t][d] # "handle_final_w"
Flushed == cache = << >> /\ wop = "none" /\ Len(sent) = accepted

\* A write chain that is not failing and has nothing in flight or cached sent all.
LEMMA AllSent ==
  ASSUME SharedInv, ~Failing, wop = "none", cache = << >>
  PROVE  Flushed
<1>1. accepted \in Nat /\ sent \in Seq(Nat)
  BY DEF SharedInv, ChainInv, DataOK
<1>2. buffer = << >> /\ sent \o buffer \o cache = Sequenced(accepted)
  BY DEF SharedInv, DataInv
<1>3. sent \o << >> = Sequenced(accepted) /\ << >> \in Seq(Nat)
  <2>1. sent \o << >> = sent
    BY <1>1, ConcatEmptySeq
  <2> QED
    BY <1>2, <2>1
<1>4. Len(sent) = accepted
  BY <1>1, <1>3, SequencedPrefix, Zenon
<1> QED
  BY <1>4 DEF Flushed

\* No step but the call or the continuation of a frame announces anything.
LEMMA NotAnnounced ==
  ASSUME StackOK, NEW t \in Threads, NEW f \in Frames \ {"handle_final_w"},
         \/ Call(t, f)
         \/ stack[t] # << >> /\ (Goto(t, f) \/ Return(t) \/ PrepareDestroy(t))
         \/ stack' = stack
  PROVE  \A u \in Threads : ~Announced(u)
<1>1. \A u \in Threads : Len(stack[u]) \in Nat /\ DOMAIN stack[u] = 1..Len(stack[u])
  BY DEF StackOK
<1>2. ASSUME NEW u \in Threads, stack'[u] = stack[u]
      PROVE  ~Announced(u)
  BY <1>1, <1>2 DEF Announced
<1>3. CASE Call(t, f)
  <2>1. /\ \A u \in Threads \ {t} : stack'[u] = stack[u]
        /\ Len(stack'[t]) = Len(stack[t]) + 1
        /\ stack'[t][Len(stack[t]) + 1] = f
    BY <1>3, CallStack
  <2> QED
    BY <1>2, <2>1 DEF Announced
<1>4. ASSUME stack[t] # << >>, NEW g \in Frames \ {"handle_final_w"}, Goto(t, g)
      PROVE  \A u \in Threads : ~Announced(u)
  <2>1. /\ \A u \in Threads \ {t} : stack'[u] = stack[u]
        /\ Len(stack'[t]) = Len(stack[t])
        /\ stack'[t][Len(stack[t])] = g
    BY <1>4, GotoStack
  <2> QED
    BY <1>2, <2>1 DEF Announced
<1>5. CASE stack[t] # << >> /\ Return(t)
  <2>1. /\ StackOK'
        /\ \A u \in Threads \ {t} : stack'[u] = stack[u]
        /\ Len(stack'[t]) = Len(stack[t]) - 1
        /\ \A i \in DOMAIN stack'[t] : stack'[t][i] = stack[t][i]
    BY <1>5, ReturnStack
  <2>2. Len(stack'[t]) \in Nat /\ DOMAIN stack'[t] = 1..Len(stack'[t])
    BY <2>1 DEF StackOK
  <2>3. ~Announced(t)
    BY <1>1, <2>1, <2>2 DEF Announced
  <2> QED
    BY <1>2, <2>1, <2>3
<1>6. CASE stack' = stack
  BY <1>2, <1>6
<1>7. "io_destroy" \in Frames \ {"handle_final_w"}
  BY DEF Frames, CodeFrames
<1> QED
  BY <1>3, <1>4, <1>5, <1>6, <1>7 DEF PrepareDestroy

LEMMA ApiAnnounces ==
  ASSUME SharedInv, ~blockwrite, NEW t \in Threads, Api(t)
  PROVE  \A u \in Threads : Announced(u) => Flushed
<1>1. ChainInv /\ StackOK
  BY DEF SharedInv, ChainInv
<1>2. CASE FinalWrite(t) /\ wr = 0
  <2>1. ~Failing /\ wop = "none"
    BY <1>1, <1>2, FailingChain DEF ChainInv, OneChainEach, OneChain
  <2>2. cache = << >>
    BY <1>2 DEF SharedInv, NothingForgotten
  <2> QED
    BY <2>1, <2>2, AllSent
<1>3. CASE ~(FinalWrite(t) /\ wr = 0)
  <2>1. stack' = stack \/ Call(t, "io_close") \/ Call(t, "io_destroy")
    BY <1>3 DEF Api, Write, TriggerRead, StopRead, FinalWrite, Close, Ref, Unref
  <2>2. "io_close" \in Frames \ {"handle_final_w"} /\ "io_destroy" \in Frames \ {"handle_final_w"}
    BY DEF Frames, CodeFrames
  <2> QED
    BY <1>1, <2>1, <2>2, NotAnnounced
<1> QED
  BY <1>2, <1>3

LEMMA StepAnnounces ==
  ASSUME SharedInv, NEW t \in Threads, Step(t)
  PROVE  \A u \in Threads : Announced(u) => Flushed
<1>1. ChainInv /\ StackOK
  BY DEF SharedInv, ChainInv
<1>2. ASSUME stack[t] # << >>, NEW f \in Frames \ {"handle_final_w"},
             Goto(t, f) \/ Return(t) \/ PrepareDestroy(t)
      PROVE  \A u \in Threads : ~Announced(u)
  BY <1>1, <1>2, NotAnnounced
<1>3. "unref" \in Frames \ {"handle_final_w"}
  BY DEF Frames, CodeFrames
<1>4. CASE HandlerReturns(t)
  <2> DEFINE f == Continuation[Last(stack[t])]
  <2>1. stack[t] # << >> /\ Last(stack[t]) \in AppFrames /\ Goto(t, f)
    BY <1>4 DEF HandlerReturns
  <2>2. f \in Frames
    BY <2>1, ContinuationKind
  <2>3. f # "handle_final_w"
    BY <2>1 DEF Continuation, AppFrames
  <2> HIDE DEF f
  <2> QED
    BY <1>2, <2>1, <2>2, <2>3
<1>5. CASE InitUnref(t) \/ ClosedAgain(t) \/ ReadError(t) \/ WriteError(t)
           \/ ProcessRead(t) \/ IoDestroy(t)
  <2>1. stack[t] # << >> /\ (Return(t) \/ PrepareDestroy(t))
    BY <1>5 DEF InitUnref, ClosedAgain, ReadError, WriteError, ProcessRead, IoDestroy, Running
  <2> QED
    BY <1>2, <1>3, <2>1
<1>6. CASE IoClose(t)
  <2>1. stack[t] # << >> /\ Goto(t, "handle_close")
    BY <1>6 DEF IoClose, Running
  <2>2. "handle_close" \in Frames \ {"handle_final_w"}
    BY DEF Frames, AppFrames, Continuation
  <2> QED
    BY <1>2, <2>1, <2>2
<1>7. CASE Closed(t)
  <2>1. stack[t] # << >>
    BY <1>7 DEF Closed, Running
  <2>2. CASE rd = 0 /\ ~willread
    <3>1. stack' = [stack EXCEPT ![t] =
                      Append(Append(Front(stack[t]), "closed2"), "handle_error_r")]
      BY <1>7, <2>2 DEF Closed
    <3>2. stack[t] \in Seq(Frames) /\ "closed2" \in Frames /\ "handle_error_r" \in Frames
      BY <1>1 DEF StackOK, Frames, AppFrames, CodeFrames, Continuation
    <3>3. Append(Front(stack[t]), "closed2") \in Seq(Frames)
      BY <2>1, <3>2, SeqReplace
    <3>4. /\ stack'[t] = Append(Append(Front(stack[t]), "closed2"), "handle_error_r")
          /\ \A u \in Threads \ {t} : stack'[u] = stack[u]
      BY <1>1, <3>1 DEF StackOK
    <3>5. stack'[t][Len(stack'[t])] = "handle_error_r"
      BY <3>2, <3>3, <3>4, SeqPush
    <3>6. ASSUME NEW u \in Threads \ {t} PROVE ~Announced(u)
      BY <1>1, <3>4 DEF Announced, StackOK
    <3>7. ~Announced(t)
      BY <3>5 DEF Announced
    <3> QED
      BY <3>6, <3>7
  <2>3. CASE ~(rd = 0 /\ ~willread)
    <3>1. PrepareDestroy(t)
      BY <1>7, <2>3 DEF Closed
    <3> QED
      BY <1>2, <1>3, <2>1, <3>1
  <2> QED
    BY <2>2, <2>3
<1>8. CASE ProcessWrite(t)
  <2>1. stack[t] # << >> /\ (Return(t) \/ Goto(t, "filter_notify"))
    BY <1>8 DEF ProcessWrite, Running
  <2>2. "filter_notify" \in Frames \ {"handle_final_w"}
    BY DEF Frames, AppFrames, Continuation
  <2> QED
    BY <1>2, <1>3, <2>1, <2>2
<1>9. CASE Notified(t)
  <2>1. stack[t] # << >> /\ Last(stack[t]) = "notified"
    BY <1>9 DEF Notified, Running
  <2>2. CASE cache = << >>
    <3>1. ~Failing /\ wop = "none"
      BY <1>1, <2>1, FailingChain DEF WriteFrames, FailingFrames
    <3> QED
      BY <2>2, <3>1, AllSent
  <2>3. CASE cache # << >>
    <3>1. Return(t)
      BY <1>9, <2>3 DEF Notified
    <3> QED
      BY <1>2, <1>3, <2>1, <3>1
  <2> QED
    BY <2>2, <2>3
<1> QED
  BY <1>4, <1>5, <1>6, <1>7, <1>8, <1>9 DEF Step

\* The handler is told of a final_write when all accepted data was sent, by
\* final_write itself when nothing is under way, or at the end of the chain.
THEOREM FinalWriteIsLast == Spec => FinalWriteFlushes
<1>1. ASSUME SharedInv, ~blockwrite, [Next]_vars
      PROVE  \A t \in Threads : Announced(t) => Flushed
  <2>1. CASE Completion
    <3>1. \E f \in {"handle_read", "handle_error_r", "process_write", "handle_error_w"} :
            Call(Io, f)
      BY <2>1 DEF Completion, ReadSucceeds, ReadFails, WriteSucceeds, WriteFails
    <3>2. Io \in Threads
          /\ {"handle_read", "handle_error_r", "process_write", "handle_error_w"}
               \subseteq Frames \ {"handle_final_w"}
      BY DEF Threads, Frames, AppFrames, CodeFrames, Continuation
    <3> QED
      BY <1>1, <3>1, <3>2, NotAnnounced DEF SharedInv, ChainInv
  <2>2. CASE UNCHANGED vars
    <3>1. stack' = stack /\ Io \in Threads /\ "unref" \in Frames \ {"handle_final_w"}
      BY <2>2 DEF vars, Threads, Frames, CodeFrames
    <3> QED
      BY <1>1, <3>1, NotAnnounced DEF SharedInv, ChainInv
  <2> QED
    BY <1>1, <2>1, <2>2, ApiAnnounces, StepAnnounces DEF Next
<1>2. Init => ~blockwrite
  BY DEF Init
<1>3. ~blockwrite /\ [Next]_vars => ~blockwrite'
  BY DEF Next, Api, Step, Completion, Write, TriggerRead, StopRead, FinalWrite, Close, Ref, Unref,
         HandlerReturns, InitUnref, IoClose, Closed, ClosedAgain, ProcessRead, ProcessWrite,
         Notified, ReadError, WriteError, IoDestroy, ReadSucceeds, ReadFails, WriteSucceeds,
         WriteFails, vars, status
<1>4. IInv /\ ~blockwrite /\ [Next]_vars
        => [\A t \in Threads : Announced(t) => Flushed]_vars
  BY <1>1 DEF IInv
<1> QED
  BY <1>2, <1>3, <1>4, Invariance, PTL DEF Spec, FinalWriteFlushes, Announced, Flushed

-----------------------------------------------------------------------------
(* The controller implements ObjectLifetime.                               *)

\* Who may use the worker has a claim, which a worker that is reclaimed lacks.
LEMMA ClaimsMade ==
  /\ \A t \in Threads : stack[t] # << >> /\ Last(stack[t]) # "io_destroy" => Claims # {}
  /\ \A u \in held : Claims # {}
  /\ rop # "none" \/ wop # "none" => Claims # {}
<1>1. ASSUME NEW t \in Threads, stack[t] # << >>, Last(stack[t]) # "io_destroy"
      PROVE  <<"thread", t>> \in Claims
  <2>1. Last(<<"io_destroy">>) = "io_destroy"
    BY DEF Last
  <2>2. stack[t] # <<"io_destroy">>
    BY <1>1, <2>1
  <2> QED
    BY <1>1, <2>2 DEF Claims
<1>2. ASSUME NEW u \in held PROVE <<"user", u>> \in Claims
  BY DEF Claims
<1>3. rop # "none" => <<"io", "read">> \in Claims
  BY DEF Claims
<1>4. wop # "none" => <<"io", "write">> \in Claims
  BY DEF Claims
<1> QED
  BY <1>1, <1>2, <1>3, <1>4

LEMMA NoClaims ==
  IInv /\ Reclaimable => Claims = {}
<1> SUFFICES ASSUME IInv, Reclaimable PROVE Claims = {}
  OBVIOUS
<1>1. held = {} /\ rop = "none" /\ wop = "none"
  BY Quiet
<1>2. \A t \in Threads : stack[t] \in {<< >>, <<"io_destroy">>}
  <2> SUFFICES ASSUME NEW t \in Threads, stack[t] # << >>
               PROVE  stack[t] = <<"io_destroy">>
    OBVIOUS
  <2>1. Len(stack[t]) = 1 /\ stack[t][1] = "io_destroy" /\ stack[t] \in Seq(Frames)
    BY Quiet DEF IInv, SharedInv, ChainInv, StackOK
  <2> QED
    BY <2>1
<1> QED
  BY <1>1, <1>2 DEF Claims

Claimants == ({"thread"} \X Threads) \cup ({"user"} \X Users) \cup ({"io"} \X {"read", "write"})

LEMMA ClaimsType == IInv => Claims \in SUBSET Claimants
BY DEF IInv, References, Claims, Claimants

\* A step of somebody with a claim, which reclaims nothing, uses the object.
LEMMA UseStep ==
  ASSUME IInv, IInv', Claims # {}, ~destroyed, destroyed' = destroyed, cl = 3 => cl' = 3
  PROVE  Lifetime!Next
<1>1. Claims' \in SUBSET Claimants
  <2>1. (IInv => Claims \in SUBSET Claimants)'
    BY ClaimsType, PTL
  <2> QED
    BY <2>1 DEF Claimants, Threads
<1>2. (cl = 3)' \in BOOLEAN /\ ((cl = 3) => (cl = 3)')
  OBVIOUS
<1> QED
  BY <1>1, <1>2 DEF Lifetime!Next, Lifetime!Use, Claimants

LEMMA DestroyStep ==
  ASSUME IInv, IInv', NEW t \in Threads, IoDestroy(t)
  PROVE  Lifetime!Next
<1>1. stack[t] # << >> /\ Last(stack[t]) = "io_destroy" /\ destroyed' = TRUE
      /\ UNCHANGED <<status, refcnt>>
  BY DEF IoDestroy, Running
<1>2. Top(t) \in Places(DestroyFrames)
  BY <1>1, TopPlace DEF IInv, SharedInv, ChainInv, DestroyFrames
<1>3. Reclaimable /\ ~destroyed
  BY <1>2 DEF IInv, Destruction
<1>4. Reclaimable'
  BY <1>1, <1>3 DEF Reclaimable, status
<1>5. Claims = {} /\ Claims' = {}
  <2>1. Claims = {}
    BY <1>3, NoClaims
  <2>2. (IInv /\ Reclaimable => Claims = {})'
    BY NoClaims, PTL
  <2> QED
    BY <1>4, <2>1, <2>2
<1>6. cl = 3 /\ cl' = 3
  BY <1>3, <1>4 DEF Reclaimable
<1> QED
  BY <1>1, <1>3, <1>5, <1>6 DEF Lifetime!Next, Lifetime!Reclaim

LEMMA NextLifetime ==
  ASSUME IInv, IInv', [Next]_vars
  PROVE  [Lifetime!Next]_(Lifetime!vars)
<1>1. ASSUME NEW t \in Threads, Api(t)
      PROVE  Lifetime!Next
  <2>1. InApp(t) /\ destroyed' = destroyed /\ (cl = 3 => cl' = 3)
    BY <1>1 DEF Api, Write, TriggerRead, StopRead, FinalWrite, Close, Ref, Unref, status
  <2>2. ~destroyed
    BY <2>1, Alive
  <2>3. Claims # {}
    BY <2>1, ClaimsMade DEF InApp, AppFrames, Continuation
  <2> QED
    BY <2>1, <2>2, <2>3, UseStep
<1>2. ASSUME NEW t \in Threads, Step(t)
      PROVE  Lifetime!Next
  <2>1. CASE IoDestroy(t)
    BY <2>1, DestroyStep
  <2>2. CASE ~IoDestroy(t)
    <3>1. stack[t] # << >> /\ Last(stack[t]) # "io_destroy"
      BY <1>2, <2>2 DEF Step, HandlerReturns, InitUnref, IoClose, Closed, ClosedAgain, ProcessRead,
         ProcessWrite, Notified, ReadError, WriteError, Running, AppFrames, Continuation
    <3>2. destroyed' = destroyed /\ (cl = 3 => cl' = 3)
      BY <1>2, <2>2 DEF Step, HandlerReturns, InitUnref, IoClose, Closed, ClosedAgain, ProcessRead,
         ProcessWrite, Notified, ReadError, WriteError, status
    <3> QED
      BY <3>1, <3>2, Alive, ClaimsMade, UseStep
  <2> QED
    BY <2>1, <2>2
<1>3. ASSUME Completion
      PROVE  Lifetime!Next
  <2>1. rop # "none" \/ wop # "none"
    BY <1>3 DEF Completion, ReadSucceeds, ReadFails, WriteSucceeds, WriteFails
  <2>2. destroyed' = destroyed /\ cl' = cl
    BY <1>3 DEF Completion, ReadSucceeds, ReadFails, WriteSucceeds, WriteFails, status
  <2> QED
    BY <2>1, <2>2, AliveOps, ClaimsMade, UseStep
<1>4. CASE UNCHANGED vars
  <2>1. UNCHANGED <<stack, held, rop, wop, cl, destroyed>>
    BY <1>4 DEF vars, status, ioVars
  <2>2. Claims' = Claims
    BY <2>1 DEF Claims
  <2> QED
    BY <2>1, <2>2 DEF Lifetime!vars
<1> QED
  BY <1>1, <1>2, <1>3, <1>4 DEF Next

LEMMA InitLifetime == Init => Lifetime!Init
<1> SUFFICES ASSUME Init PROVE Lifetime!Init
  OBVIOUS
<1>1. /\ cl = 0 /\ destroyed = FALSE
      /\ Acc \in Threads /\ stack[Acc] = <<"handle_open">>
  BY DEF Init, Threads
<1>2. Last(stack[Acc]) = "handle_open" /\ stack[Acc] # << >>
  BY <1>1 DEF Last
<1>3. Claims # {}
  BY <1>1, <1>2, ClaimsMade
<1>4. Claims \in SUBSET Claimants
  BY InitInv, ClaimsType
<1>5. (cl = 3) = FALSE
  BY <1>1
<1>6. Claims \in (SUBSET Claimants) \ {{}}
  BY <1>3, <1>4
<1> QED
  BY <1>1, <1>5, <1>6 DEF Lifetime!Init, Claimants

\* The worker is destroyed at most once, after it was closed, when no thread is
\* inside it, no reference is held and no operation is outstanding; and nothing
\* uses it afterwards.
THEOREM WorkerImplementsLifetime == Spec => LifetimeSafe
<1>1. Init => Lifetime!Init
  BY InitLifetime
<1>2. IInv /\ IInv' /\ [Next]_vars => [Lifetime!Next]_(Lifetime!vars)
  BY NextLifetime
<1> QED
  BY <1>1, <1>2, Invariance, PTL DEF Spec, LifetimeSafe, Lifetime!Spec

=============================================================================
