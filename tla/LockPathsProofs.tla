-------------------------- MODULE LockPathsProofs --------------------------
(***************************************************************************)
(* Proofs about LockPaths, for any threads, any workers and any depth of   *)
(* callbacks: the spinlocks exclude, the application runs without one, and *)
(* no threads wait for one another.                                        *)
(*                                                                         *)
(* The argument has two parts.  A way through a function is a run of a     *)
(* small automaton whose state is the set of the scoped_locks that are     *)
(* locked: that every function's ways are such runs is composed from their *)
(* parts, as the functions are.  And a stack of frames that are inside     *)
(* such runs holds locks in two frames at most, in ascending order.        *)
(***************************************************************************)
EXTENDS LockPaths, SequenceTheorems, TLAPS

-----------------------------------------------------------------------------
(* The discipline: when a function may make a move, and what it leaves     *)
(* locked.                                                                 *)

Names == {"lock", "lock2", "client", "zone", "blocks", "objects", "hot"}
Zone  == {"allocate", "deallocate"}

\* The order in which spinlocks are taken.
Rank(x) ==
  IF x = "client" THEN 0
  ELSE IF x \in {"lock", "lock2"} THEN 1
  ELSE IF x = "zone" THEN 2 ELSE IF x = "blocks" THEN 3 ELSE 4

Moves == {Lock(x) : x \in Names} \cup {Release(x) : x \in Names} \cup {End(x) : x \in Names}
           \cup {Enter(f) : f \in DOMAIN Ways} \cup {App}

\* A function with the scoped_locks L locked makes move s and has M locked:
\* locks are taken upwards; only a lock that is locked is released early;
\* with a lock held no function is called but one of the zone, and that with
\* the worker's mutex alone; the application is called with none.
Legal(s, L, M) ==
  \/ \E x \in Names : s = Lock(x) /\ (\A y \in L : Rank(y) < Rank(x)) /\ M = L \cup {x}
  \/ \E x \in Names : s = Release(x) /\ x \in L /\ M = L \ {x}
  \/ \E x \in Names : s = End(x) /\ M = L \ {x}
  \/ \E f \in DOMAIN Ways :
       s = Enter(f) /\ (L = {} \/ (L \subseteq {"lock"} /\ f \in Zone)) /\ M = L
  \/ s = App /\ L = {} /\ M = L

\* h is what is locked before the first move of p, and after each one.
Run(p, h) == \A i \in 1..Len(p) : Legal(p[i], h[i - 1], h[i])

\* Way p is legal with L locked and leaves M locked; and all of a set are.
Path(p, L, M) ==
  /\ p \in Seq(Moves)
  /\ \E h \in [0..Len(p) -> SUBSET Names] : h[0] = L /\ h[Len(p)] = M /\ Run(p, h)
From(ways, L, M) == \A p \in ways : Path(p, L, M)

-----------------------------------------------------------------------------
(* Paths are composed as the ways of functions are.                        *)

LEMMA LegalMove ==
  ASSUME NEW s, NEW L \in SUBSET Names, NEW M, Legal(s, L, M)
  PROVE  s \in Moves /\ M \in SUBSET Names
BY DEF Legal, Moves

LEMMA PathEmpty == ASSUME NEW L \in SUBSET Names PROVE Path(<< >>, L, L)
<1> DEFINE h == [i \in 0..0 |-> L]
<1>1. h \in [0..0 -> SUBSET Names] /\ h[0] = L
  OBVIOUS
<1>2. Len(<< >>) = 0 /\ << >> \in Seq(Moves)
  OBVIOUS
<1>3. Run(<< >>, h)
  BY <1>2 DEF Run
<1> HIDE DEF h
<1> QED
  BY <1>1, <1>2, <1>3, Zenon DEF Path

LEMMA PathOne ==
  ASSUME NEW a, NEW L \in SUBSET Names, NEW M, Legal(a, L, M)
  PROVE  Path(<<a>>, L, M)
<1>1. a \in Moves /\ M \in SUBSET Names
  BY LegalMove
<1> DEFINE h == [i \in 0..1 |-> IF i = 0 THEN L ELSE M]
           p == <<a>>
<1>2. h \in [0..1 -> SUBSET Names] /\ h[0] = L /\ h[1] = M
  BY <1>1
<1>3. Len(p) = 1 /\ p \in Seq(Moves) /\ p[1] = a
  BY <1>1
<1>4. Legal(p[1], h[1 - 1], h[1])
  <2>1. h[1 - 1] = L
    OBVIOUS
  <2> QED
    BY <1>2, <1>3, <2>1, Zenon
<1> HIDE DEF h, p
<1>5. Run(p, h)
  BY <1>3, <1>4 DEF Run
<1>6. Path(p, L, M)
  BY <1>2, <1>3, <1>5, Zenon DEF Path
<1> QED
  BY <1>6 DEF p

LEMMA PathConcat ==
  ASSUME NEW p, NEW q, NEW L, NEW M, NEW N, Path(p, L, M), Path(q, M, N)
  PROVE  Path(p \o q, L, N)
<1>1. p \in Seq(Moves) /\ q \in Seq(Moves)
  BY DEF Path
<1>2. PICK g \in [0..Len(p) -> SUBSET Names] : g[0] = L /\ g[Len(p)] = M /\ Run(p, g)
  BY DEF Path
<1>3. PICK h \in [0..Len(q) -> SUBSET Names] : h[0] = M /\ h[Len(q)] = N /\ Run(q, h)
  BY DEF Path
<1> DEFINE a == Len(p)
           b == Len(q)
           k == [i \in 0..(a + b) |-> IF i <= a THEN g[i] ELSE h[i - a]]
           r == p \o q
<1>4. /\ a \in Nat /\ b \in Nat /\ r \in Seq(Moves) /\ Len(r) = a + b
      /\ \A i \in 1..(a + b) : r[i] = IF i <= a THEN p[i] ELSE q[i - a]
  BY <1>1, ConcatProperties
<1> HIDE DEF a, b, r
<1>5. /\ g \in [0..a -> SUBSET Names] /\ g[0] = L /\ g[a] = M
      /\ h \in [0..b -> SUBSET Names] /\ h[0] = M /\ h[b] = N
  BY <1>2, <1>3 DEF a, b
<1>6. /\ \A i \in 1..a : Legal(p[i], g[i - 1], g[i])
      /\ \A i \in 1..b : Legal(q[i], h[i - 1], h[i])
  BY <1>2, <1>3 DEF a, b, Run
<1>7. k \in [0..(a + b) -> SUBSET Names] /\ k[0] = L
  BY <1>4, <1>5
<1>8. k[a + b] = N
  <2>1. CASE b = 0
    BY <1>4, <1>5, <2>1
  <2>2. CASE b # 0
    BY <1>4, <1>5, <2>2
  <2> QED
    BY <2>1, <2>2
<1>9. ASSUME NEW i \in 1..(a + b) PROVE Legal(r[i], k[i - 1], k[i])
  <2>1. CASE i <= a
    <3>1. i \in 1..a /\ r[i] = p[i] /\ k[i - 1] = g[i - 1] /\ k[i] = g[i]
      BY <1>4, <2>1
    <3> QED
      BY <1>6, <3>1
  <2>2. CASE i > a
    <3>1. i - a \in 1..b /\ r[i] = q[i - a] /\ k[i] = h[i - a]
      BY <1>4, <2>2
    <3>2. k[i - 1] = h[(i - a) - 1]
      <4>1. CASE i - 1 = a
        BY <1>4, <1>5, <4>1
      <4>2. CASE i - 1 > a
        <5>1. (i - 1) - a = (i - a) - 1
          BY <1>4
        <5>2. k[i - 1] = h[(i - 1) - a]
          BY <1>4, <4>2
        <5> QED
          BY <5>1, <5>2, Zenon
      <4> QED
        BY <1>4, <2>2, <4>1, <4>2
    <3> QED
      BY <1>6, <3>1, <3>2, Zenon
  <2> QED
    BY <1>4, <2>1, <2>2
<1> HIDE DEF k
<1>10. Run(r, k)
  BY <1>4, <1>9 DEF Run
<1>11. Path(r, L, N)
  BY <1>4, <1>7, <1>8, <1>10, Zenon DEF Path
<1> QED
  BY <1>11 DEF r

\* One move, and then a path.
LEMMA PathCons ==
  ASSUME NEW a, NEW q, NEW r \in Seq(Moves), NEW L \in SUBSET Names, NEW M, NEW N,
         Legal(a, L, M), Path(q, M, N),
         Len(r) = Len(q) + 1, r[1] = a, \A i \in 1..Len(q) : r[i + 1] = q[i]
  PROVE  Path(r, L, N)
<1> DEFINE p == <<a>>
<1>1. p \in Seq(Moves) /\ Len(p) = 1 /\ p[1] = a /\ q \in Seq(Moves) /\ Len(q) \in Nat
  BY LegalMove DEF Path
<1>2. Path(p, L, M)
  BY PathOne
<1> HIDE DEF p
<1>3. Path(p \o q, L, N)
  BY <1>2, PathConcat
<1>4. /\ p \o q \in Seq(Moves) /\ Len(p \o q) = Len(r)
      /\ \A i \in 1..Len(r) : (p \o q)[i] = IF i <= 1 THEN p[i] ELSE q[i - 1]
  <2>1. /\ p \o q \in Seq(Moves) /\ Len(p \o q) = Len(p) + Len(q)
        /\ \A i \in 1..(Len(p) + Len(q)) :
             (p \o q)[i] = IF i <= Len(p) THEN p[i] ELSE q[i - Len(p)]
    BY <1>1, ConcatProperties, Zenon
  <2>2. Len(p) + Len(q) = Len(r)
    BY <1>1
  <2> QED
    BY <1>1, <2>1, <2>2
<1>5. ASSUME NEW i \in 1..Len(r) PROVE (p \o q)[i] = r[i]
  <2>1. CASE i = 1
    BY <1>1, <1>4, <2>1
  <2>2. CASE i # 1
    <3>1. i - 1 \in 1..Len(q) /\ (i - 1) + 1 = i
      BY <1>1, <2>2
    <3>2. r[(i - 1) + 1] = q[i - 1]
      BY <3>1, Zenon
    <3>3. (p \o q)[i] = q[i - 1]
      BY <1>1, <1>4, <2>2
    <3> QED
      BY <3>1, <3>2, <3>3, Zenon
  <2> QED
    BY <2>1, <2>2
<1>6. p \o q = r
  BY <1>4, <1>5, SeqEqual
<1> QED
  BY <1>3, <1>6

\* Ways written out as tuples of two, three and four moves.
LEMMA PathTwo ==
  ASSUME NEW a, NEW b, NEW L \in SUBSET Names, NEW M \in SUBSET Names, NEW N,
         Legal(a, L, M), Legal(b, M, N)
  PROVE  Path(<<a, b>>, L, N)
<1> DEFINE q == <<b>>
           r == <<a, b>>
<1>1. Path(q, M, N)
  BY PathOne
<1>2. r \in Seq(Moves) /\ Len(r) = Len(q) + 1 /\ r[1] = a /\ \A i \in 1..Len(q) : r[i + 1] = q[i]
  BY LegalMove
<1> HIDE DEF q, r
<1>3. Path(r, L, N)
  BY <1>1, <1>2, PathCons
<1> QED
  BY <1>3 DEF r

LEMMA PathThree ==
  ASSUME NEW a, NEW b, NEW c, NEW L \in SUBSET Names, NEW M \in SUBSET Names,
         NEW N \in SUBSET Names, NEW O, Legal(a, L, M), Legal(b, M, N), Legal(c, N, O)
  PROVE  Path(<<a, b, c>>, L, O)
<1> DEFINE q == <<b, c>>
           r == <<a, b, c>>
<1>1. Path(q, M, O)
  BY PathTwo
<1>2. r \in Seq(Moves) /\ Len(r) = Len(q) + 1 /\ r[1] = a /\ \A i \in 1..Len(q) : r[i + 1] = q[i]
  BY LegalMove
<1> HIDE DEF q, r
<1>3. Path(r, L, O)
  BY <1>1, <1>2, PathCons
<1> QED
  BY <1>3 DEF r

LEMMA PathFour ==
  ASSUME NEW a, NEW b, NEW c, NEW d, NEW L \in SUBSET Names, NEW M \in SUBSET Names,
         NEW N \in SUBSET Names, NEW O \in SUBSET Names, NEW P,
         Legal(a, L, M), Legal(b, M, N), Legal(c, N, O), Legal(d, O, P)
  PROVE  Path(<<a, b, c, d>>, L, P)
<1> DEFINE q == <<b, c, d>>
           r == <<a, b, c, d>>
<1>1. Path(q, M, P)
  BY PathThree
<1>2. r \in Seq(Moves) /\ Len(r) = Len(q) + 1 /\ r[1] = a /\ \A i \in 1..Len(q) : r[i + 1] = q[i]
  BY LegalMove
<1> HIDE DEF q, r
<1>3. Path(r, L, P)
  BY <1>1, <1>2, PathCons
<1> QED
  BY <1>3 DEF r

LEMMA FromThen ==
  ASSUME NEW A, NEW B, NEW L, NEW M, NEW N, From(A, L, M), From(B, M, N)
  PROVE  From(Then(A, B), L, N)
<1> SUFFICES ASSUME NEW r \in Then(A, B) PROVE Path(r, L, N)
  BY DEF From
<1>1. PICK p \in A, q \in B : r = p \o q
  BY DEF Then
<1>2. Path(p, L, M) /\ Path(q, M, N)
  BY DEF From
<1> QED
  BY <1>1, <1>2, PathConcat

LEMMA FromMaybe ==
  ASSUME NEW A, NEW L \in SUBSET Names, From(A, L, L)
  PROVE  From(Maybe(A), L, L)
BY PathEmpty DEF From, Maybe

LEMMA FromUnion ==
  ASSUME NEW A, NEW B, NEW L, NEW M, From(A, L, M), From(B, L, M)
  PROVE  From(A \cup B, L, M)
BY DEF From

LEMMA FromSet ==
  ASSUME NEW L, NEW M
  PROVE  /\ \A p : Path(p, L, M) => From({p}, L, M)
         /\ \A p, q : Path(p, L, M) /\ Path(q, L, M) => From({p, q}, L, M)
BY DEF From

-----------------------------------------------------------------------------
(* The ways of every function are legal, from nothing locked to nothing.   *)

\* The moves the functions are made of.
LEMMA LegalMoves ==
  /\ \A x \in Names : /\ Legal(Lock(x), {}, {x}) /\ Legal(Release(x), {x}, {})
                      /\ Legal(End(x), {x}, {}) /\ Legal(End(x), {}, {})
  /\ \A f \in DOMAIN Ways : Legal(Enter(f), {}, {})
  /\ \A f \in DOMAIN Ways \cap Zone : Legal(Enter(f), {"lock"}, {"lock"})
  /\ Legal(App, {}, {})
  /\ Legal(Lock("blocks"), {"zone"}, {"zone", "blocks"})
  /\ Legal(End("blocks"), {"zone", "blocks"}, {"zone"})
  /\ Legal(Lock("lock"), {"client"}, {"client", "lock"})
  /\ Legal(End("lock"), {"client", "lock"}, {"client"})
<1>1. \A x \in Names : /\ Legal(Lock(x), {}, {x}) /\ Legal(Release(x), {x}, {})
                       /\ Legal(End(x), {x}, {}) /\ Legal(End(x), {}, {})
  <2> SUFFICES ASSUME NEW x \in Names
               PROVE  /\ Legal(Lock(x), {}, {x}) /\ Legal(Release(x), {x}, {})
                      /\ Legal(End(x), {x}, {}) /\ Legal(End(x), {}, {})
    OBVIOUS
  <2>1. {x} = {} \cup {x} /\ {} = {x} \ {x} /\ {} = {} \ {x}
    OBVIOUS
  <2> QED
    BY <2>1 DEF Legal
<1>2. \A f \in DOMAIN Ways : Legal(Enter(f), {}, {})
  BY DEF Legal
<1>3. \A f \in DOMAIN Ways \cap Zone : Legal(Enter(f), {"lock"}, {"lock"})
  BY DEF Legal
<1>4. Legal(App, {}, {})
  BY DEF Legal
<1>5. {"zone", "blocks", "client", "lock"} \subseteq Names
  BY DEF Names
<1>6. Rank("zone") < Rank("blocks") /\ Rank("client") < Rank("lock")
  BY DEF Rank
<1>7. Legal(Lock("blocks"), {"zone"}, {"zone", "blocks"})
  <2>1. {"zone", "blocks"} = {"zone"} \cup {"blocks"}
    OBVIOUS
  <2> QED
    BY <1>5, <1>6, <2>1 DEF Legal
<1>8. Legal(End("blocks"), {"zone", "blocks"}, {"zone"})
  <2>1. {"zone"} = {"zone", "blocks"} \ {"blocks"}
    OBVIOUS
  <2> QED
    BY <1>5, <2>1 DEF Legal
<1>9. Legal(Lock("lock"), {"client"}, {"client", "lock"})
  <2>1. {"client", "lock"} = {"client"} \cup {"lock"}
    OBVIOUS
  <2> QED
    BY <1>5, <1>6, <2>1 DEF Legal
<1>10. Legal(End("lock"), {"client", "lock"}, {"client"})
  <2>1. {"client"} = {"client", "lock"} \ {"lock"}
    OBVIOUS
  <2> QED
    BY <1>5, <2>1 DEF Legal
<1> QED
  BY <1>1, <1>2, <1>3, <1>4, <1>7, <1>8, <1>9, <1>10

LEMMA WaysDomain ==
  DOMAIN Ways = {"ref", "unref", "filter_out", "close", "trigger_read", "final_write",
                 "get_cached_size", "process_read", "process_write", "process_error",
                 "io_destroy", "allocate", "deallocate", "io_trycancel", "client_start",
                 "unblock_write", "handle_connect", "io_init", "new_accept", "accept_handler"}
BY DEF Ways

LEMMA SectionFrom == ASSUME NEW x \in Names PROVE From(Section(x), {}, {})
BY LegalMoves, PathTwo, FromSet DEF Section

LEMMA PrepareDestroyFrom == ASSUME NEW x \in Names PROVE From(PrepareDestroy(x), {x}, {})
<1>1. Legal(Enter("io_destroy"), {}, {})
  BY LegalMoves, WaysDomain
<1>2. Path(<<End(x)>>, {x}, {})
  BY LegalMoves, PathOne
<1>3. Path(<<Release(x), Enter("io_destroy"), End(x)>>, {x}, {})
  BY <1>1, LegalMoves, PathThree
<1> QED
  BY <1>2, <1>3, FromSet DEF PrepareDestroy

\* A call between two functions, nothing locked; and one of the zone under the mutex.
LEMMA CallFrom ==
  /\ \A f \in DOMAIN Ways : From({<<Enter(f)>>}, {}, {})
  /\ \A f \in Zone : From({<<Enter(f)>>}, {"lock"}, {"lock"})
<1>1. Zone \subseteq DOMAIN Ways /\ {"lock"} \in SUBSET Names
  BY WaysDomain DEF Zone, Names
<1> QED
  BY <1>1, LegalMoves, PathOne, FromSet

LEMMA ZoneFrom ==
  /\ From(Allocate, {}, {}) /\ From(Deallocate, {}, {})
  /\ From(CacheAppend, {"lock"}, {"lock"}) /\ From(CachePop, {"lock"}, {"lock"})
<1>1. {"zone", "blocks", "lock"} \subseteq Names /\ Zone = {"allocate", "deallocate"}
  BY DEF Names, Zone
<1>2. Path(<<Lock("zone"), Lock("blocks"), End("blocks"), End("zone")>>, {}, {})
  BY <1>1, LegalMoves, PathFour
<1>3. From(Section("zone"), {}, {})
  BY <1>1, SectionFrom
<1>4. From(Allocate, {}, {})
  BY <1>2, <1>3, FromSet, FromUnion DEF Allocate
<1>5. From(CacheAppend, {"lock"}, {"lock"}) /\ From(CachePop, {"lock"}, {"lock"})
  BY <1>1, CallFrom, FromMaybe DEF CacheAppend, CachePop
<1> QED
  BY <1>3, <1>4, <1>5 DEF Deallocate

\* The functions of the worker that take its mutex and do no more than one call.
LEMMA WorkerFrom ==
  /\ From(Unref, {}, {}) /\ From(FilterOut, {}, {}) /\ From(FinalWrite, {}, {})
  /\ From(ProcessError, {}, {}) /\ From(ProcessRead, {}, {})
<1>1. "lock" \in Names /\ {} \in SUBSET Names /\ {"lock"} \in SUBSET Names
  BY DEF Names
<1>2. /\ Legal(Lock("lock"), {}, {"lock"}) /\ Legal(Release("lock"), {"lock"}, {})
      /\ Legal(End("lock"), {"lock"}, {}) /\ Legal(End("lock"), {}, {}) /\ Legal(App, {}, {})
      /\ Legal(Enter("process_error"), {}, {})
  BY <1>1, LegalMoves, WaysDomain
<1>3. /\ From({<<Lock("lock")>>}, {}, {"lock"}) /\ From({<<End("lock")>>}, {"lock"}, {})
      /\ From({<<App, Lock("lock")>>}, {}, {"lock"})
  BY <1>1, <1>2, PathOne, PathTwo, FromSet
<1>4. From(PrepareDestroy("lock"), {"lock"}, {}) /\ From(Section("lock"), {}, {})
  BY <1>1, PrepareDestroyFrom, SectionFrom
<1>5. From(Unref, {}, {})
  BY <1>3, <1>4, FromThen DEF Unref
<1>6. From(FilterOut, {}, {})
  <2>1. From(Then({<<Lock("lock")>>}, CacheAppend), {}, {"lock"})
    BY <1>3, ZoneFrom, FromThen
  <2> QED
    BY <1>3, <2>1, FromThen DEF FilterOut
<1>7. From(FinalWrite, {}, {})
  <2>1. Path(<<Lock("lock"), Release("lock"), Enter("process_error"), End("lock")>>, {}, {})
    BY <1>1, <1>2, PathFour
  <2> QED
    BY <1>4, <2>1, FromSet, FromUnion DEF FinalWrite
<1>8. From(ProcessError, {}, {}) /\ From(ProcessRead, {}, {})
  BY <1>3, <1>4, FromThen DEF ProcessError, ProcessRead
<1> QED
  BY <1>5, <1>6, <1>7, <1>8

LEMMA CloseFrom == From(Close, {}, {})
<1>1. "lock" \in Names /\ "lock2" \in Names /\ {} \in SUBSET Names
      /\ {"lock"} \in SUBSET Names /\ {"lock2"} \in SUBSET Names
  BY DEF Names
<1>2. /\ Legal(Lock("lock"), {}, {"lock"}) /\ Legal(Release("lock"), {"lock"}, {})
      /\ Legal(End("lock"), {"lock"}, {}) /\ Legal(End("lock"), {}, {}) /\ Legal(App, {}, {})
      /\ Legal(Enter("process_error"), {}, {}) /\ Legal(Lock("lock2"), {}, {"lock2"})
  BY <1>1, LegalMoves, WaysDomain
<1> DEFINE before == {<<Lock("lock"), End("lock"), App, Lock("lock")>>}
           error  == {<<Release("lock"), Enter("process_error"), Lock("lock2")>>}
           after  == Then(PrepareDestroy("lock2"), {<<End("lock")>>})
<1>3. From(before, {}, {"lock"})
  BY <1>1, <1>2, PathFour, FromSet
<1>4. From(error, {"lock"}, {"lock2"})
  BY <1>1, <1>2, PathThree, FromSet
<1>5. From(after, {"lock2"}, {})
  <2>1. From({<<End("lock")>>}, {}, {})
    BY <1>1, <1>2, PathOne, FromSet
  <2> QED
    BY <1>1, <2>1, PrepareDestroyFrom, FromThen
<1> HIDE DEF before, error, after
<1>6. From(PrepareDestroy("lock") \cup Then(error, after), {"lock"}, {})
  BY <1>1, <1>4, <1>5, PrepareDestroyFrom, FromThen, FromUnion
<1>7. From(Section("lock") \cup Then(before, PrepareDestroy("lock") \cup Then(error, after)), {}, {})
  BY <1>1, <1>3, <1>6, SectionFrom, FromThen, FromUnion
<1> QED
  BY <1>7 DEF Close, before, error, after

LEMMA ProcessWriteFrom == From(ProcessWrite, {}, {})
<1>1. "lock" \in Names /\ {} \in SUBSET Names /\ {"lock"} \in SUBSET Names
  BY DEF Names
<1>2. /\ Legal(Lock("lock"), {}, {"lock"}) /\ Legal(Release("lock"), {"lock"}, {})
      /\ Legal(End("lock"), {"lock"}, {}) /\ Legal(End("lock"), {}, {}) /\ Legal(App, {}, {})
      /\ Legal(Enter("process_error"), {}, {})
  BY <1>1, LegalMoves, WaysDomain
<1> DEFINE first  == {<<Lock("lock")>>}
           popped == Then(CachePop, {<<End("lock")>>})
           empty  == {<<Lock("lock"), End("lock"), App, Lock("lock")>>}
           error  == {<<Release("lock"), Enter("process_error"), End("lock")>>}
<1>3. From(first, {}, {"lock"}) /\ From(empty, {}, {"lock"}) /\ From(error, {"lock"}, {})
  BY <1>1, <1>2, PathOne, PathThree, PathFour, FromSet
<1>4. From(popped, {"lock"}, {})
  <2>1. From({<<End("lock")>>}, {"lock"}, {})
    BY <1>1, <1>2, PathOne, FromSet
  <2> QED
    BY <2>1, ZoneFrom, FromThen
<1> HIDE DEF first, popped, empty, error
<1>5. From(Then(first, popped), {}, {})
  BY <1>3, <1>4, FromThen
<1>6. From(popped \cup error \cup PrepareDestroy("lock"), {"lock"}, {})
  BY <1>1, <1>3, <1>4, PrepareDestroyFrom, FromUnion
<1>7. From(Then(empty, popped \cup error \cup PrepareDestroy("lock")), {}, {})
  BY <1>3, <1>6, FromThen
<1>8. From(Then(first, popped) \cup Then(empty, popped \cup error \cup PrepareDestroy("lock")), {}, {})
  BY <1>5, <1>7, FromUnion
<1> QED
  BY <1>8 DEF ProcessWrite, first, popped, empty, error

\* The functions of the server and of the client.
LEMMA ServerFrom ==
  /\ From(AllocateObject, {}, {}) /\ From(IoInit, {}, {}) /\ From(IoDestroy, {}, {})
  /\ From(NewAccept, {}, {}) /\ From(AcceptHandler, {}, {})
<1>1. "hot" \in Names /\ "objects" \in Names /\ {} \in SUBSET Names
  BY DEF Names
<1>2. From(AllocateObject, {}, {}) /\ From(GetService, {}, {})
  BY <1>1, SectionFrom DEF AllocateObject, GetService
<1>3. /\ Legal(App, {}, {}) /\ Legal(Enter("unref"), {}, {}) /\ Legal(Enter("deallocate"), {}, {})
      /\ Legal(Enter("io_init"), {}, {})
  BY LegalMoves, WaysDomain
<1>4. From(IoInit, {}, {})
  BY <1>1, <1>3, PathTwo, FromSet DEF IoInit
<1>5. From({<<Enter("deallocate")>>}, {}, {})
  BY <1>1, <1>3, PathOne, FromSet
<1>6. From(IoDestroy, {}, {})
  BY <1>2, <1>5, FromUnion DEF IoDestroy
<1>7. From(NewAccept, {}, {})
  BY <1>2, FromThen DEF NewAccept
<1>8. From({<<Enter("io_init")>>, << >>}, {}, {})
  BY <1>1, <1>3, PathOne, PathEmpty, FromSet
<1>9. From(AllocateObject \cup {<<Enter("io_init")>>, << >>}, {}, {})
  BY <1>2, <1>8, FromUnion
<1>10. From(Maybe(NewAccept), {}, {})
  BY <1>1, <1>7, FromMaybe
<1>11. From(AcceptHandler, {}, {})
  BY <1>2, <1>9, <1>10, FromThen DEF AcceptHandler
<1> QED
  BY <1>2, <1>4, <1>6, <1>7, <1>11

LEMMA ClientFrom ==
  /\ From(IoTryCancel, {}, {}) /\ From(ClientStart, {}, {}) /\ From(UnblockWrite, {}, {})
  /\ From(HandleConnect, {}, {})
<1>1. "client" \in Names /\ "lock" \in Names /\ {} \in SUBSET Names /\ {"client"} \in SUBSET Names
      /\ {"client", "lock"} \in SUBSET Names
  BY DEF Names
<1>2. /\ Legal(Lock("client"), {}, {"client"}) /\ Legal(End("client"), {"client"}, {})
      /\ Legal(Lock("lock"), {"client"}, {"client", "lock"})
      /\ Legal(End("lock"), {"client", "lock"}, {"client"})
      /\ Legal(Enter("io_init"), {}, {}) /\ Legal(Enter("unblock_write"), {}, {})
      /\ Legal(Enter("process_error"), {}, {}) /\ Legal(Enter("unref"), {}, {})
      /\ Legal(Enter("process_write"), {}, {})
  BY <1>1, LegalMoves, WaysDomain
<1>3. From(Section("client"), {}, {}) /\ From(Section("lock"), {}, {})
  BY <1>1, SectionFrom
<1>4. Path(<<Lock("client"), Lock("lock"), End("lock"), End("client")>>, {}, {})
  BY <1>1, <1>2, PathFour
<1>5. From(IoTryCancel, {}, {})
  BY <1>3, <1>4, FromSet, FromUnion DEF IoTryCancel
<1>6. From({<<Enter("process_write")>>}, {}, {})
  BY <1>1, <1>2, PathOne, FromSet
<1>7. From(UnblockWrite, {}, {})
  BY <1>1, <1>3, <1>6, FromMaybe, FromThen DEF UnblockWrite
<1>8. From(HandleConnect, {}, {})
  BY <1>1, <1>2, PathTwo, FromSet DEF HandleConnect
<1> QED
  BY <1>3, <1>5, <1>7, <1>8 DEF ClientStart

\* Every way through every function is legal and leaves no lock behind.
LEMMA WaysFrom == \A f \in DOMAIN Ways : From(Ways[f], {}, {})
<1>1. "lock" \in Names
  BY DEF Names
<1>2. From(Ref, {}, {}) /\ From(TriggerRead, {}, {}) /\ From(GetCachedSize, {}, {})
  BY <1>1, SectionFrom DEF Ref, TriggerRead, GetCachedSize
<1> QED
  BY <1>2, WaysDomain, WorkerFrom, CloseFrom, ProcessWriteFrom, ServerFrom, ClientFrom, ZoneFrom
     DEF Ways

\* A function of the zone takes the locks of the zone, and calls nothing.
ZoneMoves == {Lock("zone"), End("zone"), Lock("blocks"), End("blocks")}
Inner(ways) == \A p \in ways : \A i \in 1..Len(p) : p[i] \in ZoneMoves

LEMMA ZoneInner == \A f \in Zone : Inner(Ways[f])
<1>1. Ways["allocate"] = Allocate /\ Ways["deallocate"] = Deallocate
  BY DEF Ways
<1> QED
  BY <1>1 DEF Zone, Inner, Allocate, Deallocate, Section, ZoneMoves

\* Path is left by its first move: the rest is a path from what it leaves locked.
LEMMA PathStep ==
  ASSUME NEW p, NEW L, NEW N, Path(p, L, N), p # << >>
  PROVE  \E M \in SUBSET Names : Legal(Head(p), L, M) /\ Path(Tail(p), M, N)
<1>1. p \in Seq(Moves) /\ Len(p) \in Nat \ {0}
  BY DEF Path
<1>2. PICK h \in [0..Len(p) -> SUBSET Names] : h[0] = L /\ h[Len(p)] = N /\ Run(p, h)
  BY DEF Path
<1> DEFINE q == Tail(p)
           k == [i \in 0..Len(q) |-> h[i + 1]]
<1>3. q \in Seq(Moves) /\ Len(q) = Len(p) - 1 /\ \A i \in 1..Len(q) : q[i] = p[i + 1]
  BY <1>1
<1>4. Head(p) = p[1]
  BY <1>1
<1> HIDE DEF q
<1>5. k \in [0..Len(q) -> SUBSET Names] /\ k[0] = h[1] /\ k[Len(q)] = h[Len(p)]
  BY <1>1, <1>3
<1>6. ASSUME NEW i \in 1..Len(q) PROVE Legal(q[i], k[i - 1], k[i])
  <2>1. i + 1 \in 1..Len(p) /\ (i + 1) - 1 = i
    BY <1>1, <1>3
  <2>2. Legal(p[i + 1], h[(i + 1) - 1], h[i + 1])
    BY <1>2, <2>1 DEF Run
  <2>3. k[i - 1] = h[i] /\ k[i] = h[i + 1]
    BY <1>1, <1>3
  <2> QED
    BY <1>3, <2>1, <2>2, <2>3
<1> HIDE DEF k
<1>7. Path(q, h[1], N)
  BY <1>2, <1>3, <1>5, <1>6 DEF Path, Run
<1>8. Legal(p[1], h[1 - 1], h[1]) /\ 1 - 1 = 0 /\ h[1] \in SUBSET Names
  BY <1>1, <1>2 DEF Run
<1>9. Legal(p[1], L, h[1])
  BY <1>2, <1>8
<1> QED
  BY <1>4, <1>7, <1>8, <1>9 DEF q

LEMMA PathDone == ASSUME NEW L, NEW N, Path(<< >>, L, N) PROVE L = N
BY DEF Path

\* What a move tells of the locks around it.
LEMMA LegalIs ==
  ASSUME NEW L, NEW M
  PROVE  /\ \A x : Legal(Lock(x), L, M) <=>
                     x \in Names /\ (\A y \in L : Rank(y) < Rank(x)) /\ M = L \cup {x}
         /\ \A x : Legal(Release(x), L, M) <=> x \in Names /\ x \in L /\ M = L \ {x}
         /\ \A x : Legal(End(x), L, M) <=> x \in Names /\ M = L \ {x}
         /\ \A f : Legal(Enter(f), L, M) <=>
              /\ f \in DOMAIN Ways /\ M = L
              /\ L = {} \/ (L \subseteq {"lock"} /\ f \in Zone)
         /\ Legal(App, L, M) <=> L = {} /\ M = L
BY DEF Legal, Lock, Release, End, Enter, App

LEMMA MovesAre ==
  /\ \A x : x \in Names => Lock(x) \notin {Release(y) : y \in Names} \cup {App}
  /\ \A f : Enter(f) \notin ZoneMoves
  /\ App \notin ZoneMoves
  /\ \A x : Lock(x) \in ZoneMoves \/ Release(x) \in ZoneMoves \/ End(x) \in ZoneMoves
              => x \in {"zone", "blocks"}
BY DEF Lock, Release, End, Enter, App, ZoneMoves

\* One spinlock has one rank, whichever scoped_lock of whichever frame locks it.
LEMMA MutexRank ==
  ASSUME NEW w, NEW z, NEW x \in Names, NEW y \in Names, Mutex(w, x) = Mutex(z, y)
  PROVE  Rank(x) = Rank(y)
BY DEF Mutex, Rank, Names

-----------------------------------------------------------------------------
(* Frames.                                                                 *)

FrameSet == [worker : Workers, ways : SUBSET Seq(Moves), locked : SUBSET Names]
Locks(fr) == {Mutex(fr.worker, x) : x \in fr.locked}

\* A frame is inside legal ways, which lead to nothing locked, and its locks
\* have different ranks.
FrameOK(fr) ==
  /\ fr \in FrameSet
  /\ \A x, y \in fr.locked : Rank(x) = Rank(y) => x = y
  /\ From(fr.ways, fr.locked, {})

Rest(fr, step, locked) ==
  [worker |-> fr.worker,
   ways   |-> {Tail(p) : p \in {q \in fr.ways : q # << >> /\ Head(q) = step}},
   locked |-> locked]

LEMMA AfterIs ==
  ASSUME NEW fr \in FrameSet, NEW step, NEW M
  PROVE  /\ After(fr, step) = Rest(fr, step, fr.locked)
         /\ [After(fr, step) EXCEPT !.locked = M] = Rest(fr, step, M)
<1> DEFINE left == {Tail(p) : p \in {q \in fr.ways : q # << >> /\ Head(q) = step}}
<1>1. After(fr, step) = [fr EXCEPT !.ways = left]
  BY Zenon DEF After
<1>2. \A N : Rest(fr, step, N) = [worker |-> fr.worker, ways |-> left, locked |-> N]
  BY Zenon DEF Rest
<1> HIDE DEF left
<1>3. /\ [fr EXCEPT !.ways = left] = [worker |-> fr.worker, ways |-> left, locked |-> fr.locked]
      /\ \A N : [[worker |-> fr.worker, ways |-> left, locked |-> fr.locked] EXCEPT !.locked = N]
                 = [worker |-> fr.worker, ways |-> left, locked |-> N]
  BY DEF FrameSet
<1>4. After(fr, step) = [worker |-> fr.worker, ways |-> left, locked |-> fr.locked]
  BY <1>1, <1>3, Zenon
<1>5. [After(fr, step) EXCEPT !.locked = M] = [worker |-> fr.worker, ways |-> left, locked |-> M]
  BY <1>3, <1>4, Zenon
<1> QED
  BY <1>2, <1>4, <1>5, Zenon

\* The function of a worker that was just called.
LEMMA FrameNew ==
  ASSUME NEW w \in Workers, NEW f \in DOMAIN Ways
  PROVE  /\ FrameOK(Frame(w, f)) /\ Locks(Frame(w, f)) = {} /\ Frame(w, f).locked = {}
         /\ f \in Zone => Inner(Frame(w, f).ways)
<1>1. From(Ways[f], {}, {})
  BY WaysFrom
<1>2. Ways[f] \subseteq Seq(Moves)
  BY <1>1 DEF From, Path
<1>3. /\ Frame(w, f) \in FrameSet
      /\ Frame(w, f).ways = Ways[f] /\ Frame(w, f).locked = {} /\ Frame(w, f).worker = w
  BY <1>2 DEF Frame, FrameSet
<1> QED
  BY <1>1, <1>3, ZoneInner DEF FrameOK, Locks

\* A frame that makes a move is again inside legal ways.
LEMMA FrameRest ==
  ASSUME NEW fr, FrameOK(fr), NEW p \in fr.ways, p # << >>, NEW M,
         \A N : Legal(Head(p), fr.locked, N) => N = M
  PROVE  /\ FrameOK(Rest(fr, Head(p), M)) /\ Legal(Head(p), fr.locked, M)
         /\ Inner(fr.ways) => Inner(Rest(fr, Head(p), M).ways) /\ Head(p) \in ZoneMoves
<1> DEFINE step == Head(p)
           r    == Rest(fr, step, M)
<1>1. fr.ways \subseteq Seq(Moves) /\ fr.locked \in SUBSET Names /\ fr.worker \in Workers
  BY DEF FrameOK, FrameSet
<1>2. ASSUME NEW q \in fr.ways, q # << >>, Head(q) = step
      PROVE  Legal(step, fr.locked, M) /\ Path(Tail(q), M, {}) /\ M \in SUBSET Names
  <2>1. Path(q, fr.locked, {})
    BY DEF FrameOK, From
  <2>2. PICK N \in SUBSET Names : Legal(Head(q), fr.locked, N) /\ Path(Tail(q), N, {})
    BY <1>2, <2>1, PathStep
  <2>3. N = M
    BY <1>2, <2>2
  <2> QED
    BY <1>2, <2>2, <2>3
<1>3. Legal(step, fr.locked, M) /\ M \in SUBSET Names
  BY <1>2
<1> HIDE DEF step
<1>4. r.worker = fr.worker /\ r.locked = M
      /\ r.ways = {Tail(q) : q \in {z \in fr.ways : z # << >> /\ Head(z) = step}}
  BY DEF Rest
<1> HIDE DEF r
<1>5. From(r.ways, M, {})
  BY <1>2, <1>4 DEF From
<1>6. r \in FrameSet
  <2>1. r.ways \subseteq Seq(Moves)
    BY <1>5 DEF From, Path
  <2> QED
    BY <1>1, <1>3, <1>4, <2>1 DEF FrameSet, r, Rest
<1>7. \A x, y \in M : Rank(x) = Rank(y) => x = y
  <2>1. \A x, y \in fr.locked : Rank(x) = Rank(y) => x = y
    BY DEF FrameOK
  <2>2. \A x \in Names : Rank(x) \in Nat
    BY DEF Rank
  <2>3. M \subseteq fr.locked
        \/ \E x \in Names : M = fr.locked \cup {x} /\ \A y \in fr.locked : Rank(y) < Rank(x)
    BY <1>3 DEF Legal
  <2>4. CASE M \subseteq fr.locked
    BY <2>1, <2>4
  <2>5. CASE \E x \in Names : M = fr.locked \cup {x} /\ \A y \in fr.locked : Rank(y) < Rank(x)
    <3>1. PICK x \in Names : M = fr.locked \cup {x} /\ \A y \in fr.locked : Rank(y) < Rank(x)
      BY <2>5
    <3>2. \A y \in fr.locked : Rank(y) # Rank(x)
      BY <1>1, <2>2, <3>1
    <3> QED
      BY <2>1, <3>1, <3>2
  <2> QED
    BY <2>3, <2>4, <2>5
<1>8. ASSUME Inner(fr.ways) PROVE Inner(r.ways) /\ step \in ZoneMoves
  <2>1. ASSUME NEW q \in fr.ways, q # << >>
        PROVE  Head(q) \in ZoneMoves /\ \A i \in 1..Len(Tail(q)) : Tail(q)[i] \in ZoneMoves
    <3>1. q \in Seq(Moves) /\ \A i \in 1..Len(q) : q[i] \in ZoneMoves
      BY <1>1, <1>8 DEF Inner
    <3>2. Head(q) = q[1] /\ 1 \in 1..Len(q)
      BY <2>1, <3>1
    <3>3. \A i \in 1..Len(Tail(q)) : Tail(q)[i] = q[i + 1] /\ i + 1 \in 1..Len(q)
      BY <2>1, <3>1
    <3> QED
      BY <3>1, <3>2, <3>3
  <2>2. step \in ZoneMoves
    BY <2>1 DEF step
  <2> QED
    BY <1>4, <2>1, <2>2 DEF Inner
<1> QED
  BY <1>3, <1>4, <1>5, <1>6, <1>7, <1>8 DEF FrameOK, step, r

-----------------------------------------------------------------------------
(* Stacks.                                                                 *)

\* What the frames of a stack hold.
Held(s) == UNION {Locks(fr) : fr \in ToSet(s)}

\* A worker's mutex may stay locked in a frame whose callee is inside the zone;
\* the frames below those two hold nothing.
StackOK(s) ==
  /\ s \in Seq(FrameSet)
  /\ \A i \in 1..Len(s) : FrameOK(s[i])
  /\ \A i \in 1..(Len(s) - 2) : s[i].locked = {}
  /\ Len(s) >= 2 =>
       \/ s[Len(s) - 1].locked = {}
       \/ s[Len(s) - 1].locked \subseteq {"lock"} /\ Inner(s[Len(s)].ways)

Mutexes == {<<"mutex", w>> : w \in Workers}

LEMMA HeldIs ==
  ASSUME NEW s \in Seq(FrameSet)
  PROVE  \A m : m \in Held(s) <=> \E i \in 1..Len(s) : m \in Locks(s[i])
<1>1. \A m : m \in Held(s) <=> \E fr \in ToSet(s) : m \in Locks(fr)
  BY Zenon DEF Held
<1>2. \A fr : fr \in ToSet(s) <=> \E i \in 1..Len(s) : fr = s[i]
  BY DEF ToSet
<1> QED
  BY <1>1, <1>2, Zenon

LEMMA HeldAppend ==
  ASSUME NEW b \in Seq(FrameSet), NEW fr \in FrameSet
  PROVE  /\ Append(b, fr) \in Seq(FrameSet) /\ Append(b, fr) # << >>
         /\ Len(Append(b, fr)) = Len(b) + 1
         /\ \A i \in 1..Len(b) : Append(b, fr)[i] = b[i]
         /\ Append(b, fr)[Len(b) + 1] = fr
         /\ Held(Append(b, fr)) = Held(b) \cup Locks(fr)
<1> DEFINE s == Append(b, fr)
<1>1. /\ s \in Seq(FrameSet) /\ s # << >> /\ Len(s) = Len(b) + 1 /\ Len(b) \in Nat
      /\ \A i \in 1..Len(b) : s[i] = b[i]
      /\ s[Len(b) + 1] = fr
  BY AppendProperties, LenProperties
<1> HIDE DEF s
<1>2. /\ \A m : m \in Held(s) <=> \E i \in 1..Len(s) : m \in Locks(s[i])
      /\ \A m : m \in Held(b) <=> \E i \in 1..Len(b) : m \in Locks(b[i])
  BY <1>1, HeldIs
<1>3. \A i : i \in 1..Len(s) <=> i \in 1..Len(b) \/ i = Len(b) + 1
  BY <1>1
<1>4. \A m : m \in Held(s) <=> m \in Held(b) \/ m \in Locks(fr)
  BY <1>1, <1>2, <1>3, Zenon
<1>5. Held(s) = Held(b) \cup Locks(fr)
  BY <1>4, Zenon
<1> QED
  BY <1>1, <1>5 DEF s

LEMMA StackSplit ==
  ASSUME NEW s \in Seq(FrameSet), s # << >>
  PROVE  /\ Front(s) \in Seq(FrameSet) /\ Last(s) \in FrameSet
         /\ Len(s) \in Nat \ {0} /\ Len(Front(s)) = Len(s) - 1
         /\ \A i \in 1..(Len(s) - 1) : Front(s)[i] = s[i]
         /\ Last(s) = s[Len(s)]
         /\ Held(s) = Held(Front(s)) \cup Locks(Last(s))
<1>1. Len(s) \in Nat \ {0}
  BY EmptySeq
<1>2. /\ Front(s) \in Seq(FrameSet) /\ Len(Front(s)) = Len(s) - 1
      /\ \A i \in 1..(Len(s) - 1) : Front(s)[i] = s[i]
  BY <1>1, SubSeqProperties DEF Front
<1>3. Last(s) = s[Len(s)] /\ Last(s) \in FrameSet
  BY <1>1 DEF Last
<1> DEFINE b == Front(s)
<1> HIDE DEF b
<1>4. /\ \A m : m \in Held(s) <=> \E i \in 1..Len(s) : m \in Locks(s[i])
      /\ \A m : m \in Held(b) <=> \E i \in 1..Len(b) : m \in Locks(b[i])
  BY <1>2, HeldIs DEF b
<1>5. \A i : i \in 1..Len(s) <=> i \in 1..Len(b) \/ i = Len(s)
  BY <1>1, <1>2 DEF b
<1>6. \A i \in 1..Len(b) : b[i] = s[i]
  BY <1>2 DEF b
<1>7. \A m : m \in Held(s) <=> m \in Held(b) \/ m \in Locks(Last(s))
  BY <1>3, <1>4, <1>5, <1>6, Zenon
<1>8. Held(s) = Held(b) \cup Locks(Last(s))
  BY <1>7, Zenon
<1> QED
  BY <1>1, <1>2, <1>3, <1>8 DEF b

\* The frames below the running one hold nothing, or a worker's mutex while it
\* is in the zone.
LEMMA StackTop ==
  ASSUME NEW s, StackOK(s), s # << >>
  PROVE  /\ StackOK(Front(s)) /\ FrameOK(Last(s))
         /\ \/ \A i \in 1..Len(Front(s)) : Front(s)[i].locked = {}
            \/ Inner(Last(s).ways) /\ Held(Front(s)) \subseteq Mutexes
         /\ Held(s) = Held(Front(s)) \cup Locks(Last(s))
<1> DEFINE b == Front(s)
<1>1. s \in Seq(FrameSet)
  BY DEF StackOK
<1>2. /\ b \in Seq(FrameSet) /\ Last(s) \in FrameSet
      /\ Len(s) \in Nat \ {0} /\ Len(b) = Len(s) - 1
      /\ \A i \in 1..Len(b) : b[i] = s[i]
      /\ Last(s) = s[Len(s)]
      /\ Held(s) = Held(b) \cup Locks(Last(s))
  BY <1>1, StackSplit
<1> HIDE DEF b
<1>3. /\ \A i \in 1..Len(s) : FrameOK(s[i])
      /\ \A i \in 1..(Len(s) - 2) : s[i].locked = {}
      /\ Len(s) >= 2 =>
           \/ s[Len(s) - 1].locked = {}
           \/ s[Len(s) - 1].locked \subseteq {"lock"} /\ Inner(s[Len(s)].ways)
  BY DEF StackOK
<1>4. StackOK(b)
  <2>1. \A i \in 1..Len(b) : FrameOK(b[i])
    BY <1>2, <1>3
  <2>2. \A i \in 1..(Len(b) - 2) : b[i].locked = {}
    BY <1>2, <1>3
  <2>3. Len(b) >= 2 => b[Len(b) - 1].locked = {}
    BY <1>2, <1>3
  <2> QED
    BY <1>2, <2>1, <2>2, <2>3 DEF StackOK
<1>5. FrameOK(Last(s))
  BY <1>2, <1>3
<1>6. CASE Len(s) < 2 \/ s[Len(s) - 1].locked = {}
  <2>1. \A i \in 1..Len(b) : b[i].locked = {}
    BY <1>2, <1>3, <1>6
  <2> QED
    BY <1>2, <1>4, <1>5, <2>1 DEF b
<1>7. CASE Len(s) >= 2 /\ s[Len(s) - 1].locked \subseteq {"lock"} /\ Inner(s[Len(s)].ways)
  <2>1. \A i \in 1..Len(b) : b[i].locked \subseteq {"lock"} /\ b[i].worker \in Workers
    <3>1. \A i \in 1..Len(b) : b[i].worker \in Workers
      <4>1. \A i \in 1..Len(b) : FrameOK(b[i])
        BY <1>2, <1>3
      <4> QED
        BY <4>1 DEF FrameOK, FrameSet
    <3>2. \A i \in 1..Len(b) : i \in 1..(Len(s) - 2) \/ i = Len(s) - 1
      BY <1>2
    <3> QED
      BY <1>2, <1>3, <1>7, <3>1, <3>2
  <2>2. \A i \in 1..Len(b) : Locks(b[i]) \subseteq Mutexes
    BY <2>1 DEF Locks, Mutexes, Mutex
  <2>3. \A m : m \in Held(b) <=> \E i \in 1..Len(b) : m \in Locks(b[i])
    BY <1>2, HeldIs
  <2>4. Held(b) \subseteq Mutexes
    BY <2>2, <2>3
  <2> QED
    BY <1>2, <1>4, <1>5, <1>7, <2>4 DEF b
<1> QED
  BY <1>2, <1>3, <1>6, <1>7

\* Frames that have nothing locked hold nothing, and the other way round.
LEMMA HeldNothing ==
  ASSUME NEW b \in Seq(FrameSet)
  PROVE  (\A i \in 1..Len(b) : b[i].locked = {}) <=> Held(b) = {}
<1>1. \A m : m \in Held(b) <=> \E i \in 1..Len(b) : m \in Locks(b[i])
  BY HeldIs
<1>2. \A i \in 1..Len(b) : Locks(b[i]) = {} <=> b[i].locked = {}
  BY DEF Locks
<1>3. Held(b) = {} <=> \A i \in 1..Len(b) : Locks(b[i]) = {}
  BY <1>1, Zenon
<1> QED
  BY <1>2, <1>3, Zenon

\* The running frame is replaced by one that goes on, or that is gone.
LEMMA StackOver ==
  ASSUME NEW s, StackOK(s), s # << >>, NEW r, FrameOK(r),
         Inner(Last(s).ways) => Inner(r.ways)
  PROVE  /\ StackOK(Over(Front(s), r))
         /\ Held(Over(Front(s), r)) = Held(Front(s)) \cup Locks(r)
<1> DEFINE b == Front(s)
<1>1. /\ b \in Seq(FrameSet) /\ Len(s) \in Nat \ {0} /\ Len(b) = Len(s) - 1
      /\ \A i \in 1..Len(b) : b[i] = s[i]
      /\ Last(s) = s[Len(s)]
  BY StackSplit DEF StackOK
<1>2. StackOK(b)
  BY StackTop
<1> HIDE DEF b
<1>3. CASE r.ways = {<< >>}
  <2>1. Path(<< >>, r.locked, {})
    BY <1>3 DEF FrameOK, From
  <2>2. r.locked = {}
    BY <2>1, PathDone
  <2>3. Locks(r) = {} /\ Over(b, r) = b
    BY <1>3, <2>2 DEF Locks, Over
  <2> QED
    BY <1>2, <2>3 DEF b
<1>4. CASE r.ways # {<< >>}
  <2> DEFINE n == Append(b, r)
  <2>1. Over(b, r) = n
    BY <1>4 DEF Over
  <2>2. r \in FrameSet
    BY DEF FrameOK
  <2>3. /\ n \in Seq(FrameSet) /\ Len(n) = Len(b) + 1
        /\ \A i \in 1..Len(b) : n[i] = b[i]
        /\ n[Len(b) + 1] = r
        /\ Held(n) = Held(b) \cup Locks(r)
    BY <1>1, <2>2, HeldAppend
  <2> HIDE DEF n
  <2>4. /\ \A i \in 1..Len(s) : FrameOK(s[i])
        /\ \A i \in 1..(Len(s) - 2) : s[i].locked = {}
        /\ Len(s) >= 2 =>
             \/ s[Len(s) - 1].locked = {}
             \/ s[Len(s) - 1].locked \subseteq {"lock"} /\ Inner(s[Len(s)].ways)
    BY DEF StackOK
  <2>5. Len(n) = Len(s) /\ \A i \in 1..(Len(s) - 1) : n[i] = s[i]
    BY <1>1, <2>3
  <2>6. n[Len(s)] = r
    BY <1>1, <2>3
  <2>7. \A i \in 1..Len(n) : FrameOK(n[i])
    BY <1>1, <2>4, <2>5, <2>6
  <2>8. \A i \in 1..(Len(n) - 2) : n[i].locked = {}
    BY <1>1, <2>4, <2>5
  <2>9. Len(n) >= 2 =>
          \/ n[Len(n) - 1].locked = {}
          \/ n[Len(n) - 1].locked \subseteq {"lock"} /\ Inner(n[Len(n)].ways)
    BY <1>1, <2>4, <2>5, <2>6
  <2>10. StackOK(n)
    BY <2>3, <2>7, <2>8, <2>9 DEF StackOK
  <2> QED
    BY <2>1, <2>3, <2>10 DEF b
<1> QED
  BY <1>3, <1>4

\* A function is called by the application, which holds nothing, or by a frame
\* that has at most the worker's mutex, if the function is one of the zone.
LEMMA StackPush ==
  ASSUME NEW b, StackOK(b), NEW w \in Workers, NEW f \in DOMAIN Ways,
         \A i \in 1..(Len(b) - 1) : b[i].locked = {},
         b # << >> => (Last(b).locked = {} \/ (Last(b).locked \subseteq {"lock"} /\ f \in Zone))
  PROVE  /\ StackOK(Append(b, Frame(w, f)))
         /\ Held(Append(b, Frame(w, f))) = Held(b)
<1> DEFINE r == Frame(w, f)
           n == Append(b, r)
<1>1. /\ FrameOK(r) /\ Locks(r) = {} /\ r.locked = {}
      /\ f \in Zone => Inner(r.ways)
  BY FrameNew
<1>2. r \in FrameSet /\ b \in Seq(FrameSet) /\ Len(b) \in Nat
  BY <1>1 DEF FrameOK, StackOK
<1> HIDE DEF r
<1>3. /\ n \in Seq(FrameSet) /\ Len(n) = Len(b) + 1
      /\ \A i \in 1..Len(b) : n[i] = b[i]
      /\ n[Len(b) + 1] = r
      /\ Held(n) = Held(b) \cup Locks(r)
  BY <1>2, HeldAppend
<1> HIDE DEF n
<1>4. \A i \in 1..Len(n) : FrameOK(n[i])
  BY <1>1, <1>2, <1>3 DEF StackOK
<1>5. \A i \in 1..(Len(n) - 2) : n[i].locked = {}
  BY <1>2, <1>3
<1>6. Len(n) >= 2 =>
        \/ n[Len(n) - 1].locked = {}
        \/ n[Len(n) - 1].locked \subseteq {"lock"} /\ Inner(n[Len(n)].ways)
  <2>1. SUFFICES ASSUME Len(n) >= 2
                 PROVE  \/ n[Len(n) - 1].locked = {}
                        \/ n[Len(n) - 1].locked \subseteq {"lock"} /\ Inner(n[Len(n)].ways)
    OBVIOUS
  <2>2. b # << >> /\ n[Len(n) - 1] = Last(b) /\ n[Len(n)] = r
    BY <1>2, <1>3, <2>1, EmptySeq DEF Last
  <2> QED
    BY <1>1, <2>2
<1>7. StackOK(n)
  BY <1>3, <1>4, <1>5, <1>6 DEF StackOK
<1> QED
  BY <1>1, <1>3, <1>7 DEF n, r

-----------------------------------------------------------------------------
(* The invariant, and what a thread's next step is.                        *)

Inv ==
  /\ stack \in [Threads -> Seq(FrameSet)]
  /\ \A t \in Threads : StackOK(stack[t])
  /\ MutualExclusion

\* A step of t is the first of a legal way; what it leaves locked is known.
LEMMA StepOf ==
  ASSUME Inv, NEW t \in Threads, NEW step \in Steps(t), NEW M,
         \A N : Legal(step, Top(t).locked, N) => N = M
  PROVE  LET r == Rest(Top(t), step, M)
         IN  /\ StackOK(stack[t]) /\ stack[t] # << >>
             /\ Legal(step, Top(t).locked, M)
             /\ \/ \A i \in 1..Len(Front(stack[t])) : Front(stack[t])[i].locked = {}
                \/ step \in ZoneMoves /\ Held(Front(stack[t])) \subseteq Mutexes
             /\ FrameOK(r) /\ r.worker = Top(t).worker /\ r.locked = M
             /\ [After(Top(t), step) EXCEPT !.locked = M] = r
             /\ M = Top(t).locked => After(Top(t), step) = r
             /\ StackOK(Over(Front(stack[t]), r))
             /\ Held(Over(Front(stack[t]), r)) = Held(Front(stack[t])) \cup Locks(r)
             /\ HeldBy(t) = Held(Front(stack[t])) \cup Locks(Top(t))
             /\ FrameOK(Top(t))
<1> DEFINE s == stack[t]
           fr == Top(t)
           r == Rest(fr, step, M)
<1>1. StackOK(s) /\ s # << >> /\ fr = Last(s)
  BY DEF Inv, Steps, Top
<1>2. PICK p \in fr.ways : p # << >> /\ step = Head(p)
  BY <1>1 DEF Steps
<1>3. /\ StackOK(Front(s)) /\ FrameOK(fr)
      /\ \/ \A i \in 1..Len(Front(s)) : Front(s)[i].locked = {}
         \/ Inner(fr.ways) /\ Held(Front(s)) \subseteq Mutexes
      /\ Held(s) = Held(Front(s)) \cup Locks(fr)
  BY <1>1, StackTop
<1>4. HeldBy(t) = Held(s)
  BY DEF HeldBy, Held, Locks
<1> HIDE DEF s, fr
<1>5. \A N : Legal(Head(p), fr.locked, N) => N = M
  BY <1>2 DEF fr
<1>6. /\ FrameOK(Rest(fr, Head(p), M)) /\ Legal(Head(p), fr.locked, M)
      /\ Inner(fr.ways) => Inner(Rest(fr, Head(p), M).ways) /\ Head(p) \in ZoneMoves
  BY <1>2, <1>3, <1>5, FrameRest
<1>7. /\ FrameOK(r) /\ Legal(step, fr.locked, M)
      /\ Inner(fr.ways) => Inner(r.ways) /\ step \in ZoneMoves
  BY <1>2, <1>6
<1>8. r.worker = fr.worker /\ r.locked = M
  BY DEF Rest
<1>9. fr \in FrameSet
  BY <1>3 DEF FrameOK
<1>10. After(fr, step) = Rest(fr, step, fr.locked) /\ [After(fr, step) EXCEPT !.locked = M] = r
  BY <1>9, AfterIs
<1> HIDE DEF r
<1>11. /\ StackOK(Over(Front(s), r))
       /\ Held(Over(Front(s), r)) = Held(Front(s)) \cup Locks(r)
  BY <1>1, <1>7, StackOver
<1>12. M = fr.locked => After(fr, step) = r
  BY <1>10 DEF r
<1> QED
  BY <1>1, <1>3, <1>4, <1>7, <1>8, <1>10, <1>11, <1>12 DEF s, fr, r

LEMMA DoesIs ==
  ASSUME NEW t, NEW kind, NEW x \in Does(t, kind), Inv, t \in Threads
  PROVE  <<kind, x>> \in Steps(t)
<1>1. PICK step \in Steps(t) : step[1] = kind /\ x = step[2]
  BY DEF Does
<1>2. stack[t] # << >>
  BY <1>1 DEF Steps
<1>3. PICK p \in Top(t).ways : p # << >> /\ step = Head(p)
  BY <1>1, <1>2 DEF Steps
<1>4. FrameOK(Top(t))
  BY <1>2, StackTop DEF Inv, Top
<1>5. p \in Seq(Moves)
  BY <1>4 DEF FrameOK, FrameSet
<1>6. step \in Moves
  BY <1>3, <1>5, HeadTailProperties
<1>7. \A m \in Moves : m = <<m[1], m[2]>>
  BY DEF Moves, Lock, Release, End, Enter, App
<1> QED
  BY <1>1, <1>6, <1>7

\* One thread's stack is replaced; v_ follows what it holds.
LEMMA InvStep ==
  ASSUME Inv, NEW t \in Threads, NEW s, StackOK(s), stack' = [stack EXCEPT ![t] = s],
         \/ v_' = v_ /\ Held(s) = HeldBy(t)
         \/ \E m : m \notin v_ /\ v_' = v_ \cup {m} /\ Held(s) = HeldBy(t) \cup {m}
         \/ \E m \in HeldBy(t) : v_' = v_ \ {m} /\ Held(s) = HeldBy(t) \ {m}
  PROVE  Inv'
<1>1. s \in Seq(FrameSet) /\ stack \in [Threads -> Seq(FrameSet)]
  BY DEF StackOK, Inv
<1>2. stack' \in [Threads -> Seq(FrameSet)] /\ stack'[t] = s
      /\ \A u \in Threads : u # t => stack'[u] = stack[u]
  BY <1>1
<1>3. \A u \in Threads : StackOK(stack'[u])
  BY <1>2 DEF Inv
<1>4. \A u : HeldBy(u) = Held(stack[u]) /\ HeldBy(u)' = Held(stack'[u])
  BY DEF HeldBy, Held, Locks
<1>5. HeldBy(t)' = Held(s) /\ \A u \in Threads : u # t => HeldBy(u)' = HeldBy(u)
  BY <1>2, <1>4
<1>6. /\ \A m : m \in v_ <=> \E u \in Threads : m \in HeldBy(u)
      /\ \A u, z \in Threads : u # z => \A m : ~(m \in HeldBy(u) /\ m \in HeldBy(z))
  BY DEF Inv, MutualExclusion
<1>7. /\ \A m : m \in v_' <=> \E u \in Threads : m \in HeldBy(u)'
      /\ \A u, z \in Threads : u # z => \A m : ~(m \in HeldBy(u)' /\ m \in HeldBy(z)')
  <2>1. CASE v_' = v_ /\ Held(s) = HeldBy(t)
    BY <1>5, <1>6, <2>1
  <2>2. CASE \E m : m \notin v_ /\ v_' = v_ \cup {m} /\ Held(s) = HeldBy(t) \cup {m}
    BY <1>5, <1>6, <2>2
  <2>3. CASE \E m \in HeldBy(t) : v_' = v_ \ {m} /\ Held(s) = HeldBy(t) \ {m}
    BY <1>5, <1>6, <2>3
  <2> QED
    BY <2>1, <2>2, <2>3
<1>8. MutualExclusion'
  BY <1>7 DEF MutualExclusion
<1> QED
  BY <1>2, <1>3, <1>8 DEF Inv

-----------------------------------------------------------------------------
(* The invariant is kept, one lemma for each action.                       *)

LEMMA LockLegal ==
  ASSUME NEW x, NEW L \in SUBSET Names
  PROVE  /\ \A N : Legal(Lock(x), L, N) => N = L \cup {x}
         /\ \A N : Legal(Release(x), L, N) => N = L \ {x}
         /\ \A N : Legal(End(x), L, N) => N = L \ {x}
         /\ \A N : Legal(App, L, N) => N = L
         /\ \A N : Legal(Enter(x), L, N) => N = L
BY LegalIs

LEMMA ScopedLockStep ==
  ASSUME Inv, NEW t \in Threads, ScopedLock(t) PROVE Inv'
<1>1. PICK x \in Does(t, "lock") :
        /\ Mutex(Top(t).worker, x) \notin v_
        /\ v_' = v_ \cup {Mutex(Top(t).worker, x)}
        /\ Advance(t, Lock(x), Top(t).locked \cup {x})
  BY DEF ScopedLock
<1> DEFINE m == Mutex(Top(t).worker, x)
           M == Top(t).locked \cup {x}
           r == Rest(Top(t), Lock(x), M)
           s == Over(Front(stack[t]), r)
<1>2. Lock(x) \in Steps(t)
  BY DoesIs DEF Lock
<1>3. Top(t).locked \in SUBSET Names
  BY <1>2, StackTop DEF Steps, Top, FrameOK, FrameSet, Inv
<1>4. \A N : Legal(Lock(x), Top(t).locked, N) => N = M
  BY <1>3, LockLegal, Zenon
<1> HIDE DEF M
<1>5. /\ r.worker = Top(t).worker /\ r.locked = M
      /\ [After(Top(t), Lock(x)) EXCEPT !.locked = M] = r
      /\ StackOK(s) /\ Held(s) = Held(Front(stack[t])) \cup Locks(r)
      /\ HeldBy(t) = Held(Front(stack[t])) \cup Locks(Top(t))
  BY <1>2, <1>4, StepOf
<1>6. Locks(r) = Locks(Top(t)) \cup {m}
  BY <1>5 DEF Locks, M
<1>7. Held(s) = HeldBy(t) \cup {m}
  BY <1>5, <1>6
<1>8. stack' = [stack EXCEPT ![t] = s]
  BY <1>1, <1>5, Zenon DEF Advance, Top, M
<1> QED
  BY <1>1, <1>5, <1>7, <1>8, InvStep

\* A lock of the running frame that is locked is no lock of those below it,
\* and no other lock of the running frame.
LEMMA UnlockOwn ==
  ASSUME NEW t \in Threads, Inv, NEW x, NEW step \in {Release(x), End(x)}, step \in Steps(t),
         x \in Top(t).locked,
         v_' = v_ \ {Mutex(Top(t).worker, x)},
         Advance(t, step, Top(t).locked \ {x})
  PROVE  Inv'
<1> DEFINE m == Mutex(Top(t).worker, x)
           M == Top(t).locked \ {x}
           r == Rest(Top(t), step, M)
           b == Front(stack[t])
           s == Over(b, r)
<1>1. Top(t).locked \in SUBSET Names
  BY StackTop DEF Steps, Top, FrameOK, FrameSet, Inv
<1>2. \A N : Legal(step, Top(t).locked, N) => N = M
  <2>1. CASE step = Release(x)
    BY <1>1, <2>1, LockLegal, Zenon
  <2>2. CASE step = End(x)
    BY <1>1, <2>2, LockLegal, Zenon
  <2> QED
    BY <2>1, <2>2
<1> HIDE DEF M
<1>3. /\ \/ \A i \in 1..Len(b) : b[i].locked = {}
         \/ step \in ZoneMoves /\ Held(b) \subseteq Mutexes
      /\ r.worker = Top(t).worker /\ r.locked = M
      /\ [After(Top(t), step) EXCEPT !.locked = M] = r
      /\ StackOK(s) /\ Held(s) = Held(b) \cup Locks(r)
      /\ HeldBy(t) = Held(b) \cup Locks(Top(t))
      /\ FrameOK(Top(t)) /\ StackOK(stack[t]) /\ stack[t] # << >>
  <2>1. step \in Steps(t)
    OBVIOUS
  <2> HIDE DEF r, s
  <2>2. /\ \/ \A i \in 1..Len(b) : b[i].locked = {}
           \/ step \in ZoneMoves /\ Held(b) \subseteq Mutexes
        /\ HeldBy(t) = Held(b) \cup Locks(Top(t))
        /\ FrameOK(Top(t)) /\ StackOK(stack[t]) /\ stack[t] # << >>
    BY <1>2, <2>1, StepOf
  <2>3. /\ r.worker = Top(t).worker /\ r.locked = M
        /\ [After(Top(t), step) EXCEPT !.locked = M] = r
    BY <1>2, <2>1, StepOf DEF r
  <2>4. StackOK(s) /\ Held(s) = Held(b) \cup Locks(r)
    BY <1>2, <2>1, StepOf DEF r, s
  <2> QED
    BY <2>2, <2>3, <2>4, Zenon
<1>4. m \notin Held(b)
  <2>1. CASE \A i \in 1..Len(b) : b[i].locked = {}
    <3>1. b \in Seq(FrameSet)
      BY <1>3, StackTop DEF StackOK
    <3> QED
      BY <2>1, <3>1, HeldNothing
  <2>2. CASE step \in ZoneMoves /\ Held(b) \subseteq Mutexes
    <3>1. x \in {"zone", "blocks"}
      BY <2>2, MovesAre
    <3>2. m \notin Mutexes
      BY <3>1 DEF Mutex, Mutexes
    <3> QED
      BY <2>2, <3>2
  <2> QED
    BY <1>3, <2>1, <2>2
<1>5. Locks(r) = Locks(Top(t)) \ {m}
  <2>1. \A y \in Top(t).locked : Mutex(Top(t).worker, y) = m => y = x
    BY <1>1, <1>3, MutexRank DEF FrameOK
  <2> QED
    BY <1>3, <2>1 DEF Locks, M
<1>6. m \in HeldBy(t) /\ Held(s) = HeldBy(t) \ {m}
  <2>1. m \in Locks(Top(t))
    BY DEF Locks
  <2> QED
    BY <1>3, <1>4, <1>5, <2>1
<1>7. stack' = [stack EXCEPT ![t] = s]
  BY <1>3, Zenon DEF Advance, Top, M
<1> QED
  BY <1>3, <1>6, <1>7, InvStep

LEMMA ScopedReleaseStep ==
  ASSUME Inv, NEW t \in Threads, ScopedRelease(t) PROVE Inv'
<1>1. PICK x \in Does(t, "release") :
        /\ v_' = v_ \ {Mutex(Top(t).worker, x)}
        /\ Advance(t, Release(x), Top(t).locked \ {x})
  BY DEF ScopedRelease
<1>2. Release(x) \in Steps(t)
  BY DoesIs DEF Release
<1>3. Top(t).locked \in SUBSET Names
  BY <1>2, StackTop DEF Steps, Top, FrameOK, FrameSet, Inv
<1>4. Legal(Release(x), Top(t).locked, Top(t).locked \ {x})
  <2>1. \A N : Legal(Release(x), Top(t).locked, N) => N = Top(t).locked \ {x}
    BY <1>3, LockLegal, Zenon
  <2> QED
    BY <1>2, <2>1, StepOf
<1>5. x \in Top(t).locked
  <2>1. \A L, M : Legal(Release(x), L, M) => x \in L
    BY LegalIs
  <2> QED
    BY <1>4, <2>1, Zenon
<1> QED
  BY <1>1, <1>2, <1>5, UnlockOwn

LEMMA ScopedEndStep ==
  ASSUME Inv, NEW t \in Threads, ScopedEnd(t) PROVE Inv'
<1>1. PICK x \in Does(t, "end") :
        /\ v_' = IF x \in Top(t).locked THEN v_ \ {Mutex(Top(t).worker, x)} ELSE v_
        /\ Advance(t, End(x), Top(t).locked \ {x})
  BY DEF ScopedEnd
<1>2. End(x) \in Steps(t)
  BY DoesIs DEF End
<1>3. CASE x \in Top(t).locked
  BY <1>1, <1>2, <1>3, UnlockOwn
<1>4. CASE x \notin Top(t).locked
  <2> DEFINE M == Top(t).locked
             r == Rest(Top(t), End(x), M)
             s == Over(Front(stack[t]), r)
  <2>1. M \in SUBSET Names /\ M \ {x} = M
    BY <1>2, <1>4, StackTop DEF Steps, Top, FrameOK, FrameSet, Inv
  <2>2. \A N : Legal(End(x), M, N) => N = M
    BY <2>1, LockLegal, Zenon
  <2>3. /\ r.worker = Top(t).worker /\ r.locked = M
        /\ [After(Top(t), End(x)) EXCEPT !.locked = M] = r
        /\ StackOK(s) /\ Held(s) = Held(Front(stack[t])) \cup Locks(r)
        /\ HeldBy(t) = Held(Front(stack[t])) \cup Locks(Top(t))
    BY <1>2, <2>2, StepOf
  <2>4. Locks(r) = Locks(Top(t))
    BY <2>3 DEF Locks
  <2>5. stack' = [stack EXCEPT ![t] = s]
    BY <1>1, <2>1, <2>3, Zenon DEF Advance, Top
  <2> QED
    BY <1>1, <1>4, <2>3, <2>4, <2>5, InvStep
<1> QED
  BY <1>3, <1>4

LEMMA AppReturnsStep ==
  ASSUME Inv, NEW t \in Threads, AppReturns(t) PROVE Inv'
<1> DEFINE M == Top(t).locked
           r == Rest(Top(t), App, M)
           s == Over(Front(stack[t]), r)
<1>1. App \in Steps(t) /\ Advance(t, App, M) /\ v_' = v_
  BY DEF AppReturns
<1>2. M \in SUBSET Names
  BY <1>1, StackTop DEF Steps, Top, FrameOK, FrameSet, Inv
<1>3. \A N : Legal(App, M, N) => N = M
  BY <1>2, LockLegal, Zenon
<1>4. /\ r.worker = Top(t).worker /\ r.locked = M
      /\ [After(Top(t), App) EXCEPT !.locked = M] = r
      /\ StackOK(s) /\ Held(s) = Held(Front(stack[t])) \cup Locks(r)
      /\ HeldBy(t) = Held(Front(stack[t])) \cup Locks(Top(t))
  BY <1>1, <1>3, StepOf
<1>5. Locks(r) = Locks(Top(t))
  BY <1>4 DEF Locks
<1>6. stack' = [stack EXCEPT ![t] = s]
  BY <1>1, <1>4, Zenon DEF Advance, Top
<1> QED
  BY <1>1, <1>4, <1>5, <1>6, InvStep

\* The application is called, and a worker destroyed, with nothing held.
LEMMA NothingHeld ==
  ASSUME Inv, NEW t \in Threads, NEW step \in {App, Enter("io_destroy")}, step \in Steps(t)
  PROVE  HeldBy(t) = {} /\ \A i \in 1..Len(stack[t]) : stack[t][i].locked = {}
<1> DEFINE s == stack[t]
<1>1. Top(t).locked \in SUBSET Names
  BY StackTop DEF Steps, Top, FrameOK, FrameSet, Inv
<1>2. \A N : Legal(step, Top(t).locked, N) => N = Top(t).locked
  <2>1. CASE step = App
    BY <1>1, <2>1, LockLegal, Zenon
  <2>2. CASE step = Enter("io_destroy")
    BY <1>1, <2>2, LockLegal, Zenon
  <2> QED
    BY <2>1, <2>2
<1>3. /\ StackOK(s) /\ s # << >>
      /\ Legal(step, Top(t).locked, Top(t).locked)
      /\ \/ \A i \in 1..Len(Front(s)) : Front(s)[i].locked = {}
         \/ step \in ZoneMoves
      /\ HeldBy(t) = Held(Front(s)) \cup Locks(Top(t))
  BY <1>2, StepOf
<1>4. Top(t).locked = {}
  <2>1. "io_destroy" \notin Zone
    BY DEF Zone
  <2> QED
    <3>1. \A L, M : /\ Legal(App, L, M) => L = {}
                    /\ Legal(Enter("io_destroy"), L, M) => L = {} \/ "io_destroy" \in Zone
      BY LegalIs
    <3> QED
      BY <1>3, <2>1, <3>1, Zenon
<1>5. \A i \in 1..Len(Front(s)) : Front(s)[i].locked = {}
  BY <1>3, MovesAre
<1>6. /\ Front(s) \in Seq(FrameSet) /\ Len(s) \in Nat \ {0} /\ Len(Front(s)) = Len(s) - 1
      /\ \A i \in 1..(Len(s) - 1) : Front(s)[i] = s[i]
      /\ Top(t) = s[Len(s)]
  BY <1>3, StackSplit DEF StackOK, Top
<1>7. HeldBy(t) = {}
  BY <1>3, <1>4, <1>5, <1>6, HeldNothing DEF Locks
<1> HIDE DEF s
<1>8. \A i \in 1..Len(s) : s[i].locked = {}
  BY <1>4, <1>5, <1>6
<1> QED
  BY <1>7, <1>8 DEF s

LEMMA EmptyStack == StackOK(<< >>) /\ Held(<< >>) = {}
<1>1. << >> \in Seq(FrameSet) /\ Len(<< >>) = 0
  BY EmptySeq
<1>2. StackOK(<< >>)
  BY <1>1 DEF StackOK
<1>3. ToSet(<< >>) = {}
  BY <1>1 DEF ToSet
<1>4. Held(<< >>) = {}
  BY <1>3 DEF Held
<1> QED
  BY <1>2, <1>4

LEMMA CallsStep ==
  ASSUME Inv, NEW t \in Threads, Calls(t) PROVE Inv'
<1> DEFINE s == stack[t]
           b == Front(s)
<1>1. PICK f \in Does(t, "call") :
        stack' = [stack EXCEPT ![t] =
                    Append(Over(b, After(Top(t), Enter(f))), Frame(Top(t).worker, f))]
  BY Zenon DEF Calls, Top
<1>2. v_' = v_
  BY DEF Calls
<1> DEFINE L == Top(t).locked
           r == Rest(Top(t), Enter(f), L)
           o == Over(b, r)
           n == Append(o, Frame(Top(t).worker, f))
<1>3. Enter(f) \in Steps(t)
  BY DoesIs DEF Enter
<1>4. L \in SUBSET Names
  BY <1>3, StackTop DEF Steps, Top, FrameOK, FrameSet, Inv
<1>5. \A N : Legal(Enter(f), L, N) => N = L
  BY <1>4, LockLegal, Zenon
<1>6. /\ StackOK(s) /\ s # << >>
      /\ Legal(Enter(f), L, L)
      /\ \A i \in 1..Len(b) : b[i].locked = {}
  <2> DEFINE M == L
  <2>1. \A N : Legal(Enter(f), L, N) => N = M
    BY <1>5, Zenon
  <2> HIDE DEF M
  <2>2. /\ StackOK(s) /\ s # << >>
        /\ Legal(Enter(f), L, M)
        /\ \/ \A i \in 1..Len(b) : b[i].locked = {}
           \/ Enter(f) \in ZoneMoves
    BY <1>3, <2>1, StepOf
  <2>3. /\ StackOK(s) /\ s # << >>
        /\ Legal(Enter(f), L, L)
        /\ \/ \A i \in 1..Len(b) : b[i].locked = {}
           \/ Enter(f) \in ZoneMoves
    BY <2>2, Zenon DEF M
  <2>4. Enter(f) \notin ZoneMoves
    BY MovesAre
  <2> QED
    BY <2>3, <2>4, Zenon
<1>7. /\ FrameOK(r) /\ r.worker = Top(t).worker /\ r.locked = L
      /\ After(Top(t), Enter(f)) = r
  BY <1>3, <1>5, StepOf
<1>8. StackOK(o) /\ Held(o) = Held(b) \cup Locks(r) /\ HeldBy(t) = Held(b) \cup Locks(Top(t))
  BY <1>3, <1>5, StepOf
<1>9. f \in DOMAIN Ways /\ (L = {} \/ (L \subseteq {"lock"} /\ f \in Zone))
  <2>1. \A K, M : Legal(Enter(f), K, M)
                    => f \in DOMAIN Ways /\ (K = {} \/ (K \subseteq {"lock"} /\ f \in Zone))
    BY LegalIs
  <2> QED
    BY <1>6, <2>1, Zenon
<1>10. Top(t).worker \in Workers
  BY <1>7 DEF FrameOK, FrameSet
<1>11. b \in Seq(FrameSet) /\ r \in FrameSet
  BY <1>6, <1>7, StackTop DEF StackOK, FrameOK
<1> HIDE DEF s, b, r, L
<1>12. /\ \A i \in 1..(Len(o) - 1) : o[i].locked = {}
       /\ o # << >> => (Last(o).locked = {} \/ (Last(o).locked \subseteq {"lock"} /\ f \in Zone))
  <2>1. CASE r.ways = {<< >>}
    <3>1. o = b
      BY <2>1 DEF Over
    <3>2. b # << >> => Len(b) \in Nat \ {0} /\ Last(b) = b[Len(b)]
      BY <1>11, EmptySeq DEF Last
    <3> QED
      BY <1>6, <3>1, <3>2
  <2>2. CASE r.ways # {<< >>}
    <3>1. o = Append(b, r)
      BY <2>2 DEF Over
    <3>2. /\ Len(o) = Len(b) + 1 /\ Len(b) \in Nat
          /\ \A i \in 1..Len(b) : o[i] = b[i]
          /\ o[Len(b) + 1] = r
      BY <1>11, <3>1, HeldAppend
    <3>3. Last(o) = r
      BY <3>2 DEF Last
    <3> QED
      BY <1>6, <1>7, <1>9, <3>2, <3>3
  <2> QED
    BY <2>1, <2>2
<1> HIDE DEF o
<1>13. StackOK(n) /\ Held(n) = Held(o)
  BY <1>8, <1>9, <1>10, <1>12, StackPush
<1>14. Locks(r) = Locks(Top(t))
  BY <1>7 DEF Locks, L
<1>15. stack' = [stack EXCEPT ![t] = n]
  BY <1>1, <1>7, Zenon DEF o
<1> QED
  BY <1>2, <1>8, <1>13, <1>14, <1>15, InvStep

LEMMA ReturnsStep ==
  ASSUME Inv, NEW t \in Threads, Returns(t) PROVE Inv'
<1> DEFINE s == stack[t]
<1>1. /\ s # << >> /\ << >> \in Last(s).ways
      /\ stack' = [stack EXCEPT ![t] = Front(s)] /\ v_' = v_
  BY DEF Returns, Top
<1>2. StackOK(s) /\ HeldBy(t) = Held(s)
  BY DEF Inv, HeldBy, Held, Locks
<1>3. StackOK(Front(s)) /\ FrameOK(Last(s)) /\ Held(s) = Held(Front(s)) \cup Locks(Last(s))
  BY <1>1, <1>2, StackTop
<1>4. Path(<< >>, Last(s).locked, {})
  BY <1>1, <1>3 DEF FrameOK, From
<1>5. Last(s).locked = {}
  BY <1>4, PathDone
<1>6. Held(Front(s)) = HeldBy(t)
  BY <1>2, <1>3, <1>5 DEF Locks
<1> QED
  BY <1>1, <1>3, <1>6, InvStep

LEMMA AppCallsStep ==
  ASSUME Inv, NEW t \in Threads, AppCalls(t) PROVE Inv'
<1> DEFINE s == stack[t]
<1>1. App \in Steps(t) /\ v_' = v_
  BY DEF AppCalls
<1>2. PICK f \in Api, w \in Workers : stack' = [stack EXCEPT ![t] = Append(s, Frame(w, f))]
  BY DEF AppCalls
<1>3. StackOK(s) /\ HeldBy(t) = Held(s)
  BY DEF Inv, HeldBy, Held, Locks
<1>4. \A i \in 1..Len(s) : s[i].locked = {}
  BY <1>1, NothingHeld
<1>5. s # << >> => Len(s) \in Nat \ {0} /\ Last(s) = s[Len(s)]
  BY <1>3, EmptySeq DEF StackOK, Last
<1>6. Len(s) \in Nat
  BY <1>3 DEF StackOK
<1>7. f \in DOMAIN Ways
  BY WaysDomain DEF Api
<1> HIDE DEF s
<1>8. StackOK(Append(s, Frame(w, f))) /\ Held(Append(s, Frame(w, f))) = Held(s)
  BY <1>3, <1>4, <1>5, <1>6, <1>7, StackPush
<1> QED
  BY <1>1, <1>2, <1>3, <1>8, InvStep

LEMMA BeginStep ==
  ASSUME Inv, NEW t \in Threads, Begin(t) PROVE Inv'
<1>1. stack[t] = << >> /\ v_' = v_
  BY DEF Begin
<1>2. PICK f \in Roots, w \in Workers : stack' = [stack EXCEPT ![t] = <<Frame(w, f)>>]
  BY DEF Begin
<1>3. HeldBy(t) = {}
  BY <1>1, EmptyStack DEF HeldBy, Held, Locks
<1>4. f \in DOMAIN Ways
  BY WaysDomain DEF Roots, Api
<1> DEFINE n == Append(<< >>, Frame(w, f))
<1>5. StackOK(n) /\ Held(n) = {}
  <2> DEFINE e == << >>
  <2>1. StackOK(e) /\ Held(e) = {} /\ e = << >> /\ \A i \in 1..(Len(e) - 1) : e[i].locked = {}
    BY EmptyStack
  <2> HIDE DEF e
  <2>2. StackOK(Append(e, Frame(w, f))) /\ Held(Append(e, Frame(w, f))) = Held(e)
    BY <1>4, <2>1, StackPush
  <2> QED
    BY <2>1, <2>2, Zenon
<1>6. n = <<Frame(w, f)>>
  OBVIOUS
<1> QED
  BY <1>1, <1>2, <1>3, <1>5, <1>6, InvStep

-----------------------------------------------------------------------------
(* What follows for every execution.                                       *)

LEMMA InvInit == Init => Inv
<1>1. SUFFICES ASSUME Init PROVE Inv
  OBVIOUS
<1>2. stack = [t \in Threads |-> << >>] /\ v_ = {}
  BY <1>1, Zenon DEF Init
<1>3. stack \in [Threads -> Seq(FrameSet)]
  BY <1>2, EmptySeq
<1>4. \A t \in Threads : StackOK(stack[t]) /\ HeldBy(t) = {}
  BY <1>2, EmptyStack DEF HeldBy, Held, Locks
<1> QED
  BY <1>2, <1>3, <1>4 DEF Inv, MutualExclusion

LEMMA InvNext == Inv /\ [Next]_vars => Inv'
<1>1. SUFFICES ASSUME Inv, [Next]_vars PROVE Inv'
  OBVIOUS
<1>2. CASE UNCHANGED vars
  <2>1. v_' = v_ /\ stack' = stack
    BY <1>2 DEF vars
  <2>2. \A t \in Threads : StackOK(stack'[t])
    BY <1>1, <2>1 DEF Inv
  <2>3. MutualExclusion'
    BY <1>1, <2>1 DEF Inv, MutualExclusion, HeldBy
  <2> QED
    BY <1>1, <2>1, <2>2, <2>3 DEF Inv
<1>3. ASSUME NEW t \in Threads, Begin(t) PROVE Inv'
  BY <1>1, <1>3, BeginStep
<1>4. ASSUME NEW t \in Threads, Calls(t) PROVE Inv'
  BY <1>1, <1>4, CallsStep
<1>5. ASSUME NEW t \in Threads, Returns(t) PROVE Inv'
  BY <1>1, <1>5, ReturnsStep
<1>6. ASSUME NEW t \in Threads, AppCalls(t) PROVE Inv'
  BY <1>1, <1>6, AppCallsStep
<1>7. ASSUME NEW t \in Threads, AppReturns(t) PROVE Inv'
  BY <1>1, <1>7, AppReturnsStep
<1>8. ASSUME NEW t \in Threads, ScopedLock(t) PROVE Inv'
  BY <1>1, <1>8, ScopedLockStep
<1>9. ASSUME NEW t \in Threads, ScopedRelease(t) PROVE Inv'
  BY <1>1, <1>9, ScopedReleaseStep
<1>10. ASSUME NEW t \in Threads, ScopedEnd(t) PROVE Inv'
  BY <1>1, <1>10, ScopedEndStep
<1> QED
  BY <1>1, <1>2, <1>3, <1>4, <1>5, <1>6, <1>7, <1>8, <1>9, <1>10 DEF Next

\* The stacks are always legal, and no spinlock is held twice.
THEOREM LockInvariance == Spec => []Inv
BY InvInit, InvNext, PTL DEF Spec

\* A spinlock is taken exactly while one thread is in a section of it, for any
\* threads, workers and callbacks inside callbacks: no unlock frees it for
\* somebody else.
THEOREM SpinlocksExclude == Spec => []MutualExclusion
<1>1. Inv => MutualExclusion
  BY DEF Inv
<1> QED
  BY <1>1, LockInvariance, PTL

\* The application is called, and a worker destroyed, with no spinlock held.
THEOREM ApplicationRunsUnlocked == Spec => []OutsideUnlocked
<1>1. Inv => OutsideUnlocked
  BY NothingHeld DEF OutsideUnlocked
<1> QED
  BY <1>1, LockInvariance, PTL

\* The rank of a spinlock, by whichever name it is locked.
LockRank(m) ==
  IF m[1] = "client" THEN 0 ELSE IF m[1] = "mutex" THEN 1 ELSE Rank(m[2])

LEMMA LockRankIs ==
  ASSUME NEW w, NEW x \in Names
  PROVE  LockRank(Mutex(w, x)) = Rank(x) /\ Rank(x) \in 0..4
BY DEF LockRank, Mutex, Rank, Names

\* A thread waits only for a spinlock above all those it holds.
LEMMA WaitsUpwards ==
  ASSUME Inv, NEW t \in Threads, NEW x \in Does(t, "lock")
  PROVE  x \in Names /\ \A m \in HeldBy(t) : LockRank(m) < Rank(x)
<1> DEFINE L == Top(t).locked
           b == Front(stack[t])
<1>1. Lock(x) \in Steps(t)
  BY DoesIs DEF Lock
<1>2. L \in SUBSET Names
  BY <1>1, StackTop DEF Steps, Top, FrameOK, FrameSet, Inv
<1> DEFINE M == L \cup {x}
<1>3. \A N : Legal(Lock(x), L, N) => N = M
  BY <1>2, LockLegal, Zenon
<1> HIDE DEF M
<1>4. /\ StackOK(stack[t]) /\ stack[t] # << >>
      /\ Legal(Lock(x), L, M)
      /\ \/ \A i \in 1..Len(b) : b[i].locked = {}
         \/ Lock(x) \in ZoneMoves /\ Held(b) \subseteq Mutexes
      /\ HeldBy(t) = Held(b) \cup Locks(Top(t))
  BY <1>1, <1>3, StepOf
<1>5. x \in Names /\ \A y \in L : Rank(y) < Rank(x)
  <2>1. \A K, N : Legal(Lock(x), K, N) => x \in Names /\ \A y \in K : Rank(y) < Rank(x)
    BY LegalIs
  <2> QED
    BY <1>4, <2>1, Zenon
<1>6. ASSUME NEW m \in Locks(Top(t)) PROVE LockRank(m) < Rank(x)
  <2>1. PICK y \in L : m = Mutex(Top(t).worker, y)
    BY <1>6 DEF Locks
  <2>2. y \in Names /\ LockRank(m) = Rank(y)
    BY <1>2, <2>1, LockRankIs
  <2> QED
    BY <1>5, <2>1, <2>2
<1>7. ASSUME NEW m \in Held(b) PROVE LockRank(m) < Rank(x)
  <2>1. b \in Seq(FrameSet)
    BY <1>4, StackTop DEF StackOK
  <2>2. Lock(x) \in ZoneMoves /\ Held(b) \subseteq Mutexes
    BY <1>4, <1>7, <2>1, HeldNothing
  <2>3. x \in {"zone", "blocks"}
    BY <1>5, <2>2, MovesAre
  <2>4. m \in Mutexes
    BY <1>7, <2>2
  <2>5. LockRank(m) = 1
    BY <2>4 DEF Mutexes, LockRank
  <2> QED
    BY <2>3, <2>5 DEF Rank
<1> QED
  BY <1>4, <1>5, <1>6, <1>7

\* No threads wait for one another, whatever locks they wait for: along a cycle
\* the ranks of these would ascend for ever, and there are five.
THEOREM NobodyWaitsInACycle == Spec => []NoWaitCycle
<1>1. ASSUME Inv, NEW S \in (SUBSET Threads) \ {{}}, \A t \in S : \E u \in S : WaitsFor(t, u)
      PROVE  FALSE
  <2> DEFINE Waiting(n) == \E t \in S : \E x \in Does(t, "lock") :
                             /\ n <= Rank(x)
                             /\ \E u \in S : Mutex(Top(t).worker, x) \in HeldBy(u)
  <2>1. \A t \in S : t \in Threads
    OBVIOUS
  <2>2. \A t \in S : \E x \in Does(t, "lock") : \E u \in S : Mutex(Top(t).worker, x) \in HeldBy(u)
    BY <1>1 DEF WaitsFor
  <2>3. \A t \in S : \A x \in Does(t, "lock") :
          /\ Rank(x) \in 0..4 /\ LockRank(Mutex(Top(t).worker, x)) = Rank(x)
          /\ \A m \in HeldBy(t) : LockRank(m) < Rank(x)
    BY <1>1, <2>1, WaitsUpwards, LockRankIs
  <2>4. Waiting(0)
    BY <2>2, <2>3
  <2>5. ASSUME NEW n \in 0..4, Waiting(n) PROVE Waiting(n + 1)
    <3>1. PICK t \in S : \E x \in Does(t, "lock") :
                           /\ n <= Rank(x)
                           /\ \E u \in S : Mutex(Top(t).worker, x) \in HeldBy(u)
      BY <2>5
    <3>2. PICK x \in Does(t, "lock"), u \in S :
            n <= Rank(x) /\ Mutex(Top(t).worker, x) \in HeldBy(u)
      BY <3>1
    <3>3. PICK y \in Does(u, "lock") : \E z \in S : Mutex(Top(u).worker, y) \in HeldBy(z)
      BY <2>2
    <3>4. n + 1 <= Rank(y)
      BY <2>3, <3>2, <3>3
    <3> QED
      BY <3>3, <3>4
  <2> HIDE DEF Waiting
  <2>6. Waiting(1)
    BY <2>4, <2>5
  <2>7. Waiting(2)
    BY <2>5, <2>6
  <2>8. Waiting(3)
    BY <2>5, <2>7
  <2>9. Waiting(4)
    BY <2>5, <2>8
  <2>10. Waiting(5)
    BY <2>5, <2>9
  <2> QED
    BY <2>3, <2>10 DEF Waiting
<1>2. Inv => NoWaitCycle
  BY <1>1 DEF NoWaitCycle
<1> QED
  BY <1>2, LockInvariance, PTL
=============================================================================
