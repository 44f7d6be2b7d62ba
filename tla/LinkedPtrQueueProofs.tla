------------------------ MODULE LinkedPtrQueueProofs ------------------------
(***************************************************************************)
(* Proofs about LinkedPtrQueue, for any memory of nodes: linked_ptr_queue  *)
(* is a queue.  As long as a node is entered only once, add_tail,          *)
(* remove_head and add_tail of a chain do to the nodes that the pointers   *)
(* lead to what Append, Tail and \o do to a sequence, whatever pointers    *)
(* are left in the nodes outside.                                          *)
(***************************************************************************)
EXTENDS LinkedPtrQueue, SequenceTheorems, WellFoundedInduction, TLAPS

\* A set of natural numbers has a least one: induction, for the provers here.
LEMMA LeastNumber ==
  ASSUME NEW T \in SUBSET Nat, T # {}
  PROVE  \E n \in T : \A m \in T : n <= m
<1> DEFINE R == {ss \in Nat \X Nat : ss[1] < ss[2]}
<1>1. IsWellFoundedOn(R, Nat)
  BY NatLessThanWellFounded DEF OpToRel
<1> HIDE DEF R
<1>2. PICK n \in T : \A m \in T : <<m, n>> \notin R
  BY <1>1, WFMin
<1>3. ASSUME NEW m \in T, m < n PROVE <<m, n>> \in R
  BY <1>3 DEF R
<1>4. ASSUME NEW m \in T PROVE n <= m
  <2>1. ~ (m < n)
    BY <1>2, <1>3
  <2> QED
    BY <2>1
<1> QED
  BY <1>4

-----------------------------------------------------------------------------
(* What a queue holds.                                                     *)

\* The memory and the pointers of a queue over the nodes N.
QueueOver(q, N) ==
  /\ NULL \notin N
  /\ q \in [head : N \cup {NULL}, tail : N \cup {NULL}, next : [N -> N \cup {NULL}]]

\* The pointers lead from head to tail over the nodes w, each once.
Holds(q, w, N) ==
  /\ QueueOver(q, N) /\ w \in Seq(N)
  /\ \A i, j \in 1..Len(w) : w[i] = w[j] => i = j
  /\ q.head = IF w = << >> THEN NULL ELSE w[1]
  /\ q.tail = IF w = << >> THEN NULL ELSE w[Len(w)]
  /\ \A i \in 1..Len(w) : q.next[w[i]] = IF i = Len(w) THEN NULL ELSE w[i + 1]

LEMMA HoldsNothing ==
  ASSUME NEW q, NEW w, NEW N, Holds(q, w, N)
  PROVE  q.head = NULL <=> w = << >>
BY EmptySeq DEF Holds, QueueOver

\* Following the pointers gives what the queue holds.
LEMMA ChainIs ==
  ASSUME NEW q, NEW w, NEW N, Holds(q, w, N), NEW max \in Nat, Len(w) <= max
  PROVE  Chain(q, max) = w
<1> DEFINE Step(f, k) == IF k = 0 THEN q.head
                         ELSE IF f[k - 1] = NULL THEN NULL ELSE q.next[f[k - 1]]
           g == [k \in 0..max |-> IF k < Len(w) THEN w[k + 1] ELSE NULL]
           h == CHOOSE f : f = [k \in 0..max |-> Step(f, k)]
           First(n, f) == (n = max \/ f[n] = NULL) /\ \A k \in 0..(n - 1) : f[k] # NULL
           len == CHOOSE n \in 0..max : First(n, h)
<1>1. Chain(q, max) = [k \in 1..len |-> h[k - 1]]
  BY Zenon DEF Chain
<1>2. w \in Seq(N) /\ Len(w) \in Nat /\ \A i \in 1..Len(w) : w[i] \in N /\ w[i] # NULL
  BY DEF Holds, QueueOver
<1>3. ASSUME NEW k \in 0..max PROVE g[k] = Step(g, k)
  <2>1. CASE k = 0
    BY <1>2, <2>1, EmptySeq DEF Holds
  <2>2. CASE k # 0 /\ k - 1 < Len(w)
    <3>1. g[k - 1] = w[k] /\ k \in 1..Len(w) /\ g[k - 1] # NULL
      BY <1>2, <2>2
    <3>2. q.next[w[k]] = IF k = Len(w) THEN NULL ELSE w[k + 1]
      BY <3>1 DEF Holds
    <3> QED
      BY <1>2, <2>2, <3>1, <3>2
  <2>3. CASE k # 0 /\ ~(k - 1 < Len(w))
    BY <1>2, <2>3
  <2> QED
    BY <2>1, <2>2, <2>3
<1>4. g = [k \in 0..max |-> Step(g, k)]
  <2> DEFINE s == [k \in 0..max |-> Step(g, k)]
  <2>1. \A k \in 0..max : g[k] = s[k]
    BY <1>3
  <2> HIDE DEF Step
  <2> QED
    BY <2>1
<1>5. h = [k \in 0..max |-> Step(h, k)]
  BY <1>4
<1> HIDE DEF h
<1>6. h = g
  <2> DEFINE T == {k \in 0..max : h[k] # g[k]}
  <2>1. ASSUME T # {} PROVE FALSE
    <3>1. PICK n \in T : \A m \in T : n <= m
      <4>1. T \in SUBSET Nat
        OBVIOUS
      <4> HIDE DEF T
      <4> QED
        BY <2>1, <4>1, LeastNumber
    <3>2. h[n] = Step(h, n) /\ g[n] = Step(g, n)
      BY <1>4, <1>5
    <3>3. CASE n = 0
      BY <3>1, <3>2, <3>3
    <3>4. CASE n # 0
      <4>1. n - 1 \in 0..max /\ n - 1 \notin T
        BY <3>1, <3>4
      <4> QED
        BY <3>1, <3>2, <3>4, <4>1
    <3> QED
      BY <3>3, <3>4
  <2>2. \A k \in 0..max : h[k] = g[k]
    BY <2>1
  <2> QED
    BY <1>5, <2>2
<1>7. \A k \in 0..max : g[k] = NULL <=> k >= Len(w)
  BY <1>2
<1> HIDE DEF g
<1>8. First(Len(w), g) /\ Len(w) \in 0..max
  BY <1>2, <1>7
<1>9. ASSUME NEW n \in 0..max, First(n, g) PROVE n = Len(w)
  <2>1. ~(n < Len(w))
    BY <1>2, <1>7, <1>9
  <2>2. ~(n > Len(w))
    <3>1. \A k \in 0..(n - 1) : k < Len(w)
      BY <1>2, <1>7, <1>9
    <3> QED
      BY <1>2, <3>1
  <2> QED
    BY <1>2, <2>1, <2>2
<1> HIDE DEF First
<1>10. len = Len(w)
  BY <1>6, <1>8, <1>9
<1>11. Chain(q, max) = [k \in 1..Len(w) |-> w[k]]
  <2>1. \A k \in 1..Len(w) : h[k - 1] = w[k]
    BY <1>2, <1>6 DEF g
  <2> QED
    BY <1>1, <1>10, <2>1
<1> QED
  BY <1>2, <1>11

-----------------------------------------------------------------------------
(* The operations.                                                         *)

LEMMA EmptyHolds ==
  ASSUME NEW N, NULL \notin N, NEW next \in [N -> N \cup {NULL}]
  PROVE  Holds(EmptyQueue(next), << >>, N)
BY DEF Holds, QueueOver, EmptyQueue

\* add_tail of a node that is not in the queue.
LEMMA AddTailHolds ==
  ASSUME NEW q, NEW w, NEW N, Holds(q, w, N), NEW n \in N,
         \A i \in 1..Len(w) : w[i] # n
  PROVE  Holds(AddTail(q, n), Append(w, n), N)
<1> DEFINE r == AddTail(q, n)
           v == Append(w, n)
<1>1. /\ w \in Seq(N) /\ Len(w) \in Nat /\ NULL \notin N /\ \A i \in 1..Len(w) : w[i] \in N
      /\ q.next \in [N -> N \cup {NULL}] /\ q.head \in N \cup {NULL} /\ q.tail \in N \cup {NULL}
  BY DEF Holds, QueueOver
<1>2. /\ v \in Seq(N) /\ Len(v) = Len(w) + 1 /\ v # << >>
      /\ \A i \in 1..Len(w) : v[i] = w[i]
      /\ v[Len(w) + 1] = n
  BY <1>1, AppendProperties
<1>3. /\ r.head = IF q.tail = NULL THEN n ELSE q.head
      /\ r.tail = n
      /\ r.next = [m \in N |-> IF m = n THEN NULL ELSE IF m = q.tail THEN n ELSE q.next[m]]
      /\ QueueOver(r, N)
  BY <1>1 DEF AddTail, QueueOver
<1>4. /\ q.tail = NULL <=> w = << >>
      /\ w = << >> <=> Len(w) = 0
      /\ w # << >> => q.tail = w[Len(w)] /\ q.head = w[1]
  BY <1>1, EmptySeq DEF Holds
<1> HIDE DEF r, v
<1>5. \A i, j \in 1..Len(v) : v[i] = v[j] => i = j
  <2>1. \A i, j \in 1..Len(w) : w[i] = w[j] => i = j
    BY DEF Holds
  <2>2. \A i \in 1..Len(v) : i \in 1..Len(w) \/ i = Len(w) + 1
    BY <1>1, <1>2
  <2> QED
    BY <1>2, <2>1, <2>2
<1>6. r.head = v[1] /\ r.tail = v[Len(v)]
  <2>1. CASE w = << >>
    BY <1>2, <1>3, <1>4, <2>1
  <2>2. CASE w # << >>
    <3>1. 1 \in 1..Len(w) /\ q.tail # NULL /\ q.head = w[1]
      BY <1>1, <1>4, <2>2
    <3> QED
      BY <1>2, <1>3, <3>1
  <2> QED
    BY <2>1, <2>2
<1>7. ASSUME NEW i \in 1..Len(v)
      PROVE  r.next[v[i]] = IF i = Len(v) THEN NULL ELSE v[i + 1]
  <2>1. CASE i = Len(w) + 1
    BY <1>1, <1>2, <1>3, <2>1
  <2>2. CASE i = Len(w) /\ i # Len(w) + 1
    <3>1. i \in 1..Len(w) /\ v[i] = w[i] /\ w[i] # n /\ q.tail = w[i]
      BY <1>1, <1>2, <1>4, <2>2
    <3>2. r.next[v[i]] = n
      BY <1>1, <1>3, <3>1
    <3> QED
      BY <1>1, <1>2, <2>2, <3>2
  <2>3. CASE i # Len(w) /\ i # Len(w) + 1
    <3>1. i \in 1..Len(w) /\ i + 1 \in 1..Len(w)
      BY <1>1, <1>2, <2>3
    <3>2. w[i] # n /\ q.tail # w[i] /\ w[i] \in N
      <4>1. Len(w) \in 1..Len(w) /\ w # << >>
        BY <1>1, <1>4, <3>1
      <4> QED
        BY <1>1, <1>4, <2>3, <3>1, <4>1 DEF Holds
    <3>3. r.next[v[i]] = q.next[w[i]]
      BY <1>2, <1>3, <3>1, <3>2
    <3>4. q.next[w[i]] = w[i + 1]
      BY <2>3, <3>1 DEF Holds
    <3>5. v[i + 1] = w[i + 1] /\ i # Len(v)
      BY <1>2, <2>3, <3>1
    <3> QED
      BY <3>3, <3>4, <3>5
  <2> QED
    BY <2>1, <2>2, <2>3
<1>8. Holds(r, v, N)
  BY <1>2, <1>3, <1>5, <1>6, <1>7 DEF Holds
<1> QED
  BY <1>8 DEF r, v

\* remove_head of a queue that is not empty.
LEMMA RemoveHeadHolds ==
  ASSUME NEW q, NEW w, NEW N, Holds(q, w, N), w # << >>
  PROVE  Holds(RemoveHead(q), Tail(w), N) /\ q.head = Head(w)
<1> DEFINE r == RemoveHead(q)
           v == Tail(w)
<1>1. /\ w \in Seq(N) /\ Len(w) \in Nat \ {0} /\ NULL \notin N /\ \A i \in 1..Len(w) : w[i] \in N
      /\ q \in [head : N \cup {NULL}, tail : N \cup {NULL}, next : [N -> N \cup {NULL}]]
      /\ q.head = w[1] /\ q.tail = w[Len(w)]
  BY EmptySeq DEF Holds, QueueOver
<1>2. /\ v \in Seq(N) /\ Len(v) = Len(w) - 1 /\ Head(w) = w[1]
      /\ \A i \in 1..Len(v) : v[i] = w[i + 1]
  BY <1>1, HeadTailProperties
<1>3. q.next[w[1]] = IF Len(w) = 1 THEN NULL ELSE w[2]
  <2>1. 1 \in 1..Len(w) /\ 1 + 1 = 2
    BY <1>1
  <2>2. q.next[w[1]] = IF 1 = Len(w) THEN NULL ELSE w[1 + 1]
    BY <2>1, Zenon DEF Holds
  <2> QED
    BY <2>1, <2>2
<1>4. /\ r.head = q.next[w[1]]
      /\ r.tail = IF q.next[w[1]] = NULL THEN NULL ELSE q.tail
      /\ r.next = q.next
      /\ QueueOver(r, N)
  <2>1. w[1] \in N /\ q.next[w[1]] \in N \cup {NULL}
    BY <1>1
  <2> QED
    BY <1>1, <2>1 DEF RemoveHead, QueueOver
<1> HIDE DEF r, v
<1>5. v = << >> <=> Len(w) = 1
  <2>1. v = << >> => Len(v) = 0
    OBVIOUS
  <2>2. v # << >> => Len(v) \in Nat \ {0}
    BY <1>2, EmptySeq
  <2> QED
    BY <1>1, <1>2, <2>1, <2>2
<1>6. \A i, j \in 1..Len(v) : v[i] = v[j] => i = j
  <2>1. \A i, j \in 1..Len(w) : w[i] = w[j] => i = j
    BY DEF Holds
  <2> QED
    BY <1>1, <1>2, <2>1
<1>7. /\ r.head = IF v = << >> THEN NULL ELSE v[1]
      /\ r.tail = IF v = << >> THEN NULL ELSE v[Len(v)]
  <2>1. CASE Len(w) = 1
    BY <1>3, <1>4, <1>5, <2>1
  <2>2. CASE Len(w) # 1
    <3>1. v[1] = w[2] /\ v[Len(v)] = w[Len(w)] /\ 2 \in 1..Len(w)
      BY <1>1, <1>2, <2>2
    <3> QED
      BY <1>1, <1>3, <1>4, <1>5, <2>2, <3>1
  <2> QED
    BY <2>1, <2>2
<1>8. ASSUME NEW i \in 1..Len(v)
      PROVE  r.next[v[i]] = IF i = Len(v) THEN NULL ELSE v[i + 1]
  <2>1. i + 1 \in 1..Len(w) /\ v[i] = w[i + 1]
    BY <1>1, <1>2
  <2>2. q.next[w[i + 1]] = IF i + 1 = Len(w) THEN NULL ELSE w[(i + 1) + 1]
    BY <2>1 DEF Holds
  <2>3. i # Len(v) => v[i + 1] = w[(i + 1) + 1]
    BY <1>1, <1>2
  <2> QED
    BY <1>1, <1>2, <1>4, <2>1, <2>2, <2>3
<1>9. Holds(r, v, N)
  BY <1>2, <1>4, <1>6, <1>7, <1>8 DEF Holds
<1> QED
  BY <1>1, <1>2, <1>9 DEF r, v

\* add_tail of a chain of nodes that are not in the queue.
LEMMA AddQueueHolds ==
  ASSUME NEW q, NEW w, NEW v, NEW N, Holds(q, w, N),
         v \in Seq(N), v # << >>,
         \A i, j \in 1..Len(v) : v[i] = v[j] => i = j,
         \A i \in 1..Len(w), j \in 1..Len(v) : w[i] # v[j],
         \A i \in 1..Len(v) : q.next[v[i]] = IF i = Len(v) THEN NULL ELSE v[i + 1]
  PROVE  Holds(AddQueue(q, v[1], v[Len(v)]), w \o v, N)
<1> DEFINE r == AddQueue(q, v[1], v[Len(v)])
           u == w \o v
<1>1. /\ w \in Seq(N) /\ Len(w) \in Nat /\ NULL \notin N /\ \A i \in 1..Len(w) : w[i] \in N
      /\ Len(v) \in Nat \ {0} /\ \A i \in 1..Len(v) : v[i] \in N
      /\ q.next \in [N -> N \cup {NULL}] /\ q.head \in N \cup {NULL} /\ q.tail \in N \cup {NULL}
  BY EmptySeq DEF Holds, QueueOver
<1>2. /\ u \in Seq(N) /\ Len(u) = Len(w) + Len(v)
      /\ \A i \in 1..Len(u) : u[i] = IF i <= Len(w) THEN w[i] ELSE v[i - Len(w)]
  BY <1>1, ConcatProperties
<1>3. v[1] \in N /\ v[Len(v)] \in N
  BY <1>1
<1>4. /\ r.head = IF q.tail = NULL THEN v[1] ELSE q.head
      /\ r.tail = v[Len(v)]
      /\ r.next = [m \in N |-> IF m = q.tail THEN v[1] ELSE q.next[m]]
      /\ QueueOver(r, N)
  BY <1>1, <1>3 DEF AddQueue, QueueOver
<1>5. /\ q.tail = NULL <=> w = << >>
      /\ w = << >> <=> Len(w) = 0
      /\ w # << >> => q.tail = w[Len(w)] /\ q.head = w[1]
  BY <1>1, EmptySeq DEF Holds
<1>6. /\ \A i, j \in 1..Len(w) : w[i] = w[j] => i = j
      /\ \A i \in 1..Len(w) : q.next[w[i]] = IF i = Len(w) THEN NULL ELSE w[i + 1]
  BY DEF Holds
<1> HIDE DEF r, u
<1>7. ASSUME NEW i \in 1..Len(u), NEW j \in 1..Len(u), u[i] = u[j] PROVE i = j
  <2>1. CASE i <= Len(w) /\ j <= Len(w)
    BY <1>1, <1>2, <1>6, <1>7, <2>1
  <2>2. CASE i <= Len(w) /\ ~(j <= Len(w))
    <3>1. i \in 1..Len(w) /\ j - Len(w) \in 1..Len(v) /\ u[i] = w[i] /\ u[j] = v[j - Len(w)]
      BY <1>1, <1>2, <2>2
    <3> QED
      BY <1>7, <3>1
  <2>3. CASE ~(i <= Len(w)) /\ j <= Len(w)
    <3>1. j \in 1..Len(w) /\ i - Len(w) \in 1..Len(v) /\ u[j] = w[j] /\ u[i] = v[i - Len(w)]
      BY <1>1, <1>2, <2>3
    <3> QED
      BY <1>7, <3>1
  <2>4. CASE ~(i <= Len(w)) /\ ~(j <= Len(w))
    <3>1. /\ i - Len(w) \in 1..Len(v) /\ j - Len(w) \in 1..Len(v)
          /\ u[i] = v[i - Len(w)] /\ u[j] = v[j - Len(w)]
      BY <1>1, <1>2, <2>4
    <3>2. i - Len(w) = j - Len(w)
      BY <1>7, <3>1
    <3> QED
      BY <1>1, <1>2, <3>2
  <2> QED
    BY <2>1, <2>2, <2>3, <2>4
<1>8. u # << >> /\ r.head = u[1] /\ r.tail = u[Len(u)]
  <2>1. Len(u) \in Nat \ {0} /\ u[Len(u)] = v[Len(v)]
    BY <1>1, <1>2
  <2>2. CASE w = << >>
    BY <1>1, <1>2, <1>4, <1>5, <2>1, <2>2
  <2>3. CASE w # << >>
    BY <1>1, <1>2, <1>4, <1>5, <2>1, <2>3
  <2> QED
    BY <2>2, <2>3
<1>9. ASSUME NEW i \in 1..Len(u)
      PROVE  r.next[u[i]] = IF i = Len(u) THEN NULL ELSE u[i + 1]
  <2>1. CASE i < Len(w)
    <3>1. /\ i \in 1..Len(w) /\ i + 1 \in 1..Len(w) /\ Len(w) \in 1..Len(w) /\ w # << >>
          /\ u[i] = w[i] /\ u[i + 1] = w[i + 1] /\ i # Len(u)
      BY <1>1, <1>2, <1>5, <2>1
    <3>2. w[i] # q.tail /\ w[i] \in N
      BY <1>1, <1>5, <1>6, <2>1, <3>1
    <3> QED
      BY <1>4, <1>6, <2>1, <3>1, <3>2
  <2>2. CASE i = Len(w)
    <3>1. u[i] = w[i] /\ w[i] \in N /\ q.tail = w[i] /\ u[i + 1] = v[1] /\ i # Len(u)
      BY <1>1, <1>2, <1>5, <2>2
    <3> QED
      BY <1>4, <3>1
  <2>3. CASE i > Len(w)
    <3> DEFINE k == i - Len(w)
    <3>1. k \in 1..Len(v) /\ u[i] = v[k] /\ (i = Len(u) <=> k = Len(v))
      BY <1>1, <1>2, <2>3
    <3>2. i # Len(u) => u[i + 1] = v[k + 1]
      <4>1. SUFFICES ASSUME i # Len(u) PROVE u[i + 1] = v[k + 1]
        OBVIOUS
      <4>2. i + 1 \in 1..Len(u) /\ (i + 1) - Len(w) = k + 1 /\ ~(i + 1 <= Len(w))
        BY <1>1, <1>2, <2>3, <4>1
      <4>3. u[i + 1] = v[(i + 1) - Len(w)]
        BY <1>2, <4>2
      <4> QED
        BY <4>2, <4>3, Zenon
    <3>3. v[k] # q.tail
      <4>1. w # << >> => Len(w) \in 1..Len(w)
        BY <1>1, <1>5
      <4> QED
        BY <1>1, <1>5, <3>1, <4>1
    <3>4. r.next[v[k]] = q.next[v[k]] /\ q.next[v[k]] = IF k = Len(v) THEN NULL ELSE v[k + 1]
      BY <1>1, <1>4, <3>1, <3>3
    <3> QED
      BY <3>1, <3>2, <3>4
  <2> QED
    BY <1>1, <1>2, <2>1, <2>2, <2>3
<1>10. Holds(r, u, N)
  BY <1>2, <1>4, <1>7, <1>8, <1>9 DEF Holds
<1> QED
  BY <1>10 DEF r, u
=============================================================================
