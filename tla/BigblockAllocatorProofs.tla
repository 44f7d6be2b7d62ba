----------------------- MODULE BigblockAllocatorProofs -----------------------
(***************************************************************************)
(* Proofs about BigblockAllocator, for caches of any size, any memory and  *)
(* any limit: the chain of free blocks is exact, max_caches is charged, the*)
(* destructor frees each cache once and in order, and the allocator is the *)
(* pool of blocks that BlockPool describes.                                *)
(*                                                                         *)
(* What the pointers lead to is taken from LinkedPtrQueueProofs; here it   *)
(* is related to the blocks that are handed out.                           *)
(***************************************************************************)
EXTENDS BigblockAllocator, LinkedPtrQueueProofs, FiniteSetTheorems

-----------------------------------------------------------------------------
(* The inductive invariant.                                                *)

Waiting == Chain(queue, Memory * CacheSize)

\* The queue holds the blocks of the caches that are not handed out.
QueueInv ==
  /\ Holds(queue, Waiting, Nodes)
  /\ objects \subseteq 1..LastOf(made)
  /\ {Waiting[i] : i \in 1..Len(Waiting)} = (1..LastOf(made)) \ objects
  /\ Len(Waiting) = LastOf(made) - Cardinality(objects)

CountInv ==
  /\ made \in 0..Memory /\ limit \in Limits /\ refused \in Nat
  /\ IF limit >= 0 THEN left \in Nat /\ made + refused + left = limit + 1 ELSE left = -1

\* The caches up to c, in the order in which they were made.
UpTo(c) == [i \in 1..c |-> i]

CacheInv ==
  IF ~destroyed
  THEN Holds(headers, UpTo(made), Caches) /\ freeing = NULL /\ freed = << >>
  ELSE /\ \A c \in 1..made : headers.next[c] = IF c = made THEN NULL ELSE c + 1
       /\ freeing \in 0..made
       /\ freed = UpTo(IF freeing = NULL THEN made ELSE freeing - 1)

IInv == CountInv /\ QueueInv /\ CacheInv

-----------------------------------------------------------------------------
(* Where the blocks of a cache are.                                        *)

Start(m) == m * CacheSize

LEMMA Places ==
  /\ CacheSize \in Nat \ {0} /\ Memory \in Nat
  /\ \A m \in Nat : Start(m) \in Nat /\ LastOf(m) = Start(m)
  /\ \A m \in Nat : First(m + 1) = Start(m) + 1 /\ LastOf(m + 1) = Start(m) + CacheSize
  /\ \A m \in 0..Memory : Start(m) <= Start(Memory)
  /\ Nodes = 1..Start(Memory) /\ NULL \notin Nodes /\ NULL \notin Caches
<1>1. CacheSize \in Nat \ {0} /\ Memory \in Nat
  BY AllocatorAssumption
<1>2. \A m \in Nat : Start(m) \in Nat /\ LastOf(m) = Start(m)
  BY <1>1 DEF Start, LastOf
<1>3. \A m \in Nat : First(m + 1) = Start(m) + 1 /\ LastOf(m + 1) = Start(m) + CacheSize
  BY <1>1 DEF Start, LastOf, First
<1>4. ASSUME NEW m \in 0..Memory PROVE Start(m) <= Start(Memory)
  <2>1. (Memory - m) * CacheSize >= 0
    BY <1>1
  <2>2. (Memory - m) * CacheSize = Memory * CacheSize - m * CacheSize
    BY <1>1
  <2> QED
    BY <1>1, <2>1, <2>2 DEF Start
<1>5. Nodes = 1..Start(Memory) /\ NULL \notin Nodes /\ NULL \notin Caches
  BY <1>1 DEF Nodes, Start, NULL, Caches
<1> QED
  BY <1>1, <1>2, <1>3, <1>4, <1>5

LEMMA Fits ==
  ASSUME NEW m \in 0..Memory
  PROVE  LastOf(m) \in Nat /\ LastOf(m) <= Memory * CacheSize /\ Memory * CacheSize \in Nat
<1>1. m \in Nat /\ Memory \in Nat /\ CacheSize \in Nat
  BY Places
<1>2. LastOf(m) = Start(m) /\ Start(m) \in Nat /\ Start(m) <= Start(Memory)
  BY <1>1, Places
<1> QED
  BY <1>1, <1>2 DEF Start

\* The blocks of the cache that is made after m others.
Blocks(m) == [i \in 1..CacheSize |-> Start(m) + i]

LEMMA BlocksAre ==
  ASSUME NEW m \in 0..(Memory - 1)
  PROVE  /\ Blocks(m) \in Seq(Nodes) /\ Len(Blocks(m)) = CacheSize /\ Blocks(m) # << >>
         /\ \A i \in 1..CacheSize : Blocks(m)[i] = Start(m) + i
         /\ Start(m + 1) = Start(m) + CacheSize /\ Start(m + 1) <= Start(Memory)
         /\ First(m + 1) = Blocks(m)[1] /\ LastOf(m + 1) = Blocks(m)[CacheSize]
<1>1. /\ CacheSize \in Nat \ {0} /\ Memory \in Nat /\ m \in Nat /\ m + 1 \in 0..Memory
      /\ Start(m) \in Nat /\ Start(m + 1) = Start(m) + CacheSize
      /\ Start(m + 1) <= Start(Memory) /\ Start(Memory) \in Nat
      /\ First(m + 1) = Start(m) + 1 /\ LastOf(m + 1) = Start(m) + CacheSize
      /\ Nodes = 1..Start(Memory)
  <2>1. CacheSize \in Nat \ {0} /\ Memory \in Nat /\ m \in Nat /\ m + 1 \in 0..Memory
    BY Places
  <2>2. /\ Start(m) \in Nat /\ LastOf(m + 1) = Start(m + 1)
        /\ First(m + 1) = Start(m) + 1 /\ LastOf(m + 1) = Start(m) + CacheSize
        /\ Start(Memory) \in Nat
    <3>1. /\ \A k \in Nat : Start(k) \in Nat /\ LastOf(k) = Start(k)
          /\ \A k \in Nat : First(k + 1) = Start(k) + 1 /\ LastOf(k + 1) = Start(k) + CacheSize
      BY Places
    <3>2. m + 1 \in Nat
      BY <2>1
    <3> QED
      BY <2>1, <3>1, <3>2, Zenon
  <2>3. Start(m + 1) <= Start(Memory) /\ Nodes = 1..Start(Memory)
    BY <2>1, Places
  <2> QED
    BY <2>1, <2>2, <2>3
<1>2. \A i \in 1..CacheSize : Blocks(m)[i] = Start(m) + i /\ Start(m) + i \in Nodes
  BY <1>1 DEF Blocks
<1>3. Blocks(m) \in [1..CacheSize -> Nodes]
  BY <1>2 DEF Blocks
<1>4. Blocks(m) \in Seq(Nodes) /\ Len(Blocks(m)) = CacheSize
  BY <1>1, <1>3, LenProperties
<1>5. Blocks(m) # << >>
  BY <1>1, <1>4, EmptySeq
<1> QED
  BY <1>1, <1>2, <1>4, <1>5

LEMMA UpToIs ==
  ASSUME NEW m \in 0..Memory
  PROVE  /\ UpTo(m) \in Seq(Caches) /\ Len(UpTo(m)) = m
         /\ \A i \in 1..m : UpTo(m)[i] = i
         /\ m < Memory => Append(UpTo(m), m + 1) = UpTo(m + 1)
         /\ m = 0 <=> UpTo(m) = << >>
<1>1. Memory \in Nat /\ m \in Nat
  BY Places
<1>2. ASSUME NEW k \in 0..Memory
      PROVE  UpTo(k) \in Seq(Caches) /\ Len(UpTo(k)) = k /\ \A i \in 1..k : UpTo(k)[i] = i
  <2>1. UpTo(k) \in [1..k -> Caches]
    BY <1>1 DEF UpTo, Caches
  <2> QED
    BY <1>1, <2>1, LenProperties DEF UpTo
<1>3. ASSUME m < Memory PROVE Append(UpTo(m), m + 1) = UpTo(m + 1)
  <2> DEFINE a == UpTo(m)
             b == UpTo(m + 1)
             c == Append(a, m + 1)
  <2>1. /\ a \in Seq(Caches) /\ Len(a) = m /\ \A i \in 1..m : a[i] = i
        /\ b \in Seq(Caches) /\ Len(b) = m + 1 /\ \A i \in 1..(m + 1) : b[i] = i
        /\ m + 1 \in Caches
    BY <1>1, <1>2, <1>3 DEF Caches
  <2> HIDE DEF a, b
  <2>2. /\ c \in Seq(Caches) /\ Len(c) = m + 1
        /\ \A i \in 1..m : c[i] = a[i]
        /\ c[m + 1] = m + 1
    BY <2>1, AppendProperties
  <2>3. \A i \in 1..Len(c) : c[i] = b[i]
    BY <1>1, <2>1, <2>2
  <2> HIDE DEF c
  <2>4. c = b
    BY <2>1, <2>2, <2>3, SeqEqual
  <2> QED
    BY <2>4 DEF a, b, c
<1>4. m = 0 <=> UpTo(m) = << >>
  <2>1. UpTo(m) = << >> => Len(UpTo(m)) = 0
    BY EmptySeq
  <2>2. UpTo(m) # << >> => Len(UpTo(m)) # 0
    BY <1>2, EmptySeq
  <2> QED
    BY <1>2, <2>1, <2>2
<1> QED
  BY <1>2, <1>3, <1>4

-----------------------------------------------------------------------------
(* create_cache.                                                           *)

LEMMA CreateHolds ==
  ASSUME NEW m \in 0..(Memory - 1), NEW q, Holds(q, << >>, Nodes),
         NEW h, Holds(h, UpTo(m), Caches)
  PROVE  /\ Holds(Create(q, h, m).queue, Blocks(m), Nodes)
         /\ Holds(Create(q, h, m).headers, UpTo(m + 1), Caches)
         /\ Create(q, h, m).made = m + 1
<1> DEFINE v == Blocks(m)
           p == Linked(q, m + 1)
           w == << >>
<1>1. /\ v \in Seq(Nodes) /\ Len(v) = CacheSize /\ v # << >>
      /\ \A i \in 1..CacheSize : v[i] = Start(m) + i
      /\ First(m + 1) = v[1] /\ LastOf(m + 1) = v[CacheSize]
  BY BlocksAre
<1>2. /\ CacheSize \in Nat \ {0} /\ Start(m) \in Nat /\ NULL \notin Nodes
      /\ Start(m) + CacheSize <= Start(Memory) /\ Start(Memory) \in Nat
      /\ Nodes = 1..Start(Memory)
  BY Places, BlocksAre
<1>3. /\ q.head = NULL /\ q.tail = NULL /\ q.next \in [Nodes -> Nodes \cup {NULL}]
      /\ q \in [head : Nodes \cup {NULL}, tail : Nodes \cup {NULL},
                next : [Nodes -> Nodes \cup {NULL}]]
  BY DEF Holds, QueueOver
<1> DEFINE linked == [n \in Nodes |->
             IF n \in First(m + 1)..LastOf(m + 1)
             THEN (IF n = LastOf(m + 1) THEN NULL ELSE n + 1) ELSE q.next[n]]
<1>4. p.head = NULL /\ p.tail = NULL /\ p.next = linked
  BY <1>3 DEF Linked
<1>5. linked \in [Nodes -> Nodes \cup {NULL}]
  BY <1>1, <1>2, <1>3
<1>6. QueueOver(p, Nodes)
  BY <1>2, <1>3, <1>5 DEF Linked, QueueOver
<1> HIDE DEF p, v
<1>7. w = << >> /\ w \in Seq(Nodes) /\ Len(w) = 0
  BY EmptySeq
<1> HIDE DEF w
<1>8. Holds(p, w, Nodes)
  BY <1>4, <1>6, <1>7 DEF Holds
<1>9. \A i \in 1..Len(v) : p.next[v[i]] = IF i = Len(v) THEN NULL ELSE v[i + 1]
  <2>1. ASSUME NEW i \in 1..CacheSize
        PROVE  p.next[v[i]] = IF i = CacheSize THEN NULL ELSE v[i + 1]
    <3>1. v[i] \in Nodes /\ v[i] \in First(m + 1)..LastOf(m + 1)
      BY <1>1, <1>2
    <3>2. linked[v[i]] = IF v[i] = LastOf(m + 1) THEN NULL ELSE v[i] + 1
      BY <3>1
    <3>3. v[i] = LastOf(m + 1) <=> i = CacheSize
      BY <1>1, <1>2
    <3>4. i # CacheSize => v[i + 1] = v[i] + 1
      BY <1>1, <1>2
    <3> QED
      BY <1>4, <3>2, <3>3, <3>4
  <2> QED
    BY <1>1, <2>1
<1>10. \A i, j \in 1..Len(v) : v[i] = v[j] => i = j
  BY <1>1, <1>2
<1>11. Holds(AddQueue(p, v[1], v[Len(v)]), w \o v, Nodes)
  <2>1. v \in Seq(Nodes) /\ v # << >> /\ \A i \in 1..Len(w), j \in 1..Len(v) : w[i] # v[j]
    BY <1>1, <1>7
  <2> QED
    BY <1>8, <1>9, <1>10, <2>1, AddQueueHolds
<1>12. w \o v = v
  BY <1>1, <1>7, ConcatEmptySeq
<1>13. Create(q, h, m).queue = AddQueue(p, v[1], v[Len(v)])
  BY <1>1, Zenon DEF Create, p
<1>14. Holds(Create(q, h, m).headers, UpTo(m + 1), Caches)
  <2>1. /\ Len(UpTo(m)) = m /\ \A i \in 1..m : UpTo(m)[i] = i
        /\ Append(UpTo(m), m + 1) = UpTo(m + 1)
    <3>1. m \in 0..Memory /\ m < Memory
      BY Places
    <3> QED
      BY <3>1, UpToIs
  <2>2. m + 1 \in Caches /\ \A i \in 1..Len(UpTo(m)) : UpTo(m)[i] # m + 1
    BY Places, <2>1 DEF Caches
  <2>3. Holds(AddTail(h, m + 1), Append(UpTo(m), m + 1), Caches)
    BY <2>2, AddTailHolds
  <2> QED
    BY <2>1, <2>3 DEF Create
<1>15. Create(q, h, m).made = m + 1
  BY DEF Create
<1> QED
  BY <1>11, <1>12, <1>13, <1>14, <1>15 DEF v

-----------------------------------------------------------------------------
(* The chain of free blocks, step by step; with what the step is for the   *)
(* users of BlockPool.                                                     *)

\* The pool's variables are waiting, objects and made.
LEMMA PoolIs ==
  /\ Pool!Init <=> \/ Waiting = << >> /\ objects = {} /\ made = 0
                   \/ Waiting = [i \in 1..CacheSize |-> i] /\ objects = {} /\ made = 1
  /\ Pool!Take <=>
       /\ Waiting # << >>
       /\ objects' = objects \cup {Head(Waiting)} /\ Waiting' = Tail(Waiting)
       /\ made' = made
  /\ Pool!TakeNew <=>
       /\ Waiting = << >> /\ (made + 1) * CacheSize <= Memory * CacheSize
       /\ made' = made + 1
       /\ objects' = objects \cup {made * CacheSize + 1}
       /\ Waiting' = [i \in 1..(CacheSize - 1) |-> made * CacheSize + 1 + i]
  /\ UNCHANGED Pool!vars <=> Waiting' = Waiting /\ objects' = objects /\ made' = made
BY DEF Pool!Init, Pool!Take, Pool!TakeNew, Pool!vars, Waiting

\* The nodes that the queue holds are those that Chain finds.
LEMMA WaitingIs ==
  ASSUME NEW w, Holds(queue, w, Nodes), Len(w) <= Memory * CacheSize
  PROVE  Waiting = w
<1>1. Memory * CacheSize \in Nat
  BY Places
<1> QED
  BY <1>1, ChainIs DEF Waiting

LEMMA FinitelyMany ==
  ASSUME QueueInv, made \in 0..Memory
  PROVE  /\ IsFiniteSet(objects) /\ Cardinality(objects) \in Nat
         /\ LastOf(made) \in Nat /\ LastOf(made) <= Memory * CacheSize
         /\ Memory * CacheSize \in Nat
         /\ \A n \in objects : n \in Nodes
<1>1. LastOf(made) \in Nat /\ LastOf(made) <= Memory * CacheSize /\ Memory * CacheSize \in Nat
  BY Fits
<1>2. IsFiniteSet(1..LastOf(made))
  BY <1>1, FS_Interval
<1>3. IsFiniteSet(objects)
  BY <1>2, FS_Subset DEF QueueInv
<1>4. Cardinality(objects) \in Nat
  BY <1>3, FS_CardinalityType
<1>5. \A n \in objects : n \in Nodes
  BY <1>1 DEF QueueInv, Nodes
<1> QED
  BY <1>1, <1>3, <1>4, <1>5

LEMMA QueueNext ==
  ASSUME NEW v, Holds(queue', v, Nodes), made' \in 0..Memory, objects' \subseteq 1..LastOf(made'),
         \A n : (\E i \in 1..Len(v) : n = v[i]) <=> n \in (1..LastOf(made')) \ objects',
         Cardinality(objects') \in Nat, Len(v) = LastOf(made') - Cardinality(objects')
  PROVE  QueueInv' /\ Waiting' = v
<1>1. LastOf(made') \in Nat /\ LastOf(made') <= Memory * CacheSize /\ Memory * CacheSize \in Nat
  BY Fits
<1>2. Len(v) <= Memory * CacheSize
  BY <1>1
<1>3. Chain(queue', Memory * CacheSize) = v
  BY <1>1, <1>2, ChainIs
<1>4. Waiting' = v
  BY <1>3 DEF Waiting
<1>5. {v[i] : i \in 1..Len(v)} = (1..LastOf(made')) \ objects'
  <2>1. \A n : n \in {v[i] : i \in 1..Len(v)} <=> n \in (1..LastOf(made')) \ objects'
    OBVIOUS
  <2> HIDE DEF LastOf
  <2> QED
    BY <2>1, Zenon
<1>6. LastOf(made)' = LastOf(made')
  BY DEF LastOf
<1>7. QueueInv'
  BY <1>4, <1>5, <1>6, Zenon DEF QueueInv
<1> QED
  BY <1>4, <1>7

LEMMA KeptStep ==
  ASSUME IInv, ConstructKept
  PROVE  QueueInv' /\ Pool!Take
<1> DEFINE w == Waiting
           v == Tail(w)
           b == Head(w)
<1>1. /\ Holds(queue, w, Nodes) /\ w # << >> /\ made' = made /\ made \in 0..Memory
      /\ queue' = RemoveHead(queue) /\ objects' = objects \cup {queue.head}
  BY HoldsNothing DEF IInv, QueueInv, CountInv, ConstructKept, HandOut
<1>2. Holds(queue', v, Nodes) /\ queue.head = b
  BY <1>1, RemoveHeadHolds
<1>3. /\ objects \subseteq 1..LastOf(made)
      /\ {w[i] : i \in 1..Len(w)} = (1..LastOf(made)) \ objects
      /\ Len(w) = LastOf(made) - Cardinality(objects)
      /\ \A i, j \in 1..Len(w) : w[i] = w[j] => i = j
      /\ w \in Seq(Nodes) /\ Len(w) \in Nat \ {0}
  BY <1>1, EmptySeq DEF IInv, QueueInv, Holds
<1>4. /\ IsFiniteSet(objects) /\ Cardinality(objects) \in Nat
      /\ LastOf(made) \in Nat /\ LastOf(made) <= Memory * CacheSize
      /\ Memory * CacheSize \in Nat
  BY <1>1, FinitelyMany DEF IInv
<1>5. v \in Seq(Nodes) /\ Len(v) = Len(w) - 1 /\ b = w[1] /\ \A i \in 1..Len(v) : v[i] = w[i + 1]
  BY <1>1, <1>3, HeadTailProperties
<1> HIDE DEF w, v, b
<1>6. b \in 1..LastOf(made) /\ b \notin objects
  BY <1>3, <1>5
<1>7. Cardinality(objects') = Cardinality(objects) + 1
  BY <1>1, <1>2, <1>4, <1>6, FS_AddElement
<1>8. \A n : (\E i \in 1..Len(v) : n = v[i]) <=> n \in (1..LastOf(made)) \ objects'
  <2>1. ASSUME NEW i \in 1..Len(v) PROVE v[i] \in (1..LastOf(made)) \ objects'
    <3>1. i + 1 \in 1..Len(w) /\ 1 \in 1..Len(w) /\ i + 1 # 1
      BY <1>3, <1>5
    <3>2. w[i + 1] # b /\ w[i + 1] \in (1..LastOf(made)) \ objects
      BY <1>3, <1>5, <3>1
    <3> QED
      BY <1>1, <1>2, <1>5, <3>2
  <2>2. ASSUME NEW n \in (1..LastOf(made)) \ objects' PROVE \E i \in 1..Len(v) : n = v[i]
    <3>1. n \in (1..LastOf(made)) \ objects /\ n # b
      BY <1>1, <1>2
    <3>2. PICK i \in 1..Len(w) : n = w[i]
      BY <1>3, <3>1
    <3>3. i # 1
      BY <1>5, <3>1, <3>2
    <3>4. i - 1 \in 1..Len(v) /\ (i - 1) + 1 = i
      BY <1>3, <1>5, <3>3
    <3>5. n = v[i - 1]
      BY <1>5, <3>2, <3>4
    <3> QED
      BY <3>4, <3>5
  <2> QED
    BY <2>1, <2>2
<1>9. Len(v) = LastOf(made) - Cardinality(objects') /\ Cardinality(objects') \in Nat
  BY <1>3, <1>4, <1>5, <1>7
<1>10. objects' \subseteq 1..LastOf(made)
  BY <1>1, <1>2, <1>3, <1>6
<1>11. QueueInv' /\ Waiting' = v
  BY <1>1, <1>2, <1>8, <1>9, <1>10, QueueNext
<1>12. Pool!Take
  BY <1>1, <1>2, <1>11, PoolIs DEF w, v, b
<1> QED
  BY <1>11, <1>12

\* A queue that is empty has handed out the blocks of all caches.
LEMMA NewStep ==
  ASSUME IInv, ConstructNew
  PROVE  QueueInv' /\ (Pool!TakeNew \/ UNCHANGED Pool!vars)
<1>1. /\ Holds(queue, Waiting, Nodes) /\ Waiting = << >> /\ made \in 0..Memory
      /\ queue.head = NULL /\ Holds(headers, UpTo(made), Caches)
  BY HoldsNothing DEF IInv, QueueInv, CountInv, CacheInv, ConstructNew
<1>2. PICK r \in CreateCache(queue, headers, made) :
        /\ made' = r.made
        /\ IF r.queue.head = NULL THEN UNCHANGED <<queue, objects>> ELSE HandOut(r.queue)
  BY DEF ConstructNew
<1>3. /\ IsFiniteSet(objects) /\ Cardinality(objects) \in Nat
      /\ LastOf(made) \in Nat /\ LastOf(made) <= Memory * CacheSize
      /\ Memory * CacheSize \in Nat
  BY <1>1, FinitelyMany DEF IInv
<1>4. objects = 1..LastOf(made)
  <2>1. {Waiting[i] : i \in 1..Len(Waiting)} = {}
    BY <1>1
  <2> QED
    BY <2>1 DEF IInv, QueueInv
<1>5. CASE r = [queue |-> queue, headers |-> headers, made |-> made]
  <2>1. queue' = queue /\ objects' = objects /\ made' = made
    BY <1>1, <1>2, <1>5
  <2>2. Waiting' = Waiting
    BY <2>1 DEF Waiting
  <2>3. QueueInv'
    BY <2>1, <2>2 DEF IInv, QueueInv, LastOf
  <2> QED
    BY <2>1, <2>2, <2>3, PoolIs
<1>6. CASE made < Memory /\ r = Create(queue, headers, made)
  <2> DEFINE m == made
             v == Blocks(m)
             u == Tail(v)
             b == Head(v)
  <2>1. m \in 0..(Memory - 1)
    BY <1>1, <1>6, Places
  <2>2. Holds(r.queue, v, Nodes) /\ r.made = m + 1
    BY <1>1, <1>6, <2>1, CreateHolds
  <2>3. /\ v \in Seq(Nodes) /\ Len(v) = CacheSize /\ v # << >> /\ CacheSize \in Nat \ {0}
        /\ \A i \in 1..CacheSize : v[i] = m * CacheSize + i
        /\ (m + 1) * CacheSize = m * CacheSize + CacheSize
        /\ (m + 1) * CacheSize <= Memory * CacheSize
        /\ m * CacheSize \in Nat /\ m \in Nat
    <3> HIDE DEF m, v
    <3>1. /\ Blocks(m) \in Seq(Nodes) /\ Len(Blocks(m)) = CacheSize /\ Blocks(m) # << >>
          /\ \A i \in 1..CacheSize : Blocks(m)[i] = Start(m) + i
          /\ Start(m + 1) = Start(m) + CacheSize /\ Start(m + 1) <= Start(Memory)
      BY <2>1, BlocksAre
    <3>2. /\ m \in Nat /\ CacheSize \in Nat \ {0} /\ Start(m) \in Nat
      <4>1. CacheSize \in Nat \ {0} /\ Memory \in Nat
        BY Places
      <4>2. \A k \in Nat : Start(k) \in Nat
        BY Places
      <4>3. m \in Nat
        BY <2>1, <4>1
      <4> QED
        BY <4>1, <4>2, <4>3
    <3>3. /\ Start(m) = m * CacheSize /\ Start(m + 1) = (m + 1) * CacheSize
          /\ Start(Memory) = Memory * CacheSize
      BY DEF Start
    <3> QED
      BY <3>1, <3>2, <3>3, Zenon DEF v
  <2> HIDE DEF m, v
  <2>4. /\ r.queue.head = b /\ b = m * CacheSize + 1 /\ Holds(RemoveHead(r.queue), u, Nodes)
        /\ u \in Seq(Nodes) /\ Len(u) = CacheSize - 1
        /\ \A i \in 1..(CacheSize - 1) : u[i] = m * CacheSize + 1 + i
    <3>1. r.queue.head = b /\ Holds(RemoveHead(r.queue), u, Nodes)
      BY <2>2, <2>3, RemoveHeadHolds
    <3>2. b = v[1] /\ u \in Seq(Nodes) /\ Len(u) = Len(v) - 1 /\ \A i \in 1..Len(u) : u[i] = v[i + 1]
      BY <2>3, HeadTailProperties
    <3> HIDE DEF u, b
    <3>3. \A i \in 1..(CacheSize - 1) : i + 1 \in 1..CacheSize /\ u[i] = m * CacheSize + (i + 1)
      BY <2>3, <3>2
    <3>4. b = m * CacheSize + 1
      BY <2>3, <3>2
    <3> QED
      BY <2>3, <3>1, <3>2, <3>3, <3>4
  <2> HIDE DEF u, b
  <2>5. r.queue.head # NULL
    BY <2>3, <2>4 DEF NULL
  <2>6. queue' = RemoveHead(r.queue) /\ objects' = objects \cup {b} /\ made' = m + 1
    BY <1>2, <2>2, <2>4, <2>5 DEF HandOut
  <2>7. LastOf(made') = m * CacheSize + CacheSize /\ made' \in 0..Memory /\ LastOf(made) = m * CacheSize
    <3>1. LastOf(made') = (m + 1) * CacheSize /\ LastOf(made) = m * CacheSize
      BY <2>6, Zenon DEF LastOf, m
    <3>2. m + 1 \in 0..Memory
      BY <2>1, Places
    <3> QED
      BY <2>3, <2>6, <3>1, <3>2
  <2>8. Cardinality(objects') = LastOf(made) + 1
    <3>1. Cardinality(objects) = LastOf(made)
      BY <1>3, <1>4, FS_Interval
    <3>2. b \notin objects
      BY <1>3, <1>4, <2>4, <2>7
    <3> QED
      BY <1>3, <2>6, <3>1, <3>2, FS_AddElement
  <2>9. objects' = 1..(m * CacheSize + 1)
    <3>1. objects' = (1..(m * CacheSize)) \cup {m * CacheSize + 1}
      BY <1>4, <2>4, <2>6, <2>7
    <3> QED
      BY <2>3, <3>1
  <2>10. objects' \subseteq 1..LastOf(made')
    BY <2>3, <2>7, <2>9
  <2>11. \A n : (\E i \in 1..Len(u) : n = u[i]) <=> n \in (1..LastOf(made')) \ objects'
    <3>1. ASSUME NEW i \in 1..Len(u) PROVE u[i] \in (1..LastOf(made')) \ objects'
      BY <2>3, <2>4, <2>7, <2>9
    <3>2. ASSUME NEW n \in (1..LastOf(made')) \ objects' PROVE \E i \in 1..Len(u) : n = u[i]
      <4>1. n - (m * CacheSize + 1) \in 1..(CacheSize - 1)
        BY <2>3, <2>7, <2>9
      <4>2. n = u[n - (m * CacheSize + 1)]
        BY <2>3, <2>4, <2>7, <4>1
      <4> QED
        BY <2>4, <4>1, <4>2
    <3> QED
      BY <3>1, <3>2
  <2>12. Len(u) = LastOf(made') - Cardinality(objects') /\ Cardinality(objects') \in Nat
    BY <1>3, <2>3, <2>4, <2>7, <2>8
  <2>13. QueueInv' /\ Waiting' = u
    BY <2>4, <2>6, <2>7, <2>10, <2>11, <2>12, QueueNext
  <2>14. u = [i \in 1..(CacheSize - 1) |-> m * CacheSize + 1 + i]
    <3>1. u = [i \in 1..(CacheSize - 1) |-> u[i]]
      BY <2>4
    <3> QED
      BY <2>4, <3>1
  <2>15. Pool!TakeNew
    BY <1>1, <2>3, <2>4, <2>6, <2>13, <2>14, PoolIs DEF m
  <2> QED
    BY <2>13, <2>15
<1> QED
  BY <1>2, <1>5, <1>6 DEF CreateCache

LEMMA DestructStep ==
  ASSUME IInv, NEW b \in Nodes, Destruct(b)
  PROVE  QueueInv' /\ Pool!Return
<1> DEFINE w == Waiting
           v == Append(w, b)
<1>1. /\ Holds(queue, w, Nodes) /\ made' = made /\ made \in 0..Memory
      /\ b \in objects /\ queue' = AddTail(queue, b) /\ objects' = objects \ {b}
  BY DEF IInv, QueueInv, CountInv, Destruct, Deallocate
<1>2. /\ objects \subseteq 1..LastOf(made)
      /\ {w[i] : i \in 1..Len(w)} = (1..LastOf(made)) \ objects
      /\ Len(w) = LastOf(made) - Cardinality(objects)
      /\ w \in Seq(Nodes) /\ Len(w) \in Nat
  BY DEF IInv, QueueInv, Holds
<1>3. IsFiniteSet(objects) /\ Cardinality(objects) \in Nat /\ LastOf(made) \in Nat
  BY <1>1, FinitelyMany DEF IInv
<1>4. /\ v \in Seq(Nodes) /\ Len(v) = Len(w) + 1
      /\ \A i \in 1..Len(w) : v[i] = w[i]
      /\ v[Len(w) + 1] = b
  BY <1>2, AppendProperties
<1> HIDE DEF w
<1>5. \A i \in 1..Len(w) : w[i] # b
  BY <1>1, <1>2
<1>6. Holds(queue', v, Nodes)
  BY <1>1, <1>5, AddTailHolds
<1> HIDE DEF v
<1>7. Cardinality(objects') = Cardinality(objects) - 1 /\ Cardinality(objects') \in Nat
  <2>1. Cardinality(objects') = Cardinality(objects) - 1 /\ IsFiniteSet(objects')
    BY <1>1, <1>3, FS_RemoveElement
  <2> QED
    BY <2>1, FS_CardinalityType
<1>8. \A n : (\E i \in 1..Len(v) : n = v[i]) <=> n \in (1..LastOf(made)) \ objects'
  <2>1. ASSUME NEW i \in 1..Len(v) PROVE v[i] \in (1..LastOf(made)) \ objects'
    <3>1. CASE i = Len(w) + 1
      BY <1>1, <1>2, <1>4, <3>1
    <3>2. CASE i # Len(w) + 1
      <4>1. i \in 1..Len(w) /\ v[i] = w[i]
        BY <1>2, <1>4, <3>2
      <4> QED
        BY <1>1, <1>2, <4>1
    <3> QED
      BY <3>1, <3>2
  <2>2. ASSUME NEW n \in (1..LastOf(made)) \ objects' PROVE \E i \in 1..Len(v) : n = v[i]
    <3>1. CASE n = b
      <4>1. Len(w) + 1 \in 1..Len(v)
        BY <1>2, <1>4
      <4> QED
        BY <1>4, <3>1, <4>1
    <3>2. CASE n # b
      <4>1. PICK i \in 1..Len(w) : n = w[i]
        BY <1>1, <1>2, <3>2
      <4>2. i \in 1..Len(v) /\ v[i] = n
        BY <1>2, <1>4, <4>1
      <4> QED
        BY <4>2
    <3> QED
      BY <3>1, <3>2
  <2> QED
    BY <2>1, <2>2
<1>9. Len(v) = LastOf(made) - Cardinality(objects')
  BY <1>2, <1>3, <1>4, <1>7
<1>10. objects' \subseteq 1..LastOf(made)
  BY <1>1, <1>2
<1>11. QueueInv' /\ Waiting' = v
  BY <1>1, <1>6, <1>7, <1>8, <1>9, <1>10, QueueNext
<1>12. Pool!Return
  <2> DEFINE back == <<b>>
  <2>1. objects \ objects' = {b} /\ objects' \subseteq objects
    BY <1>1
  <2>2. back \in Pool!SetToSeqs({b})
    <3>1. Cardinality({b}) = 1
      BY FS_Singleton
    <3>2. back \in [1..1 -> {b}] /\ \A i, j \in 1..1 : i # j => back[i] # back[j]
      OBVIOUS
    <3>3. Pool!Cardinality({b}) = Cardinality({b})
      BY Zenon DEF Pool!Cardinality, Cardinality
    <3>4. Pool!Cardinality({b}) = 1
      BY <3>1, <3>3, Zenon
    <3> DEFINE D == 1..Pool!Cardinality({b})
    <3>5. D = 1..1
      BY <3>4, Zenon
    <3> HIDE DEF D, back
    <3>6. back \in {f \in [D -> {b}] : \A i, j \in D : i # j => f[i] # f[j]}
      BY <3>2, <3>5
    <3> QED
      BY <3>6, Zenon DEF Pool!SetToSeqs, D
  <2>3. v = w \o back
    BY <1>2, AppendIsConcat DEF v
  <2>4. Waiting' = Waiting \o back
    BY <1>11, <2>3 DEF w
  <2> HIDE DEF back
  <2> QED
    BY <1>1, <2>1, <2>2, <2>4, Zenon DEF Pool!Return, Waiting
<1> QED
  BY <1>11, <1>12

\* The destructor leaves the blocks alone.
LEMMA FreeingStep ==
  ASSUME IInv, \/ StartFreeing \/ FreeCache \/ UNCHANGED vars
  PROVE  QueueInv' /\ UNCHANGED Pool!vars
<1>1. queue' = queue /\ objects' = objects /\ made' = made
  BY DEF StartFreeing, FreeCache, vars
<1>2. Waiting' = Waiting
  BY <1>1 DEF Waiting
<1>3. QueueInv'
  BY <1>1, <1>2 DEF IInv, QueueInv, LastOf
<1> QED
  BY <1>1, <1>2, <1>3, PoolIs

-----------------------------------------------------------------------------
(* The limit, and the caches.                                              *)

LEMMA CountStep ==
  ASSUME IInv, [Next]_vars
  PROVE  CountInv'
<1>1. CASE ConstructNew
  <2>1. PICK r \in CreateCache(queue, headers, made) :
               made' = r.made /\ refused' = Refused(refused, r.made)
    BY <1>1 DEF ConstructNew
  <2>2. r.made = made \/ (made < Memory /\ r.made = made + 1)
    BY <2>1 DEF CreateCache, Create
  <2>3. /\ made \in 0..Memory /\ limit \in Limits /\ limit \in Nat \cup {-1} /\ Memory \in Nat
        /\ refused \in Nat
        /\ IF limit >= 0 THEN left \in Nat /\ made + refused + left = limit + 1 ELSE left = -1
        /\ left # 0 /\ left' = (IF left > 0 THEN left - 1 ELSE left) /\ limit' = limit
    BY <1>1, AllocatorAssumption DEF IInv, CountInv, ConstructNew
  <2>4. /\ made' \in 0..Memory
        /\ refused' = (IF limit >= 0 /\ made' = made THEN refused + 1 ELSE refused)
        /\ made' = made \/ made' = made + 1
    BY <2>1, <2>2, <2>3 DEF Refused
  <2>5. CASE limit >= 0
    BY <2>3, <2>4, <2>5 DEF CountInv
  <2>6. CASE ~(limit >= 0)
    BY <2>3, <2>4, <2>6 DEF CountInv
  <2> QED
    BY <2>5, <2>6
<1>2. CASE UNCHANGED <<made, limit, left, refused>>
  BY <1>2 DEF IInv, CountInv
<1> QED
  BY <1>1, <1>2 DEF Next, vars, ConstructKept, Destruct, StartFreeing, FreeCache

LEMMA CacheStep ==
  ASSUME IInv, [Next]_vars
  PROVE  CacheInv'
<1>1. made \in 0..Memory /\ Memory \in Nat /\ CacheInv
  BY Places DEF IInv, CountInv
<1>2. /\ Len(UpTo(made)) = made /\ \A i \in 1..made : UpTo(made)[i] = i
      /\ made = 0 <=> UpTo(made) = << >>
  BY <1>1, UpToIs
<1>3. CASE ConstructNew
  <2>1. PICK r \in CreateCache(queue, headers, made) : headers' = r.headers /\ made' = r.made
    BY <1>3 DEF ConstructNew
  <2>2. ~destroyed /\ ~destroyed' /\ freeing' = freeing /\ freed' = freed
    BY <1>3 DEF ConstructNew
  <2>3. CASE r = [queue |-> queue, headers |-> headers, made |-> made]
    BY <1>1, <2>1, <2>2, <2>3 DEF CacheInv
  <2>4. CASE made < Memory /\ r = Create(queue, headers, made)
    <3>1. Holds(queue, Waiting, Nodes) /\ queue.head = NULL
      BY <1>3 DEF IInv, QueueInv, ConstructNew
    <3>2. Holds(queue, << >>, Nodes)
      BY <3>1, HoldsNothing
    <3>3. made \in 0..(Memory - 1) /\ Holds(headers, UpTo(made), Caches)
      BY <1>1, <2>2, <2>4 DEF CacheInv
    <3>4. Holds(headers', UpTo(made'), Caches)
      BY <2>1, <2>4, <3>2, <3>3, CreateHolds
    <3> QED
      BY <1>1, <2>2, <3>4 DEF CacheInv, UpTo
  <2> QED
    BY <2>1, <2>3, <2>4 DEF CreateCache
<1>4. CASE StartFreeing
  <2>1. /\ Holds(headers, UpTo(made), Caches) /\ freed = << >> /\ destroyed' /\ freed' = freed
        /\ made' = made /\ freeing' = headers.head
        /\ headers'.next = headers.next
    <3>1. headers.next = RemoveHead(headers).next
      BY DEF RemoveHead
    <3> QED
      BY <1>1, <1>4, <3>1 DEF StartFreeing, CacheInv
  <2>2. \A c \in 1..made : headers.next[c] = IF c = made THEN NULL ELSE c + 1
    <3>1. ASSUME NEW c \in 1..made PROVE headers.next[c] = IF c = made THEN NULL ELSE c + 1
      <4>1. headers.next[UpTo(made)[c]] = IF c = Len(UpTo(made)) THEN NULL ELSE UpTo(made)[c + 1]
        BY <1>2, <2>1 DEF Holds
      <4>2. c # made => c + 1 \in 1..made
        BY <1>1
      <4> QED
        BY <1>2, <4>1, <4>2
    <3> QED
      BY <3>1
  <2>3. headers.head = IF made = 0 THEN NULL ELSE 1
    BY <1>1, <1>2, <2>1 DEF Holds
  <2>4. freed = UpTo(0)
    <3>1. 0 \in 0..Memory
      BY Places
    <3> QED
      BY <2>1, <3>1, UpToIs
  <2> QED
    BY <1>1, <2>1, <2>2, <2>3, <2>4 DEF CacheInv, NULL
<1>5. CASE FreeCache
  <2>1. /\ destroyed /\ destroyed' /\ freeing # NULL /\ made' = made /\ headers' = headers
        /\ freed' = Append(freed, freeing) /\ freeing' = headers.next[freeing]
    BY <1>5 DEF FreeCache
  <2>2. /\ freeing \in 1..made /\ freed = UpTo(freeing - 1)
        /\ headers.next[freeing] = IF freeing = made THEN NULL ELSE freeing + 1
    BY <1>1, <2>1 DEF CacheInv, NULL
  <2>3. Append(UpTo(freeing - 1), (freeing - 1) + 1) = UpTo((freeing - 1) + 1)
    <3>1. freeing - 1 \in 0..Memory /\ freeing - 1 < Memory
      BY <1>1, <2>2
    <3> QED
      BY <3>1, UpToIs
  <2>4. freed' = UpTo(freeing)
    <3>1. (freeing - 1) + 1 = freeing
      BY <1>1, <2>2
    <3> QED
      BY <2>1, <2>2, <2>3, <3>1
  <2>5. freeing = IF freeing' = NULL THEN made' ELSE freeing' - 1
    BY <1>1, <2>1, <2>2 DEF NULL
  <2>6. freeing' \in 0..made'
    BY <1>1, <2>1, <2>2 DEF NULL
  <2>7. freed' = UpTo(IF freeing' = NULL THEN made' ELSE freeing' - 1)
    BY <2>4, <2>5
  <2> QED
    BY <1>1, <2>1, <2>6, <2>7, Zenon DEF CacheInv, UpTo
<1>6. CASE UNCHANGED <<headers, made, destroyed, freeing, freed>>
  BY <1>1, <1>6 DEF CacheInv, UpTo
<1> QED
  BY <1>3, <1>4, <1>5, <1>6 DEF Next, vars, ConstructKept, Destruct

-----------------------------------------------------------------------------
(* The constructor.                                                        *)

LEMMA InitHolds == Init => IInv /\ Pool!Init
<1>1. SUFFICES ASSUME Init PROVE IInv /\ Pool!Init
  OBVIOUS
<1> DEFINE q == EmptyQueue([n \in Nodes |-> NULL])
           h == EmptyQueue([c \in Caches |-> NULL])
<1>2. PICK r \in CreateCache(q, h, 0) : queue = r.queue /\ headers = r.headers /\ made = r.made
  BY <1>1 DEF Init
<1>3. Holds(q, << >>, Nodes) /\ Holds(h, << >>, Caches)
  <2>1. NULL \notin Nodes /\ NULL \notin Caches
    BY Places
  <2>2. /\ [n \in Nodes |-> NULL] \in [Nodes -> Nodes \cup {NULL}]
        /\ [c \in Caches |-> NULL] \in [Caches -> Caches \cup {NULL}]
    OBVIOUS
  <2> QED
    BY <2>1, <2>2, EmptyHolds
<1> HIDE DEF q, h
<1>4. /\ CacheSize \in Nat \ {0} /\ Memory \in Nat /\ 0 \in 0..Memory
      /\ LastOf(0) = 0 /\ UpTo(0) = << >>
  <2>1. CacheSize \in Nat \ {0} /\ Memory \in Nat /\ 0 \in 0..Memory
    BY Places
  <2> QED
    BY <2>1, UpToIs DEF LastOf
<1>5. /\ limit \in Limits /\ left = limit /\ refused = (IF limit >= 0 /\ made = 0 THEN 1 ELSE 0)
      /\ objects = {} /\ ~destroyed
      /\ freeing = NULL /\ freed = << >>
  BY <1>1 DEF Init
<1>6. Cardinality(objects) = 0
  BY <1>5, FS_EmptySet
<1>7. ASSUME NEW v, Holds(queue, v, Nodes), Len(v) = LastOf(made), made \in 0..Memory,
             \A i \in 1..Len(v) : v[i] = i
      PROVE  QueueInv /\ Waiting = v
  <2>1. LastOf(made) \in Nat /\ LastOf(made) <= Memory * CacheSize
    BY <1>7, Fits
  <2>2. Waiting = v
    BY <1>7, <2>1, WaitingIs
  <2>3. {v[i] : i \in 1..Len(v)} = 1..LastOf(made)
    BY <1>7
  <2> QED
    BY <1>5, <1>6, <1>7, <2>1, <2>2, <2>3 DEF QueueInv
<1>8. CASE r = [queue |-> q, headers |-> h, made |-> 0]
  <2>1. queue = q /\ headers = h /\ made = 0
    BY <1>2, <1>8
  <2> DEFINE v == << >>
  <2>2. Holds(queue, v, Nodes) /\ Len(v) = LastOf(made) /\ \A i \in 1..Len(v) : v[i] = i
    BY <1>3, <1>4, <2>1
  <2>3. v = << >>
    OBVIOUS
  <2> HIDE DEF v
  <2>4. QueueInv /\ Waiting = v
    BY <1>4, <1>7, <2>1, <2>2
  <2>5. CountInv
    BY <1>4, <1>5, <2>1, AllocatorAssumption DEF CountInv
  <2>6. CacheInv
    BY <1>3, <1>4, <1>5, <2>1 DEF CacheInv
  <2>7. Pool!Init
    BY <1>5, <2>1, <2>3, <2>4, PoolIs
  <2> QED
    BY <2>4, <2>5, <2>6, <2>7 DEF IInv
<1>9. CASE 0 < Memory /\ r = Create(q, h, 0)
  <2> DEFINE v == Blocks(0)
  <2>1. 0 \in 0..(Memory - 1)
    BY <1>4, <1>9
  <2>2. /\ Holds(queue, v, Nodes) /\ Holds(headers, UpTo(0 + 1), Caches) /\ made = 0 + 1
    BY <1>2, <1>3, <1>4, <1>9, <2>1, CreateHolds
  <2>3. /\ v \in Seq(Nodes) /\ Len(v) = CacheSize /\ \A i \in 1..CacheSize : v[i] = Start(0) + i
    BY <2>1, BlocksAre
  <2>4. Start(0) = 0 /\ LastOf(made) = CacheSize
    BY <1>4, <2>2 DEF Start, LastOf
  <2> HIDE DEF v
  <2>5. \A i \in 1..CacheSize : v[i] = i
    BY <1>4, <2>3, <2>4
  <2>6. QueueInv /\ Waiting = v
    BY <1>4, <1>7, <1>9, <2>2, <2>3, <2>4, <2>5
  <2>7. CountInv
    BY <1>4, <1>5, <1>9, <2>2, AllocatorAssumption DEF CountInv
  <2>8. CacheInv
    <3>1. made = 1 /\ 0 + 1 = 1
      BY <2>2
    <3>2. Holds(headers, UpTo(made), Caches)
      BY <2>2, <3>1, Zenon
    <3> QED
      BY <1>5, <3>2 DEF CacheInv
  <2>9. v = [i \in 1..CacheSize |-> i]
    <3>1. v = [i \in 1..CacheSize |-> v[i]]
      BY <2>3
    <3> QED
      BY <2>5, <3>1
  <2>10. Pool!Init
    BY <1>5, <2>2, <2>6, <2>9, PoolIs
  <2> QED
    BY <2>6, <2>7, <2>8, <2>10 DEF IInv
<1> QED
  BY <1>2, <1>8, <1>9 DEF CreateCache

-----------------------------------------------------------------------------
(* What follows for every execution.                                       *)

LEMMA NextHolds ==
  IInv /\ [Next]_vars => IInv' /\ [Pool!Next]_Pool!vars
<1>1. SUFFICES ASSUME IInv, [Next]_vars PROVE IInv' /\ [Pool!Next]_Pool!vars
  OBVIOUS
<1>2. CountInv' /\ CacheInv'
  BY <1>1, CountStep, CacheStep
<1>3. QueueInv' /\ [Pool!Next]_Pool!vars
  <2>1. CASE ConstructKept
    BY <1>1, <2>1, KeptStep DEF Pool!Next
  <2>2. CASE ConstructNew
    BY <1>1, <2>2, NewStep DEF Pool!Next
  <2>3. ASSUME NEW b \in Nodes, Destruct(b) PROVE QueueInv' /\ Pool!Return
    BY <1>1, <2>3, DestructStep
  <2>4. CASE StartFreeing \/ FreeCache \/ UNCHANGED vars
    BY <1>1, <2>4, FreeingStep
  <2> QED
    BY <1>1, <2>1, <2>2, <2>3, <2>4 DEF Next, Pool!Next
<1> QED
  BY <1>2, <1>3 DEF IInv

\* The inductive invariant holds throughout.
THEOREM AllocatorInvariance == Spec => []IInv
<1>1. Init => IInv
  BY InitHolds
<1>2. IInv /\ [Next]_vars => IInv'
  BY NextHolds
<1> QED
  BY <1>1, <1>2, PTL DEF Spec

\* The pointers lead over every free block of every cache once, to the tail: no
\* block is lost, and none is handed out while somebody has it.
THEOREM FreeBlocksExact == Spec => []QueueExact
<1>1. IInv => QueueExact
  BY DEF IInv, QueueInv, QueueExact, Waiting, Holds
<1> QED
  BY <1>1, AllocatorInvariance, PTL

\* max_caches is charged for each time that malloc is asked after the first, once,
\* whether it has memory or not, whatever is constructed and destructed.
THEOREM BudgetIsExact == Spec => []BudgetExact
<1>1. IInv => BudgetExact
  BY DEF IInv, CountInv, BudgetExact
<1> QED
  BY <1>1, AllocatorInvariance, PTL

\* The destructor frees every cache once, in the order in which they were made.
THEOREM CachesAreFreed == Spec => []EveryCacheFreed
<1>1. IInv => EveryCacheFreed
  BY DEF IInv, CacheInv, EveryCacheFreed, UpTo
<1> QED
  BY <1>1, AllocatorInvariance, PTL

\* The allocator, with its queue of pointers, is the pool of blocks that its
\* users see: each step of it is a step of the pool or none.
THEOREM AllocatorIsBlockPool == Spec => IsBlockPool
<1>1. Init => Pool!Init
  BY InitHolds
<1>2. IInv /\ [Next]_vars => [Pool!Next]_Pool!vars
  BY NextHolds
<1> QED
  BY <1>1, <1>2, AllocatorInvariance, PTL DEF Spec, IsBlockPool, Pool!Spec
=============================================================================
