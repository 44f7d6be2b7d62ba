------------------------- MODULE BigblockAllocator -------------------------
(***************************************************************************)
(* bigblock_allocator, which cuts blocks from large caches and keeps those *)
(* that are returned, and object_allocator_proxy, through which workers    *)
(* and their data are made in its blocks.  Each call holds the lock of the *)
(* allocator from its first line to its last and is one step; only the     *)
(* destructor, which frees the caches one by one, is several.              *)
(***************************************************************************)
EXTENDS LinkedPtrQueue, Integers, FiniteSets

CONSTANTS
  CacheSize,    \* single_cache_size_
  Limits,       \* values of the constructor's max_caches: caches to add, or -1
  Memory        \* bound: the number of caches malloc has room for

ASSUME AllocatorAssumption ==
  /\ CacheSize \in Nat \ {0} /\ Memory \in Nat /\ Limits \subseteq Nat \cup {-1}

Caches == 1..Memory
Nodes  == 1..(Memory * CacheSize)
First(c) == (c - 1) * CacheSize + 1
LastOf(c) == c * CacheSize

VARIABLES
  queue,        \* queue_, of nodes that are not handed out
  headers,      \* header_queue_, of the caches
  made,         \* number of caches that malloc gave
  limit,        \* the max_caches the constructor was given
  left,         \* max_caches_
  refused,      \* how often malloc refused a cache, counted if there is a limit
  objects,      \* the blocks that hold an object, as their users see them
  destroyed,    \* whether the destructor has been called
  freeing,      \* node_ptr of the destructor
  freed         \* the caches given back to free, in order

vars == <<queue, headers, made, limit, left, refused, objects, destroyed, freeing, freed>>

-----------------------------------------------------------------------------

\* The nodes of cache c are linked in order, the last to NULL.
Linked(q, c) ==
  [q EXCEPT !.next = [n \in Nodes |->
     IF n \in First(c)..LastOf(c) THEN (IF n = LastOf(c) THEN NULL ELSE n + 1) ELSE @[n]]]

\* create_cache, when malloc has memory.
\* Mutant: the cache is not entered in header_queue_.
CreateUnlisted(q, h, m) ==
  [queue |-> AddQueue(Linked(q, m + 1), First(m + 1), LastOf(m + 1)),
   headers |-> h, made |-> m + 1]
Create(q, h, m) ==
  [queue |-> AddQueue(Linked(q, m + 1), First(m + 1), LastOf(m + 1)),
   headers |-> AddTail(h, m + 1), made |-> m + 1]

\* What create_cache may leave behind.
CreateCache(q, h, m) ==
  {[queue |-> q, headers |-> h, made |-> m]}
    \cup (IF m < Memory THEN {Create(q, h, m)} ELSE {})

\* allocate found or made a node, which construct fills with an object.
HandOut(q) == queue' = RemoveHead(q) /\ objects' = objects \cup {q.head}

\* construct, when a node waits.
ConstructKept ==
  /\ ~destroyed /\ queue.head # NULL
  /\ HandOut(queue)
  /\ UNCHANGED <<headers, made, limit, left, refused, destroyed, freeing, freed>>

\* malloc was asked for a cache, and there are m then.
Refused(n, m) == IF limit >= 0 /\ m = made THEN n + 1 ELSE n

\* construct, when none does: another cache is tried, and charged to max_caches_
\* whether malloc has one or not.  Mutant: it is charged when there is one.
ConstructIfMade ==
  /\ ~destroyed /\ queue.head = NULL /\ left # 0
  /\ \E r \in CreateCache(queue, headers, made) :
       /\ headers' = r.headers /\ made' = r.made
       /\ left' = IF left > 0 /\ r.made # made THEN left - 1 ELSE left
       /\ refused' = Refused(refused, r.made)
       /\ IF r.queue.head = NULL THEN UNCHANGED <<queue, objects>> ELSE HandOut(r.queue)
  /\ UNCHANGED <<limit, destroyed, freeing, freed>>
ConstructNew ==
  /\ ~destroyed /\ queue.head = NULL /\ left # 0
  /\ left' = IF left > 0 THEN left - 1 ELSE left
  /\ \E r \in CreateCache(queue, headers, made) :
       /\ headers' = r.headers /\ made' = r.made
       /\ refused' = Refused(refused, r.made)
       /\ IF r.queue.head = NULL THEN UNCHANGED <<queue, objects>> ELSE HandOut(r.queue)
  /\ UNCHANGED <<limit, destroyed, freeing, freed>>

\* deallocate
Deallocate(b) == queue' = AddTail(queue, b)

\* destruct
Destruct(b) ==
  /\ ~destroyed /\ b \in objects
  /\ objects' = objects \ {b}
  /\ Deallocate(b)
  /\ UNCHANGED <<headers, made, limit, left, refused, destroyed, freeing, freed>>

\* The destructor takes the first cache out of header_queue_ ...
StartFreeing ==
  /\ ~destroyed /\ destroyed' = TRUE
  /\ freeing' = headers.head
  /\ headers' = IF headers.head = NULL THEN headers ELSE RemoveHead(headers)
  /\ UNCHANGED <<queue, made, limit, left, refused, objects, freed>>

\* ... and follows the next pointers from it.
FreeCache ==
  /\ destroyed /\ freeing # NULL
  /\ freed' = Append(freed, freeing)
  /\ freeing' = headers.next[freeing]
  /\ UNCHANGED <<queue, headers, made, limit, left, refused, objects, destroyed>>

-----------------------------------------------------------------------------

\* The constructor, which creates the first cache.
Init ==
  /\ \E r \in CreateCache(EmptyQueue([n \in Nodes |-> NULL]),
                          EmptyQueue([c \in Caches |-> NULL]), 0) :
       queue = r.queue /\ headers = r.headers /\ made = r.made
  /\ limit \in Limits /\ left = limit
  /\ refused = IF limit >= 0 /\ made = 0 THEN 1 ELSE 0
  /\ objects = {} /\ destroyed = FALSE /\ freeing = NULL /\ freed = << >>

Next ==
  \/ ConstructKept \/ ConstructNew
  \/ \E b \in Nodes : Destruct(b)
  \/ StartFreeing \/ FreeCache

Spec == Init /\ [][Next]_vars

-----------------------------------------------------------------------------
(* Properties.                                                             *)

\* The queue runs from its head over every node of every cache that is not
\* handed out, once, and ends at its tail, whatever next pointers the nodes had
\* when they were handed out: no block is lost and none is handed out twice.
QueueExact ==
  LET chain == Chain(queue, Memory * CacheSize)
  IN  /\ {chain[i] : i \in DOMAIN chain} = (1..LastOf(made)) \ objects
      /\ Len(chain) = LastOf(made) - Cardinality(objects)
      /\ queue.tail = (IF chain = << >> THEN NULL ELSE chain[Len(chain)])

\* With a limit malloc is asked for the first cache and max_caches times more, and
\* what is left of these tells how often it was, whether it had memory or not: a
\* refusal costs as much as a cache, and max_caches + 1 caches are the most.
BudgetExact == limit >= 0 => made + refused + left = limit + 1

\* The destructor frees every cache once, in the order in which they were made.
EveryCacheFreed ==
  destroyed /\ freeing = NULL => freed = [c \in 1..made |-> c]

Pool == INSTANCE BlockPool WITH
  Batch <- CacheSize, Blocks <- Memory * CacheSize,
  waiting <- Chain(queue, Memory * CacheSize)

\* The linked nodes are a pool of blocks in the order of their return, which is
\* the order PoolString relies on when it numbers the blocks of its zone.
IsBlockPool == Pool!Spec

=============================================================================
