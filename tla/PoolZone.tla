------------------------------ MODULE PoolZone ------------------------------
(***************************************************************************)
(* pool_string_zone and the chains of its blocks, pointer by pointer: the  *)
(* next pointer of a block links it in the chain of a string, and in the   *)
(* free queue of its zone.  Each string has a thread of its own, and the   *)
(* strings of a zone meet under pool_mutex_ only: a call of the zone is a  *)
(* step, taken together with the writes to the block it returned, which    *)
(* nobody else can see yet.                                                *)
(*                                                                         *)
(* What is in the blocks is PoolString: here an append extends the chain   *)
(* as often as it likes, and a pop stops where it likes.  total_cnt_ is    *)
(* left out, as no code of the repository reads it.                        *)
(***************************************************************************)
EXTENDS LinkedPtrQueue, Integers, FiniteSets

CONSTANTS
  Strings,      \* the pool_strings
  ZoneNum,      \* number of zones
  BlockNum      \* bound: blocks that the allocator of a zone has memory for

ASSUME ZoneAssumption == ZoneNum \in Nat \ {0} /\ BlockNum \in Nat

Zones   == 0..(ZoneNum - 1)
Blocks  == 1..(ZoneNum * BlockNum)
Home(b) == (b - 1) \div BlockNum        \* the zone whose allocator made b

VARIABLES
  next,         \* the next pointer of each block
  free,         \* head and tail of free_queue_ of each zone
  fresh,        \* number of blocks that pool_ of each zone has made
  zone,         \* zone_ptr_ of each string
  head, tail,   \* head_block_ptr_ and tail_block_ptr_ of each string
  cursor        \* block_ptr of a pop_lambda under way

vars == <<next, free, fresh, zone, head, tail, cursor>>

-----------------------------------------------------------------------------

Queue(z) == [head |-> free[z].head, tail |-> free[z].tail, next |-> next]
Ends(q)  == [head |-> q.head, tail |-> q.tail]

\* pool_string_zone::allocate returns block b of zone z.
Allocate(z, b) ==
  \/ /\ free[z].head # NULL /\ b = free[z].head
     /\ free' = [free EXCEPT ![z] = Ends(RemoveHead(Queue(z)))]
     /\ UNCHANGED fresh
  \/ /\ free[z].head = NULL /\ fresh[z] < BlockNum
     /\ b = z * BlockNum + fresh[z] + 1
     /\ fresh' = [fresh EXCEPT ![z] = @ + 1]
     /\ UNCHANGED free

\* What deallocate makes of the queue of z.
Return(z, q) == free' = [free EXCEPT ![z] = Ends(q)] /\ next' = q.next

Idle(s) == cursor[s] = NULL

\* ensure_first_block.  Mutant: next keeps what the block had in the queue.
FirstBlockStale(s) ==
  /\ Idle(s) /\ head[s] = NULL
  /\ \E b \in Blocks :
       /\ Allocate(zone[s], b)
       /\ head' = [head EXCEPT ![s] = b] /\ tail' = [tail EXCEPT ![s] = b]
  /\ UNCHANGED <<next, zone, cursor>>
EnsureFirstBlock(s) ==
  /\ Idle(s) /\ head[s] = NULL
  /\ \E b \in Blocks :
       /\ Allocate(zone[s], b)
       /\ head' = [head EXCEPT ![s] = b] /\ tail' = [tail EXCEPT ![s] = b]
       /\ next' = [next EXCEPT ![b] = NULL]
  /\ UNCHANGED <<zone, cursor>>

\* append finds the last block full and links another one behind it.
Extend(s) ==
  /\ Idle(s) /\ head[s] # NULL
  /\ \E b \in Blocks :
       /\ Allocate(zone[s], b)
       /\ next' = [next EXCEPT ![b] = NULL, ![tail[s]] = b]
       /\ tail' = [tail EXCEPT ![s] = b]
  /\ UNCHANGED <<zone, head, cursor>>

\* pop_lambda starts at the first block ...
Pop(s) ==
  /\ Idle(s) /\ head[s] # NULL
  /\ cursor' = [cursor EXCEPT ![s] = head[s]]
  /\ UNCHANGED <<next, free, fresh, zone, head, tail>>

\* ... gives it back, if another follows, and goes on with that one ...
\* Mutant: it reads the next pointer of the block that it has given back.
PopBlockLate(s) ==
  /\ ~Idle(s) /\ next[cursor[s]] # NULL
  /\ Return(zone[s], AddTail(Queue(zone[s]), cursor[s]))
  /\ cursor' = [cursor EXCEPT ![s] = next'[cursor[s]]]
  /\ UNCHANGED <<fresh, zone, head, tail>>
PopBlock(s) ==
  /\ ~Idle(s) /\ next[cursor[s]] # NULL
  /\ cursor' = [cursor EXCEPT ![s] = next[cursor[s]]]
  /\ Return(zone[s], AddTail(Queue(zone[s]), cursor[s]))
  /\ UNCHANGED <<fresh, zone, head, tail>>

\* ... until it keeps a block, which becomes the first.
PopEnd(s) ==
  /\ ~Idle(s)
  /\ head' = [head EXCEPT ![s] = cursor[s]]
  /\ cursor' = [cursor EXCEPT ![s] = NULL]
  /\ UNCHANGED <<next, free, fresh, zone, tail>>

\* clear, if there are blocks, and the destructor: deallocate takes the chain,
\* from its first block to its last, as a queue and adds it to the free one.
FreeBlocks(s, z) ==
  /\ Return(z, AddQueue(Queue(z), head[s], tail[s]))
  /\ head' = [head EXCEPT ![s] = NULL] /\ tail' = [tail EXCEPT ![s] = NULL]
Clear(s) ==
  /\ Idle(s) /\ head[s] # NULL
  /\ FreeBlocks(s, zone[s])
  /\ UNCHANGED <<fresh, zone, cursor>>

\* use_zone.  Mutant: clear() runs after the zone was changed.
UseZoneFirst(s, z) ==
  /\ Idle(s)
  /\ IF head[s] # NULL THEN FreeBlocks(s, z) ELSE UNCHANGED <<next, free, head, tail>>
  /\ zone' = [zone EXCEPT ![s] = z]
  /\ UNCHANGED <<fresh, cursor>>
UseZone(s, z) ==
  /\ Idle(s)
  /\ IF head[s] # NULL THEN FreeBlocks(s, zone[s]) ELSE UNCHANGED <<next, free, head, tail>>
  /\ zone' = [zone EXCEPT ![s] = z]
  /\ UNCHANGED <<fresh, cursor>>

-----------------------------------------------------------------------------

Init ==
  /\ next = [b \in Blocks |-> NULL]
  /\ free = [z \in Zones |-> [head |-> NULL, tail |-> NULL]]
  /\ fresh = [z \in Zones |-> 0]
  /\ zone = [s \in Strings |-> 0]
  /\ head = [s \in Strings |-> NULL] /\ tail = head /\ cursor = head

Next ==
  \E s \in Strings :
    \/ EnsureFirstBlock(s) \/ Extend(s)
    \/ Pop(s) \/ PopBlock(s) \/ PopEnd(s)
    \/ Clear(s)
    \/ \E z \in Zones : UseZone(s, z)

Spec == Init /\ [][Next]_vars

-----------------------------------------------------------------------------
(* Properties.                                                             *)

\* A chain as a queue: the part of it that a pop under way has not given back.
Line(s) == [head |-> IF Idle(s) THEN head[s] ELSE cursor[s], tail |-> tail[s], next |-> next]

\* The blocks that the pointers lead to.
OfString(s) == Chain(Line(s), ZoneNum * BlockNum)
OfZone(z)   == Chain(Queue(z), ZoneNum * BlockNum)
ElementsOf(q) == {q[i] : i \in DOMAIN q}
EndsAt(q, t)  == t = IF q = << >> THEN NULL ELSE q[Len(q)]

\* Whoever follows the next pointers of a chain, as the batch deallocate and
\* its BOOST_ASSERT do, ends at the block its owner takes for the last one.
WalksEndAtTail ==
  /\ \A s \in Strings : EndsAt(OfString(s), tail[s])
  /\ \A z \in Zones : EndsAt(OfZone(z), free[z].tail)

\* Every block a zone made is in its free queue or in the chain of one string
\* that uses this zone, once, while others take and return blocks: no two
\* strings write to one block, and a block comes back to the zone that made it.
BlocksComeHome ==
  \A z \in Zones :
    LET users == {s \in Strings : zone[s] = z}
        parts == {OfZone(z)} \cup {OfString(s) : s \in users}
    IN  /\ UNION {ElementsOf(q) : q \in parts} = {b \in Blocks : Home(b) = z
                                                /\ b <= z * BlockNum + fresh[z]}
        /\ \A s \in users :
             /\ ElementsOf(OfString(s)) \cap ElementsOf(OfZone(z)) = {}
             /\ \A t \in users \ {s} :
                  ElementsOf(OfString(s)) \cap ElementsOf(OfString(t)) = {}

\* The first zone and its allocator are a pool: blocks that were returned wait
\* in the order of their return, and none is made while one waits.
Pool == INSTANCE BlockPool WITH
  Batch <- 1, Blocks <- BlockNum, waiting <- OfZone(0), made <- fresh[0],
  objects <- UNION {ElementsOf(OfString(s)) : s \in {t \in Strings : zone[t] = 0}}

ZoneIsPool == Pool!Spec

=============================================================================
