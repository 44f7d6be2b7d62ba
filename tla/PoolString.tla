---------------------------- MODULE PoolString -----------------------------
(***************************************************************************)
(* pool_string and pool_string_zone: byte queues made of chained blocks    *)
(* that share one zone.  A block is its number, in the order in which the  *)
(* bigblock_allocator of the zone hands new ones out.                      *)
(*                                                                         *)
(* Each pool_string belongs to one worker and is used under its lock, and  *)
(* takes and returns blocks under the lock of the zone: one call is one    *)
(* step.  A string that found no memory in the middle of an append counts  *)
(* bytes it does not hold and writes where it wrote last, so nothing but   *)
(* clear is modelled of it afterwards.                                     *)
(***************************************************************************)
EXTENDS Integers, Sequences, FiniteSets, SequencesExt

CONSTANTS
  Strings,      \* the pool_strings of the zone
  BlockNum,     \* number of blocks the memory has room for
  Capacity,     \* chunk_capacity
  AppendSizes,  \* sizes that are appended; 1 is also append(char)
  PopSizes,     \* sizes of the buffers that are popped into
  MaxBytes      \* bound: bytes appended to a string

ASSUME PoolAssumption ==
  /\ BlockNum \in Nat /\ Capacity \in Nat \ {0} /\ MaxBytes \in Nat
  /\ AppendSizes \subseteq Nat \ {0} /\ PopSizes \subseteq Nat \ {0}

Blocks == 1..BlockNum

VARIABLES
  block,        \* memory, block_offset and block_used of each block
  str,          \* chain of blocks, write_ptr_, write_space_, length_ of each string
  free,         \* free_queue_
  fresh,        \* number of blocks pool_ has handed out
  count,        \* number of bytes appended to each string, which are 1, 2, ...
  taken,        \* what the last pop of each string wrote to its buffer
  broken        \* the strings that found no memory in the middle of an append

vars == <<block, str, free, fresh, count, taken, broken>>

-----------------------------------------------------------------------------

\* What pool_string_zone::allocate will return, call by call.
Available == free \o [i \in 1..(BlockNum - fresh) |-> fresh + i]

Allocate(k) ==
  /\ free' = SubSeq(free, k + 1, Len(free))
  /\ fresh' = IF k > Len(free) THEN fresh + k - Len(free) ELSE fresh

Deallocate(blocks) == free' = free \o blocks /\ UNCHANGED fresh

\* The bytes a block holds.  Mutant: block_offset is left out.
BytesFromStart(b) == SubSeq(block[b].mem, 1, block[b].used)
Bytes(b) == SubSeq(block[b].mem, block[b].offset + 1, block[b].offset + block[b].used)
Content(chain) == FlattenSeq([i \in DOMAIN chain |-> Bytes(chain[i])])

\* initialize, and what ensure_first_block makes of it with a first block b.
Initial    == [chain |-> << >>, at |-> 0, space |-> 0, length |-> 0]
Started(b) == [chain |-> <<b>>, at |-> 0, space |-> Capacity, length |-> 0]

\* The blocks that an append of n bytes takes when the last block has room for
\* space: when that is full, one for each Capacity bytes left and one for the
\* rest, even if no byte is left.  Mutant: not if no byte is left.
NeedLess(space, n) == IF n > space THEN (n - space) \div Capacity + 1 ELSE 0
Need(space, n)     == IF n >= space THEN (n - space) \div Capacity + 1 ELSE 0

\* append, when ensure_first_block finds no memory: the bytes are dropped, without
\* a word to the caller, and the string is what it was.
DropBytes(s) ==
  /\ s \notin broken /\ str[s].chain = << >> /\ Available = << >>
  /\ UNCHANGED vars

\* append: fill the last block, then as many blocks as it needs.
AppendBytes(s, n) ==
  LET new    == str[s].chain = << >>
      st     == IF new THEN Started(Available[1]) ELSE str[s]
      spare  == IF new THEN Tail(Available) ELSE Available
      last   == Last(st.chain)
      old    == IF new THEN [mem |-> << >>, offset |-> 0, used |-> 0] ELSE block[last]
      d      == [i \in 1..n |-> count[s] + i]
      piece(from, size) == SubSeq(d, from + 1, Min({from + size, n}))
      part(i) == piece(st.space + (i - 1) * Capacity, Capacity)
      need   == Need(st.space, n)
      got    == SubSeq(spare, 1, Min({need, Len(spare)}))
      end    == IF need = 0 THEN st.at + n ELSE Len(part(need))
  IN /\ s \notin broken
     /\ count[s] + n <= MaxBytes
     /\ new => Available # << >>
     /\ Allocate(Len(got) + (IF new THEN 1 ELSE 0))
     /\ block' = [b \in Blocks |->
          IF b = last
          THEN [old EXCEPT !.mem = SubSeq(@, 1, st.at) \o piece(0, st.space),
                           !.used = @ + Len(piece(0, st.space))]
          ELSE IF \E i \in DOMAIN got : got[i] = b
          THEN LET i == CHOOSE j \in DOMAIN got : got[j] = b
               IN [mem |-> part(i), offset |-> 0, used |-> Len(part(i))]
          ELSE block[b]]
     /\ str' = [str EXCEPT ![s] =
          [chain  |-> st.chain \o got,
           at     |-> IF Len(got) = need THEN end ELSE st.at,
           space  |-> IF Len(got) = need
                      THEN (IF need = 0 THEN st.space - n ELSE Capacity - end)
                      ELSE st.space,
           length |-> st.length + n]]
     /\ broken' = IF Len(got) = need THEN broken ELSE broken \cup {s}
     /\ count' = [count EXCEPT ![s] = @ + n]
     /\ UNCHANGED taken

\* The string after a pop of got bytes which leaves chain, whose last block ends
\* at end if the pop touched it.  Mutant: length_ stays.
PoppedUncounted(st, chain, touched, end, got) ==
  [chain  |-> chain,
   at     |-> IF touched THEN end ELSE st.at,
   space  |-> IF touched THEN Capacity - end ELSE st.space,
   length |-> st.length]
Popped(st, chain, touched, end, got) ==
  [chain  |-> chain,
   at     |-> IF touched THEN end ELSE st.at,
   space  |-> IF touched THEN Capacity - end ELSE st.space,
   length |-> st.length - got]

\* pop: whole blocks go to the buffer and back to the zone while they fit, the
\* next one is cut; the last block is kept, and written from its start if empty.
PopBytes(s, n) ==
  LET c       == str[s].chain
      size(m) == Len(Content(SubSeq(c, 1, m)))
      m       == CHOOSE k \in 0..Len(c) :
                   size(k) <= n /\ (k = Len(c) \/ size(k + 1) > n)
      kept    == IF m < Len(c) THEN m + 1 ELSE m
      cut     == n - size(m)
      b       == c[kept]
      now     == IF m < Len(c)
                 THEN [block[b] EXCEPT !.offset = @ + cut, !.used = @ - cut]
                 ELSE [block[b] EXCEPT !.offset = 0, !.used = 0]
      end     == now.offset + now.used
      got     == IF m < Len(c) THEN n ELSE size(m)
  IN /\ s \notin broken
     /\ IF c = << >>
        THEN taken' = [taken EXCEPT ![s] = << >>] /\ UNCHANGED <<block, str, free, fresh>>
        ELSE /\ taken' = [taken EXCEPT ![s] = SubSeq(Content(c), 1, got)]
             /\ block' = [block EXCEPT ![b] = now]
             /\ str' = [str EXCEPT ![s] =
                          Popped(@, SubSeq(c, kept, Len(c)), kept = Len(c), end, got)]
             /\ Deallocate(SubSeq(c, 1, kept - 1))
     /\ UNCHANGED <<count, broken>>

\* clear, use_zone and the destructor: the whole chain goes back to the zone.
\* Mutant: it does not.
ClearLeaky(s) ==
  /\ str' = [str EXCEPT ![s] = Initial]
  /\ broken' = broken \ {s}
  /\ count' = [count EXCEPT ![s] = 0] /\ taken' = [taken EXCEPT ![s] = << >>]
  /\ UNCHANGED <<block, free, fresh>>
Clear(s) ==
  /\ Deallocate(str[s].chain)
  /\ str' = [str EXCEPT ![s] = Initial]
  /\ broken' = broken \ {s}
  /\ count' = [count EXCEPT ![s] = 0] /\ taken' = [taken EXCEPT ![s] = << >>]
  /\ UNCHANGED block

-----------------------------------------------------------------------------

Init ==
  /\ block = [b \in Blocks |-> [mem |-> << >>, offset |-> 0, used |-> 0]]
  /\ str = [s \in Strings |-> Initial]
  /\ free = << >> /\ fresh = 0
  /\ count = [s \in Strings |-> 0] /\ taken = [s \in Strings |-> << >>]
  /\ broken = {}

Next ==
  \E s \in Strings :
    \/ \E n \in AppendSizes : AppendBytes(s, n)
    \/ DropBytes(s)
    \/ \E n \in PopSizes : PopBytes(s, n)
    \/ Clear(s)

Spec == Init /\ [][Next]_vars

-----------------------------------------------------------------------------
(* Properties.                                                             *)

\* Every block the zone took from the allocator is in the free queue or in one
\* chain, once, whatever failed: no block leaks, and no two strings write to one.
BlocksAccounted ==
  LET owned == {p \in Strings \X (1..BlockNum) : p[2] <= Len(str[p[1]].chain)}
      blockAt(p) == str[p[1]].chain[p[2]]
  IN /\ {blockAt(p) : p \in owned} \cup ToSet(free) = 1..fresh
     /\ Cardinality(owned) + Len(free) = fresh

\* A string writes right behind its last byte, inside its last block, and the
\* block always has room: append(char) relies on write_space_ not being 0.
WritesBehindTheEnd ==
  \A s \in Strings \ broken : str[s].chain # << >> =>
    LET b == block[Last(str[s].chain)]
    IN  /\ str[s].at = b.offset + b.used
        /\ str[s].space = Capacity - str[s].at /\ str[s].space > 0

\* length() is the number of bytes a pop can get, on which process_write
\* relies when it tests for an empty cache.
LengthExact ==
  \A s \in Strings \ broken : str[s].length = Len(Content(str[s].chain))

Queue == INSTANCE ByteQueue WITH
  content <- [s \in Strings |-> IF s \in broken THEN << >> ELSE Content(str[s].chain)]

\* A string is a queue of bytes, until an append finds no memory half-way.
IsByteQueue == Queue!Spec

=============================================================================
