--------------------------- MODULE LinkedPtrQueue ---------------------------
(***************************************************************************)
(* linked_ptr_queue: a queue of nodes that carry their own next pointer.   *)
(* A queue is a record of its two pointers and of the next pointers of all *)
(* nodes there are, those outside the queue too: a node keeps the pointer  *)
(* it had when it is taken out.                                            *)
(***************************************************************************)
EXTENDS Naturals, Sequences

NULL == 0

\* An empty queue over memory in which the next pointers are next.
EmptyQueue(next) == [head |-> NULL, tail |-> NULL, next |-> next]

\* add_tail(node_ptr).  Mutant: the pointer the node had is kept.
AddTailStale(q, n) ==
  [head |-> IF q.tail = NULL THEN n ELSE q.head,
   tail |-> n,
   next |-> [m \in DOMAIN q.next |-> IF m = q.tail THEN n ELSE q.next[m]]]
AddTail(q, n) ==
  [head |-> IF q.tail = NULL THEN n ELSE q.head,
   tail |-> n,
   next |-> [m \in DOMAIN q.next |->
               IF m = n THEN NULL ELSE IF m = q.tail THEN n ELSE q.next[m]]]

\* remove_head() of a queue that is not empty; the result is q.head.
\* Mutant: the tail still points to the last node when that is gone.
RemoveHeadOnly(q) == [q EXCEPT !.head = q.next[q.head]]
RemoveHead(q) ==
  [q EXCEPT !.head = q.next[q.head],
            !.tail = IF q.next[q.head] = NULL THEN NULL ELSE @]

\* add_tail(queue_ptr): the nodes from first to last, linked, go to the end.
AddQueue(q, first, last) ==
  [head |-> IF q.tail = NULL THEN first ELSE q.head,
   tail |-> last,
   next |-> [m \in DOMAIN q.next |-> IF m = q.tail THEN first ELSE q.next[m]]]

\* The nodes met by following next from the head; if there is a cycle, as many
\* steps as there are nodes.
Chain(q, max) ==
  LET at[k \in 0..max] ==
        IF k = 0 THEN q.head
        ELSE LET n == at[k - 1] IN IF n = NULL THEN NULL ELSE q.next[n]
      \* how many there are before the first NULL
      len == CHOOSE n \in 0..max :
               (n = max \/ at[n] = NULL) /\ \A k \in 0..(n - 1) : at[k] # NULL
  IN [k \in 1..len |-> at[k - 1]]

=============================================================================
