----------------------------- MODULE ByteQueue -----------------------------
(***************************************************************************)
(* What a pool_string promises: it is a queue of bytes.  Bytes come out in *)
(* the order they went in, as many as were asked for or all there are.  A  *)
(* string that finds no memory for its first block takes none of the bytes *)
(* of the call and stays as it was; one that finds none in the middle of a *)
(* call is broken, and promises nothing until it is cleared.               *)
(***************************************************************************)
EXTENDS Naturals, Sequences

CONSTANTS Strings, AppendSizes, PopSizes

VARIABLES
  content,     \* the bytes in each string
  count,       \* how many bytes were appended to each string, which numbers them
  taken,       \* the bytes the last pop of each string returned
  broken       \* the strings that found no memory in the middle of an append

vars == <<content, count, taken, broken>>

Init ==
  /\ content = [s \in Strings |-> << >>] /\ taken = [s \in Strings |-> << >>]
  /\ count = [s \in Strings |-> 0] /\ broken = {}

Put(s) ==
  /\ s \notin broken
  /\ \E n \in AppendSizes :
       LET d == [i \in 1..n |-> count[s] + i]
       IN  /\ content' = [content EXCEPT ![s] = @ \o d]
           /\ count' = [count EXCEPT ![s] = @ + n]
  /\ UNCHANGED <<taken, broken>>

Break(s) ==
  /\ s \notin broken
  /\ \E n \in AppendSizes : count' = [count EXCEPT ![s] = @ + n]
  /\ content' = [content EXCEPT ![s] = << >>]
  /\ broken' = broken \cup {s}
  /\ UNCHANGED taken

Take(s) ==
  /\ s \notin broken
  /\ \E n \in PopSizes :
       LET k == IF n < Len(content[s]) THEN n ELSE Len(content[s])
       IN  /\ taken' = [taken EXCEPT ![s] = SubSeq(content[s], 1, k)]
           /\ content' = [content EXCEPT ![s] = SubSeq(@, k + 1, Len(@))]
  /\ UNCHANGED <<count, broken>>

Clear(s) ==
  /\ content' = [content EXCEPT ![s] = << >>]
  /\ broken' = broken \ {s}
  /\ count' = [count EXCEPT ![s] = 0] /\ taken' = [taken EXCEPT ![s] = << >>]

Next == \E s \in Strings : Put(s) \/ Break(s) \/ Take(s) \/ Clear(s)

Spec == Init /\ [][Next]_vars

=============================================================================
