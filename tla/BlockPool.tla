----------------------------- MODULE BlockPool ------------------------------
(***************************************************************************)
(* What the allocators promise to those who take blocks from them: a block *)
(* belongs to at most one of them, and one that is returned is given out   *)
(* again after all that wait already.                                      *)
(***************************************************************************)
EXTENDS Naturals, SequencesExt

CONSTANTS Batch, Blocks     \* blocks come in batches; bound: how many there are

VARIABLES waiting, objects, made

vars == <<waiting, objects, made>>

Init == \/ waiting = << >> /\ objects = {} /\ made = 0
        \/ waiting = [i \in 1..Batch |-> i] /\ objects = {} /\ made = 1

Take ==
  /\ waiting # << >>
  /\ objects' = objects \cup {Head(waiting)} /\ waiting' = Tail(waiting)
  /\ UNCHANGED made

TakeNew ==
  /\ waiting = << >> /\ (made + 1) * Batch <= Blocks
  /\ made' = made + 1
  /\ objects' = objects \cup {made * Batch + 1}
  /\ waiting' = [i \in 1..(Batch - 1) |-> made * Batch + 1 + i]

\* One block comes back, or several at once.
Return ==
  /\ objects' \subseteq objects
  /\ \E back \in SetToSeqs(objects \ objects') : waiting' = waiting \o back
  /\ UNCHANGED made

Next == Take \/ TakeNew \/ Return

Spec == Init /\ [][Next]_vars

=============================================================================
