------------------------------- MODULE MCPool -------------------------------
(* PoolString with blocks so small that a few bytes fill several.          *)
EXTENDS PoolString, TLC

StringSymmetry == Permutations(Strings)

=============================================================================
