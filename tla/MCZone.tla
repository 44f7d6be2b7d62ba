------------------------------- MODULE MCZone -------------------------------
(* PoolZone with a few strings, two zones and a few blocks in each.        *)
EXTENDS PoolZone, TLC

StringSymmetry == Permutations(Strings)

=============================================================================
