------------------------------ MODULE MCLocks -------------------------------
(* LockPaths with a few threads and workers that share zone and allocators. *)
EXTENDS LockPaths, TLC

LockSymmetry == Permutations(Threads) \cup Permutations(Workers)

=============================================================================
