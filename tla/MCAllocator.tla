---------------------------- MODULE MCAllocator ----------------------------
(* BigblockAllocator with a few small caches, as the repository uses it,   *)
(* without a limit, and with one.                                          *)
EXTENDS BigblockAllocator

BothLimits == {-1, 2}

=============================================================================
