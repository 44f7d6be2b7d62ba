------------------------------ MODULE MCServer ------------------------------
(* TcpServer with one application thread, one that stops the server, and   *)
(* the few slots, io_services and peers that the configurations give.      *)
EXTENDS TcpServer, TLC

SlotSymmetry == Permutations(Slots)

=============================================================================
