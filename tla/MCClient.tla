------------------------------ MODULE MCClient ------------------------------
(***************************************************************************)
(* TcpClientWorker with its owner, the thread of the io_service and one    *)
(* application thread.                                                     *)
(***************************************************************************)
EXTENDS TcpClientWorker

=============================================================================
