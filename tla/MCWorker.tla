------------------------------ MODULE MCWorker ------------------------------
(***************************************************************************)
(* WorkerController with the accepting thread, the thread of the           *)
(* io_service, and one or two application threads.                         *)
(***************************************************************************)
EXTENDS WorkerController

=============================================================================
