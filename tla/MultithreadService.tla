------------------------- MODULE MultithreadService -------------------------
(***************************************************************************)
(* asio_multithread_service: io_services with a thread each, which runs    *)
(* its io_service until that has neither the work object that holds it nor *)
(* an operation outstanding.  Who uses the io_services says which of them  *)
(* have one.                                                               *)
(***************************************************************************)
EXTENDS Naturals

CONSTANT ServiceNum     \* worker_service_num_

ASSUME ServiceAssumption == ServiceNum \in Nat \ {0}

Services == 0..(ServiceNum - 1)

VARIABLES
  hot,          \* hot_worker_index_
  holders,      \* the io_services whose work object exists
  serving,      \* the io_services whose thread is inside run()
  joined        \* the io_services below this index were joined by stop()

serviceVars == <<hot, holders, serving, joined>>

\* Before there is one.
NoServices ==
  /\ hot = 0 /\ holders = {} /\ serving = {} /\ joined = ServiceNum

\* The constructor, but for hot_worker_index_, which becomes 0.
\* Mutant: without the work objects.
CreateIdle     == holders' = {} /\ serving' = Services /\ joined' = 0
CreateServices == holders' = Services /\ serving' = Services /\ joined' = 0

\* get_service, round robin downwards from index h.  Mutant: it tests for 0
\* after the step down.
GetServicePast(h) == hot' = (IF h = 0 THEN ServiceNum ELSE h - 1)
GetService(h) == hot' = (IF h = 0 THEN ServiceNum ELSE h) - 1

\* stop, for each io_service in turn: the work object is deleted ...
DeleteHolder ==
  /\ joined \in holders
  /\ holders' = holders \ {joined}
  /\ UNCHANGED <<hot, serving, joined>>

\* ... and the thread joined, which returns by itself.
JoinService ==
  /\ joined < ServiceNum /\ joined \notin holders /\ joined \notin serving
  /\ joined' = joined + 1
  /\ UNCHANGED <<hot, holders, serving>>

\* run() of io_service i returns when nothing is left to do.
ServiceReturns(i, busy) ==
  /\ i \in serving /\ i \notin holders /\ i \notin busy
  /\ serving' = serving \ {i}
  /\ UNCHANGED <<hot, holders, joined>>

ServiceTypeOK ==
  /\ hot \in Services /\ joined \in 0..ServiceNum
  /\ holders \subseteq Services /\ serving \subseteq Services

=============================================================================
