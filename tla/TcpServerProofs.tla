--------------------------- MODULE TcpServerProofs ---------------------------
(***************************************************************************)
(* Proofs about TcpServer, for any number of slots, io_services, peers and *)
(* starts: every slot is accounted for, the acceptor and the handlers mean *)
(* the same slot, and no io_service ends under an operation.               *)
(***************************************************************************)
EXTENDS TcpServer, TLAPS

\* Which thread exists in which phase of the server.  Nothing ever resets
\* accepter_service_, so once run() returned it stays stopped.
Phases ==
  /\ backlog <= arrived
  /\ main = "starting" <=> status = "starting"
  /\ main \in {"joining", "deleting"} => status = "running"
  /\ thread # "none" => status = "running" /\ main \in {"idle", "joining"}
  /\ status = "running" /\ main # "deleting" => thread # "none"
  /\ thread = "ended" \/ main = "deleting" => stopped

\* As long as the handlers run there is one accept at most, on the current slot,
\* with an io_service, and it is outstanding only between the handlers.
Accepting ==
  ~stopped => /\ pending \subseteq {current}
              /\ \A s \in pending : serviceOf[s] # Deleted
              /\ thread # "run" /\ main # "starting" => pending = {}

\* The work objects keep the threads of the io_services inside run(); all of
\* them exist until the accepter thread was joined, and no thread runs once it
\* was joined.  Between two runs of the server the sockets have no io_service.
Holding ==
  /\ holders \subseteq serving
  /\ \A i \in serving : i >= joined
  /\ thread # "none" \/ main = "starting" => holders = Services /\ joined = 0
  /\ status \in {"not_ready", "ready"} => \A s \in Slots : serviceOf[s] = Deleted

\* The operations outstanding keep them there, too.
Operating == \A s \in working : serviceOf[s] \in serving

IInv == TypeOK /\ Phases /\ SlotsAccounted /\ Accepting /\ Holding /\ Operating

-----------------------------------------------------------------------------
(* What the parts of several actions do.                                   *)

\* hot_worker_index_ stays an index.
LEMMA GetServiceType ==
  ASSUME NEW h \in Services, GetService(h)
  PROVE  hot' \in Services
BY ServiceAssumption DEF GetService, Services

LEMMA ServicesFacts ==
  /\ 0 \in Services /\ ServiceNum \in Nat
  /\ \A i \in Services : i \in Nat /\ i < ServiceNum /\ i >= 0
  /\ Deleted \notin Services
BY ServiceAssumption DEF Services, Deleted

\* A new accept takes a slot that nobody uses, or none.
LEMMA NewAcceptSlots ==
  ASSUME TypeOK, SlotsAccounted, NEW h \in Services, NewAccept(h), UNCHANGED connVars
  PROVE  /\ SlotsAccounted'
         /\ hot' \in Services /\ current' \in Slots \cup {NoSlot} /\ waited' \in BOOLEAN
         /\ pending' \subseteq Slots /\ allocated' \subseteq Slots
         /\ serviceOf' \in [Slots -> Services \cup {Deleted}]
         /\ pending' \subseteq pending \cup {current'}
         /\ \A s \in pending' :
              \/ s \in pending /\ serviceOf'[s] = serviceOf[s]
              \/ serviceOf'[s] # Deleted
         /\ \A s \in working : serviceOf'[s] = serviceOf[s]
<1>1. hot' \in Services /\ hot' # Deleted /\ workers' = workers /\ working \subseteq workers
  BY GetServiceType, ServicesFacts DEF NewAccept, connVars, TypeOK
<1>2. CASE \E s \in Slots \ allocated :
             /\ allocated' = allocated \cup {s}
             /\ serviceOf' = [serviceOf EXCEPT ![s] = hot']
             /\ current' = s /\ pending' = pending \cup {s}
             /\ UNCHANGED waited
  BY <1>1, <1>2 DEF TypeOK, SlotsAccounted
<1>3. CASE /\ current' = NoSlot /\ waited' = TRUE
           /\ UNCHANGED <<pending, allocated, serviceOf>>
  BY <1>1, <1>3 DEF TypeOK, SlotsAccounted
<1> QED
  BY <1>2, <1>3 DEF NewAccept

-----------------------------------------------------------------------------
(* Every step keeps the invariant.                                         *)

LEMMA StartInv ==
  ASSUME IInv, Start
  PROVE  IInv'
<1> USE DEF IInv
<1>1. /\ status = "ready" /\ main = "idle" /\ status' = "starting" /\ main' = "starting"
      /\ starts' \in 0..MaxStarts /\ asked' \in {"never", "before"}
      /\ CreateServices /\ NewAccept(0)
      /\ UNCHANGED <<stop_signal, stopping, stopped, thread, connVars, backlog, arrived>>
  BY ServerAssumption DEF Start, TypeOK
<1>2. /\ SlotsAccounted'
      /\ hot' \in Services /\ current' \in Slots \cup {NoSlot} /\ waited' \in BOOLEAN
      /\ pending' \subseteq Slots /\ allocated' \subseteq Slots
      /\ serviceOf' \in [Slots -> Services \cup {Deleted}]
      /\ pending' \subseteq pending \cup {current'}
      /\ \A s \in pending' :
              \/ s \in pending /\ serviceOf'[s] = serviceOf[s]
              \/ serviceOf'[s] # Deleted
  BY <1>1, ServicesFacts, NewAcceptSlots
<1>3. TypeOK'
  BY <1>1, <1>2, ServicesFacts DEF TypeOK, ServiceTypeOK, CreateServices, connVars
<1>4. Phases' /\ thread = "none"
  BY <1>1 DEF Phases
<1>5. Accepting'
  BY <1>1, <1>2, <1>4 DEF Accepting
<1>6. Holding'
  BY <1>1, <1>4, ServicesFacts DEF Holding, CreateServices
<1>7. Operating'
  <2>1. \A s \in working : serviceOf[s] = Deleted /\ serviceOf[s] \in Services
    BY <1>1 DEF Holding, Operating, TypeOK, ServiceTypeOK
  <2> QED
    BY <1>1, <2>1, ServicesFacts DEF Operating, connVars
<1> QED
  BY <1>2, <1>3, <1>4, <1>5, <1>6, <1>7

\* accept_handler gives the slot whose accept completed to a worker, or back.
LEMMA AcceptInv ==
  ASSUME IInv, AcceptSucceeds \/ AcceptFails
  PROVE  IInv'
<1> USE DEF IInv
<1>1. /\ thread = "run" /\ ~stopped /\ thread' = "handler"
      /\ UNCHANGED <<status, stop_signal, stopping, stopped, main, current, waited,
                     closed, serviceOf, serviceVars, arrived, starts, asked>>
      /\ \E s \in pending : pending' = pending \ {s}
      /\ backlog' \in {backlog, backlog - 1} /\ (backlog' # backlog => backlog > 0)
      /\ \/ /\ workers' = workers \cup {current} /\ UNCHANGED allocated
            /\ working' \in {working, working \cup {current}}
         \/ allocated' = allocated \ {current} /\ UNCHANGED <<workers, working>>
  BY DEF AcceptSucceeds, AcceptFails, connVars
<1>2. pending = {current} /\ current \in Slots /\ pending' = {}
  BY <1>1 DEF Accepting, TypeOK
<1>3. SlotsAccounted' /\ workers' \subseteq workers \cup {current}
      /\ allocated' \subseteq Slots /\ workers' \subseteq Slots
      /\ working' \cup closed' \subseteq workers' /\ working' \cap closed' = {}
      /\ working' \subseteq working \cup {current}
  BY <1>1, <1>2 DEF SlotsAccounted, TypeOK
<1>4. backlog' \in 0..MaxClients /\ backlog' <= arrived
  BY <1>1, ServerAssumption DEF TypeOK, Phases
<1>5. TypeOK'
  BY <1>1, <1>2, <1>3, <1>4 DEF TypeOK, ServiceTypeOK, serviceVars
<1>6. Phases'
  BY <1>1, <1>4 DEF Phases
<1>7. Accepting' /\ Holding'
  BY <1>1, <1>2 DEF Accepting, Holding, serviceVars
<1>8. Operating'
  <2>1. holders = Services /\ serviceOf[current] \in Services
    BY <1>1, <1>2 DEF Holding, Accepting, TypeOK
  <2>2. serviceOf[current] \in serving
    BY <2>1 DEF Holding
  <2> QED
    BY <1>1, <1>3, <2>2 DEF Operating, serviceVars
<1> QED
  BY <1>3, <1>5, <1>6, <1>7, <1>8

LEMMA AcceptAgainInv ==
  ASSUME IInv, AcceptAgain
  PROVE  IInv'
<1> USE DEF IInv
<1>1. /\ thread = "handler" /\ thread' = "run"
      /\ IF stop_signal THEN UNCHANGED <<slotVars, hot>> ELSE NewAccept(hot)
      /\ UNCHANGED <<status, stop_signal, stopping, stopped, main, connVars, holders,
                     serving, joined, backlog, arrived, starts, asked>>
  BY DEF AcceptAgain
<1>2. Phases' /\ Holding'
  BY <1>1 DEF Phases, Holding
<1>3. CASE stop_signal
  <2>1. UNCHANGED <<current, pending, waited, allocated, serviceOf, hot>>
    BY <1>1, <1>3 DEF slotVars
  <2> QED
    BY <1>1, <1>2, <2>1 DEF TypeOK, ServiceTypeOK, SlotsAccounted, Accepting, Operating, connVars
<1>4. CASE ~stop_signal
  <2>1. /\ SlotsAccounted'
        /\ hot' \in Services /\ current' \in Slots \cup {NoSlot} /\ waited' \in BOOLEAN
        /\ pending' \subseteq Slots /\ allocated' \subseteq Slots
        /\ serviceOf' \in [Slots -> Services \cup {Deleted}]
        /\ pending' \subseteq pending \cup {current'}
        /\ \A s \in pending' :
              \/ s \in pending /\ serviceOf'[s] = serviceOf[s]
              \/ serviceOf'[s] # Deleted
        /\ \A s \in working : serviceOf'[s] = serviceOf[s]
    BY <1>1, <1>4, NewAcceptSlots DEF TypeOK, ServiceTypeOK
  <2>2. TypeOK'
    BY <1>1, <2>1 DEF TypeOK, ServiceTypeOK, connVars
  <2>3. Accepting'
    BY <1>1, <2>1 DEF Accepting, Phases
  <2>4. Operating'
    BY <1>1, <2>1 DEF Operating, connVars
  <2> QED
    BY <1>2, <2>1, <2>2, <2>3, <2>4
<1> QED
  BY <1>3, <1>4

\* The steps of ~asio_multithread_service, and the ends of its threads.
LEMMA ServiceInv ==
  ASSUME IInv,
         \/ main = "deleting" /\ (DeleteHolder \/ JoinService)
         \/ \E i \in Services : ServiceReturns(i, Busy),
         UNCHANGED <<status, stop_signal, stopping, stopped, main, thread, slotVars,
                     connVars, backlog, arrived, starts, asked>>
  PROVE  IInv'
<1> USE DEF IInv
<1>1. UNCHANGED <<current, pending, waited, allocated, serviceOf, workers, working, closed>>
  BY DEF slotVars, connVars
<1>2. Phases' /\ SlotsAccounted' /\ Accepting'
  BY <1>1 DEF Phases, SlotsAccounted, Accepting
<1>3. TypeOK'
  <2>1. /\ hot' = hot /\ holders' \subseteq holders /\ serving' \subseteq serving
        /\ joined' = joined \/ (joined < ServiceNum /\ joined' = joined + 1)
    BY DEF DeleteHolder, JoinService, ServiceReturns
  <2>2. joined' \in 0..ServiceNum
    BY <2>1, ServicesFacts DEF TypeOK, ServiceTypeOK
  <2> QED
    BY <1>1, <2>1, <2>2 DEF TypeOK, ServiceTypeOK
<1>4. Holding'
  <2>1. CASE main = "deleting" /\ DeleteHolder
    BY <2>1 DEF Holding, Phases, DeleteHolder
  <2>3. CASE main = "deleting" /\ JoinService
    <3>1. \A i \in serving : i >= joined /\ i # joined /\ i \in Nat /\ joined \in Nat
      BY <2>3, ServicesFacts DEF Holding, JoinService, TypeOK, ServiceTypeOK
    <3>2. \A i \in serving' : i >= joined'
      BY <2>3, <3>1 DEF JoinService
    <3> QED
      BY <1>1, <2>3, <3>2 DEF Holding, Phases, JoinService
  <2>2. CASE \E i \in Services : ServiceReturns(i, Busy)
    BY <1>1, <2>2 DEF Holding, ServiceReturns
  <2> QED
    BY <2>1, <2>2, <2>3
<1>5. Operating'
  BY <1>1 DEF Operating, DeleteHolder, JoinService, ServiceReturns, Busy
<1> QED
  BY <1>2, <1>3, <1>4, <1>5

\* A connection that works or is idle, is closed, and ends at last, when it gives
\* its slot back, which is not the acceptor's.
LEMMA ConnectionInv ==
  ASSUME IInv, NEW s \in Slots, Rest(s) \/ Resume(s) \/ Close(s) \/ DestroyWorker(s)
  PROVE  IInv'
<1> USE DEF IInv
<1>1. /\ s \in workers
      /\ UNCHANGED <<status, stop_signal, stopping, stopped, main, thread, current,
                     pending, waited, serviceOf, serviceVars, backlog, arrived, starts, asked>>
  BY DEF TypeOK, Rest, Resume, Close, DestroyWorker, slotVars
<1>2. \/ UNCHANGED <<workers, allocated>>
      \/ workers' = workers \ {s} /\ allocated' = allocated \ {s}
  BY DEF Rest, Resume, Close, DestroyWorker, slotVars
<1>3. SlotsAccounted' /\ workers' \subseteq Slots /\ allocated' \subseteq Slots
  BY <1>1, <1>2 DEF SlotsAccounted, TypeOK
<1>4. working' \cup closed' \subseteq workers' /\ working' \cap closed' = {}
  BY <1>1 DEF TypeOK, Rest, Resume, Close, DestroyWorker
<1>5. TypeOK'
  BY <1>1, <1>3, <1>4 DEF TypeOK, ServiceTypeOK, serviceVars
<1>6. Phases' /\ Accepting' /\ Holding'
  BY <1>1 DEF Phases, Accepting, Holding, serviceVars
<1>7. \A w \in working' : w \in working \/ serviceOf[w] \in serving
  BY DEF Rest, Resume, Close, DestroyWorker
<1>8. Operating'
  BY <1>1, <1>7 DEF Operating, serviceVars
<1> QED
  BY <1>3, <1>5, <1>6, <1>8

\* ~asio_multithread_service deletes the io_services when no thread is left in
\* them, and so when no operation is.
LEMMA JoinedInv ==
  ASSUME IInv, Joined
  PROVE  IInv'
<1> USE DEF IInv
<1>1. /\ main = "deleting" /\ joined = ServiceNum /\ main' = "idle" /\ status' = "ready"
      /\ serviceOf' = [s \in Slots |-> Deleted]
      /\ UNCHANGED <<stop_signal, stopping, stopped, thread, current, pending, waited, allocated,
                     connVars, serviceVars, backlog, arrived, starts, asked>>
  BY DEF Joined
<1>2. serving = {}
  <2>1. \A i \in serving : i \in Nat /\ i < ServiceNum /\ i >= ServiceNum
    BY <1>1, ServicesFacts DEF Holding, TypeOK, ServiceTypeOK
  <2> QED
    BY <2>1, ServicesFacts
<1>3. working = {}
  BY <1>2 DEF Operating
<1>4. TypeOK'
  BY <1>1 DEF TypeOK, ServiceTypeOK, serviceVars, connVars
<1>5. stopped /\ thread = "none"
  BY <1>1 DEF Phases
<1>6. Phases' /\ SlotsAccounted' /\ Accepting'
  BY <1>1, <1>5 DEF Phases, SlotsAccounted, Accepting, connVars
<1>7. Holding' /\ Operating'
  BY <1>1, <1>3, <1>5 DEF Holding, Operating, connVars, serviceVars
<1> QED
  BY <1>4, <1>6, <1>7

\* The steps that only change what the application's thread, the accepter thread
\* and the peers are doing.
LEMMA SameSlots ==
  ASSUME IInv, UNCHANGED <<current, pending, allocated, connVars, serviceOf, serviceVars>>,
         stopped => stopped',
         ~stopped' /\ thread' # "run" /\ main' # "starting" => thread # "run" /\ main # "starting",
         thread' # "none" \/ main' = "starting" => thread # "none" \/ main = "starting",
         status' \in {"not_ready", "ready"} => status \in {"not_ready", "ready"}
  PROVE  SlotsAccounted' /\ Accepting' /\ Holding' /\ Operating'
BY DEF IInv, SlotsAccounted, Accepting, Holding, Operating, serviceVars, connVars

LEMMA ControlInv ==
  ASSUME IInv,
         \/ SetBindAddress \/ Started \/ StopSignal \/ StopService \/ Join \/ JoinAccepter
         \/ AfterAcceptWait \/ RunReturns \/ PeerConnects
  PROVE  IInv'
<1>1. UNCHANGED <<current, pending, allocated, connVars, serviceOf, serviceVars>>
  BY DEF SetBindAddress, Started, StopSignal, StopService, Join, JoinAccepter,
         AfterAcceptWait, RunReturns, PeerConnects, slotVars
<1>2. Phases'
  BY DEF IInv, Phases, SetBindAddress, Started, StopSignal, StopService, Join, JoinAccepter,
         AfterAcceptWait, RunReturns, PeerConnects, TypeOK
<1>3. TypeOK'
  <2>1. backlog' \in 0..MaxClients /\ arrived' \in 0..MaxClients
    BY ServerAssumption DEF IInv, TypeOK, Phases, SetBindAddress, Started, StopSignal, StopService,
           Join, JoinAccepter, AfterAcceptWait, RunReturns, PeerConnects
  <2>2. status' \in {"not_ready", "ready", "starting", "running"}
        /\ main' \in {"idle", "starting", "joining", "deleting"}
        /\ thread' \in {"none", "run", "handler", "ended"}
        /\ asked' \in {"never", "before", "since"} /\ starts' = starts
    BY DEF IInv, TypeOK, SetBindAddress, Started, StopSignal, StopService, Join, JoinAccepter,
           AfterAcceptWait, RunReturns, PeerConnects
  <2>3. stop_signal' \in BOOLEAN /\ stopping' \in BOOLEAN /\ stopped' \in BOOLEAN
        /\ waited' \in BOOLEAN
    BY DEF IInv, TypeOK, SetBindAddress, Started, StopSignal, StopService, Join, JoinAccepter,
           AfterAcceptWait, RunReturns, PeerConnects, slotVars
  <2> QED
    BY <1>1, <2>1, <2>2, <2>3 DEF IInv, TypeOK, ServiceTypeOK, serviceVars, connVars
<1>4. SlotsAccounted' /\ Accepting' /\ Holding' /\ Operating'
  BY <1>1, SameSlots DEF IInv, Phases, SetBindAddress, Started, StopSignal, StopService, Join,
         JoinAccepter, AfterAcceptWait, RunReturns, PeerConnects
<1> QED
  BY <1>2, <1>3, <1>4 DEF IInv

LEMMA NextInv == ASSUME IInv, [Next]_vars PROVE IInv'
<1>1. CASE StopServices \/ \E i \in Services : ThreadReturns(i)
  BY <1>1, ServiceInv DEF StopServices, ThreadReturns
<1>2. CASE UNCHANGED vars
  BY <1>2 DEF IInv, TypeOK, ServiceTypeOK, Phases, SlotsAccounted, Accepting, Holding,
              Operating, vars, slotVars, connVars, serviceVars
<1> QED
  BY <1>1, <1>2, StartInv, AcceptInv, AcceptAgainInv, ConnectionInv, JoinedInv, ControlInv DEF Next

LEMMA InitInv == Init => IInv
<1> SUFFICES ASSUME Init PROVE IInv
  OBVIOUS
<1>1. TypeOK
  <2>1. serviceOf \in [Slots -> Services \cup {Deleted}] /\ ServiceTypeOK
    BY ServicesFacts DEF Init, ServiceTypeOK, NoServices
  <2>2. backlog \in 0..MaxClients /\ arrived \in 0..MaxClients /\ starts \in 0..MaxStarts
    BY ServerAssumption DEF Init
  <2> QED
    BY <2>1, <2>2 DEF Init, TypeOK
<1> QED
  BY <1>1 DEF Init, NoServices, IInv, Phases, SlotsAccounted, Accepting, Holding, Operating

THEOREM Invariance == Spec => []IInv
<1>1. IInv /\ [Next]_vars => IInv'
  BY NextInv
<1> QED
  BY <1>1, InitInv, PTL DEF Spec

-----------------------------------------------------------------------------
(* What follows from it.                                                   *)

\* The server and its io_services keep their variables in range.
THEOREM TypeCorrect == Spec => []TypeOK
BY Invariance, PTL DEF IInv

\* accept_handler leaks no asio_tcp_data and gives none back twice, whichever of
\* its paths are taken and whenever the server is stopped and started again.
THEOREM NoSlotLeaks == Spec => []SlotsAccounted
BY Invariance, PTL DEF IInv

\* A handler that may run finds the slot whose accept completed in
\* current_tcp_data_ptr_, although nothing hands it that slot.
THEOREM HandlerHasItsSlot == Spec => []AcceptedIsCurrent
<1>1. IInv => AcceptedIsCurrent
  BY DEF IInv, Accepting, AcceptedIsCurrent
<1> QED
  BY <1>1, Invariance, PTL

\* Until join() deletes the io_services every socket has one with a thread, for
\* any number of io_services and connections; and then, too, none ends or goes
\* from under an operation.
THEOREM ServiceOutlivesOperations == Spec => []ServicesOutlive
<1>1. ASSUME IInv, main # "deleting", NEW s \in pending \cup workers
      PROVE  serviceOf[s] \in serving \cup {Deleted}
  <2>1. s \in Slots /\ serviceOf[s] \in Services \cup {Deleted}
    BY <1>1 DEF IInv, TypeOK
  <2>2. CASE status \in {"not_ready", "ready"}
    BY <1>1, <2>1, <2>2 DEF IInv, Holding
  <2>3. CASE status \in {"starting", "running"}
    <3>1. thread # "none" \/ main = "starting"
      BY <1>1, <2>3 DEF IInv, Phases
    <3> QED
      BY <1>1, <2>1, <3>1 DEF IInv, Holding
  <2> QED
    BY <1>1, <2>2, <2>3 DEF IInv, TypeOK
<1>2. IInv => ServicesOutlive
  BY <1>1 DEF IInv, Operating, ServicesOutlive
<1> QED
  BY <1>2, Invariance, PTL
=============================================================================
