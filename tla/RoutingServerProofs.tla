-------------------------- MODULE RoutingServerProofs --------------------------
(***************************************************************************)
(* Proofs about RoutingServer for every number of requests, snapshots,     *)
(* directories and workers.                                                *)
(*                                                                         *)
(* First, the server only ever takes steps of routing.Service or leaves it *)
(* alone, so the invariant of RoutingServiceProofs holds in it.  From that *)
(* and three invariants of the surroundings, about admission, about who    *)
(* may be inside Replace or Close, and about what the watcher has found,   *)
(* follow the safety properties of the server.                             *)
(***************************************************************************)
EXTENDS RoutingServer, RoutingServiceProofs

\* A request is inside RoutingAdmission as long as it is inside the service,
\* and no more than Workers requests are.
AdmissionInv ==
  /\ admitted \subseteq Requests
  /\ Cardinality(admitted) <= Workers
  /\ stage \in [Requests -> {"out", "admitted", "encoded"}]
  /\ answer \in [Requests -> {"none", "limited", "invalid", "busy", "unavailable", "served"}]
  /\ \A r \in Requests : r \in admitted <=> stage[r] # "out"
  /\ \A r \in Requests : pc[r] # "idle" => stage[r] = "admitted"
  /\ \A r \in Requests : answer[r] # "busy"
  /\ \A r \in Requests : answer[r] = "unavailable" => closed

\* Who holds `replacement`, and that MAIN closes the service after the watcher.
ControllerInv ==
  /\ watching \in {"asleep", "replacing", "loading", "stopped"}
  /\ phase \in {"serving", "draining", "joining", "closing", "exited"}
  /\ accepting \in BOOLEAN
  /\ watching = "loading" <=> replacement = WATCHER
  /\ phase = "closing" <=> replacement = MAIN
  /\ closed <=> phase \in {"closing", "exited"}
  /\ closed => watching = "stopped"

\* What the watcher has found, and how far it has come with it.
WatchInv ==
  /\ selection \in Contents
  /\ last \in Directories \cup {EMPTY}
  /\ seen \in Contents
  /\ directory \in [Snapshots -> Directories]
  /\ last \in Directories => seen = last
  /\ watching \in {"replacing", "loading"} => last \in Directories

\* The diagnostic tells whether the replacement that is over succeeded.
HealthInv ==
  phase = "serving" =>
    /\ watching = "asleep" /\ seen \in Directories =>
         (reloadError <=> directory[snapshot] # seen)
    /\ watching = "replacing" => directory[snapshot] # last
    /\ watching = "loading" /\ next # NONE =>
         directory[next] = last /\ directory[snapshot] # last
    /\ watching = "loading" /\ next = NONE => (reloadError <=> directory[snapshot] # last)

-----------------------------------------------------------------------------
(* The server is a user of the service.                                    *)

\* Every step of the server is a step of the service or leaves it unchanged.
LEMMA StepOfTheService ==
  ASSUME reloadError \in BOOLEAN, ServerNext
  PROVE  (Next \/ UNCHANGED vars) /\ reloadError' \in BOOLEAN
  <1>1. WATCHER \in Controllers /\ MAIN \in Controllers
    BY ControllersAssumption
  <1>2. ASSUME NEW r \in Requests, Arrive(r) \/ RefuseInput(r) \/ AcquireRefused(r) \/ Leave(r)
        PROVE  UNCHANGED vars
    BY <1>2 DEF Arrive, RefuseInput, AcquireRefused, Leave
  <1>3. ASSUME NEW r \in Requests, AcquireSlot(r) \/ AcquireReader(r) \/ CloseLease(r)
        PROVE  (TakeSlot(r) \/ RequestStep(r)) /\ reloadError' = reloadError
    BY <1>3 DEF AcquireSlot, AcquireReader, CloseLease, RequestStep, TakeSlot, TakeReader,
       ReturnReader, EndLease, ReturnSlot
  <1>4. CASE Tick
    <2>1. reloadError' \in BOOLEAN
      BY <1>4 DEF Tick
    <2>2. RecordSelectionError
      BY <1>4, <2>1 DEF Tick, RecordSelectionError
    <2>3. QED
      BY <2>1, <2>2 DEF Next
  <1>5. CASE ReplaceStep
    <2>1. BeginReplace(WATCHER) \/ ReplacementStep(WATCHER)
      BY <1>5 DEF ReplaceStep, WatcherReplaces, WatcherLoads, WatcherReturns, ReplacementStep
    <2>2. reloadError' \in {reloadError, TRUE, FALSE}
      BY <2>1 DEF BeginReplace, ReplacementStep, LoadReader, FailLoad, Abandon, Publish,
         CloseReader, FinishRetiring
    <2>3. QED
      BY <1>1, <2>1, <2>2 DEF Next
  <1>6. CASE CloseRouter \/ FinishClosing
    <2>1. BeginClose(MAIN) \/ ReplacementStep(MAIN)
      BY <1>6 DEF CloseRouter, FinishClosing, ReplacementStep
    <2>2. reloadError' = reloadError
      BY <1>6 DEF CloseRouter, FinishClosing, BeginClose, CloseReader, FinishRetiring
    <2>3. QED
      BY <1>1, <2>1, <2>2 DEF Next
  <1>7. CASE WatcherStops \/ Signal \/ ListenerFails \/ EndDrain \/ SelectionChange
    BY <1>7 DEF WatcherStops, Signal, ListenerFails, EndDrain, SelectionChange, vars
  <1>8. UNCHANGED vars => reloadError' = reloadError
    BY DEF vars
  <1>9. QED
    BY <1>2, <1>3, <1>4, <1>5, <1>6, <1>7, <1>8 DEF ServerNext, HandlerStep, Next

\* Whatever routing.Service guarantees its callers, it guarantees the server.
THEOREM ServerUsesTheService == ServerSpec => UsesTheService
  <1>1. ServerInit => Init /\ reloadError \in BOOLEAN
    BY DEF ServerInit, Init
  <1>2. UNCHANGED serverVars => UNCHANGED vars /\ reloadError' = reloadError
    BY DEF serverVars, vars
  <1>3. reloadError \in BOOLEAN /\ [ServerNext]_serverVars =>
          [Next]_vars /\ (reloadError \in BOOLEAN)'
    BY <1>2, StepOfTheService
  <1>4. QED
    BY <1>1, <1>3, PTL DEF ServerSpec, UsesTheService, Spec

\* In particular the inductive invariant of the service.
COROLLARY ServiceInvariant == ServerSpec => []IInv
  BY ServerUsesTheService, InductiveInvariant, PTL DEF UsesTheService

\* What holds in every reachable state of the server.
ServerIInv == IInv /\ AdmissionInv /\ ControllerInv /\ WatchInv /\ HealthInv

-----------------------------------------------------------------------------
(* Frames: what requests leave alone, and what everybody else does.        *)

\* A request changes nothing the watcher and the main goroutine look at.
LEMMA RequestFrame ==
  ASSUME NEW r \in Requests, Arrive(r) \/ HandlerStep(r)
  PROVE  UNCHANGED <<snapshot, closed, reloadError, replacement, next, retiring, selection,
                     watchVars, mainVars>>
  <1>1. ASSUME Arrive(r) \/ RefuseInput(r) \/ AcquireRefused(r) \/ Leave(r)
        PROVE  UNCHANGED <<vars, selection, watchVars, mainVars>>
    BY <1>1 DEF Arrive, RefuseInput, AcquireRefused, Leave
  <1>2. ASSUME AcquireSlot(r) \/ AcquireReader(r) \/ CloseLease(r)
        PROVE  UNCHANGED <<snapshot, closed, reloadError, replacement, next, retiring,
                           selection, watchVars, mainVars>>
    BY <1>2 DEF AcquireSlot, AcquireReader, CloseLease, TakeSlot, TakeReader, ReturnReader,
       EndLease, ReturnSlot, surroundings, loadVars
  <1>3. QED
    BY <1>1, <1>2 DEF HandlerStep, vars

\* The watcher, the main goroutine and the file leave the requests alone, and
\* a closed service stays closed.
LEMMA ControllerFrame ==
  ASSUME \/ Tick \/ ReplaceStep \/ WatcherStops \/ Signal \/ ListenerFails \/ EndDrain
         \/ CloseRouter \/ FinishClosing \/ SelectionChange
  PROVE  UNCHANGED <<httpVars, pc>> /\ (closed => closed')
  <1>1. CASE WatcherStops \/ Signal \/ ListenerFails \/ EndDrain \/ SelectionChange
    BY <1>1 DEF WatcherStops, Signal, ListenerFails, EndDrain, SelectionChange, vars
  <1>2. CASE Tick
    BY <1>2 DEF Tick
  <1>3. CASE ReplaceStep
    BY <1>3 DEF ReplaceStep, WatcherReplaces, WatcherLoads, WatcherReturns, BeginReplace,
       LoadReader, FailLoad, Abandon, Publish, CloseReader, FinishRetiring, surroundings
  <1>4. CASE CloseRouter \/ FinishClosing
    BY <1>4 DEF CloseRouter, FinishClosing, BeginClose, CloseReader, FinishRetiring,
       surroundings
  <1>5. QED
    BY <1>1, <1>2, <1>3, <1>4

-----------------------------------------------------------------------------
(* Admission.                                                              *)

\* The budgets are nested: a request that admission let in and that is not yet
\* inside the service leaves a token in the service.
LEMMA TokenForTheAdmitted ==
  ASSUME IInv, AdmissionInv, NEW r \in Requests, stage[r] = "admitted", pc[r] = "idle"
  PROVE  slots > 0
  <1>1. Holders \subseteq admitted \ {r} /\ r \in admitted
    BY DEF AdmissionInv, Holders
  <1>2. IsFiniteSet(admitted)
    BY RequestsAssumption, FS_Subset DEF AdmissionInv
  <1>3. IsFiniteSet(admitted \ {r}) /\ Cardinality(admitted \ {r}) = Cardinality(admitted) - 1
    BY <1>1, <1>2, FS_RemoveElement
  <1>4. Cardinality(Holders) <= Cardinality(admitted \ {r})
    BY <1>1, <1>3, FS_Subset
  <1>5. Cardinality(Holders) \in Nat /\ Cardinality(admitted) \in Nat
    BY <1>1, <1>2, <1>3, FS_Subset, FS_CardinalityType
  <1>6. slots + Cardinality(Holders) = Workers /\ Cardinality(admitted) <= Workers
    BY DEF IInv, SlotCount, AdmissionInv
  <1>7. slots \in Int
    BY DEF IInv, TypeOK
  <1>8. QED
    BY <1>3, <1>4, <1>5, <1>6, <1>7, WorkersAssumption

\* RoutingAdmission keeps its budget and its place around the lease.
LEMMA AdmissionKept ==
  ASSUME IInv, AdmissionInv, ServerNext
  PROVE  AdmissionInv'
  <1>1. ASSUME NEW r \in Requests, Arrive(r) PROVE AdmissionInv'
    <2>1. CASE Cardinality(admitted) < Workers
      <3>1. IsFiniteSet(admitted) /\ r \notin admitted
        BY <1>1, RequestsAssumption, FS_Subset DEF Arrive, AdmissionInv
      <3>2. Cardinality(admitted \cup {r}) <= Workers
        BY <2>1, <3>1, CountUp, WorkersAssumption
      <3>3. admitted' = admitted \cup {r} /\ Answer(r, "admitted", "none")
            /\ pc' = pc /\ closed' = closed
        BY <1>1, <2>1 DEF Arrive, vars
      <3>4. QED
        BY <3>2, <3>3 DEF AdmissionInv, Answer
    <2>2. CASE ~(Cardinality(admitted) < Workers)
      <3>1. /\ admitted' = admitted /\ Answer(r, "out", "limited") /\ stage[r] = "out"
            /\ pc' = pc /\ closed' = closed
        BY <1>1, <2>2 DEF Arrive, vars
      <3>2. QED
        BY <3>1 DEF AdmissionInv, Answer
    <2>3. QED
      BY <2>1, <2>2
  <1>2. ASSUME NEW r \in Requests, RefuseInput(r) PROVE AdmissionInv'
    BY <1>2 DEF RefuseInput, AdmissionInv, Answer, vars
  <1>3. ASSUME NEW r \in Requests, AcquireSlot(r) PROVE AdmissionInv'
    BY <1>3 DEF AcquireSlot, TakeSlot, AdmissionInv, surroundings, httpVars
  <1>4. ASSUME NEW r \in Requests, AcquireReader(r) PROVE AdmissionInv'
    <2>1. available[snapshot] # {}
      BY <1>4, IInvImpliesTokenBacksReader DEF AcquireReader, TakeReader, TokenBacksReader
    <2>2. QED
      BY <1>4, <2>1 DEF AcquireReader, TakeReader, AdmissionInv, IInv, TypeOK
  <1>5. ASSUME NEW r \in Requests, AcquireRefused(r) PROVE AdmissionInv'
    <2>1. snapshot = NONE
      BY <1>5, TokenForTheAdmitted DEF AcquireRefused, IInv, TypeOK
    <2>2. closed
      BY <2>1 DEF IInv, ControlInv
    <2>3. QED
      BY <1>5, <2>1, <2>2 DEF AcquireRefused, AdmissionInv, Answer, vars
  <1>6. ASSUME NEW r \in Requests, CloseLease(r) PROVE AdmissionInv'
    <2>1. CASE ReturnReader(r) /\ UNCHANGED surroundings
      BY <2>1 DEF ReturnReader, AdmissionInv, surroundings, httpVars, IInv, TypeOK
    <2>2. CASE EndLease(r) /\ UNCHANGED surroundings
      BY <2>2 DEF EndLease, AdmissionInv, surroundings, httpVars, IInv, TypeOK
    <2>3. CASE ReturnSlot(r) /\ Answer(r, "encoded", "served") /\ UNCHANGED admitted
      BY <2>3 DEF ReturnSlot, Answer, AdmissionInv, IInv, TypeOK
    <2>4. QED
      BY <1>6, <2>1, <2>2, <2>3 DEF CloseLease
  <1>7. ASSUME NEW r \in Requests, Leave(r) PROVE AdmissionInv'
    <2>1. IsFiniteSet(admitted) /\ r \in admitted /\ admitted' = admitted \ {r}
      BY <1>7, RequestsAssumption, FS_Subset DEF Leave, AdmissionInv
    <2>2. Cardinality(admitted') = Cardinality(admitted) - 1 /\ Cardinality(admitted) \in Nat
      BY <2>1, CountDown
    <2>3. Cardinality(admitted') <= Workers
      BY <2>2, WorkersAssumption DEF AdmissionInv
    <2>4. QED
      BY <1>7, <2>1, <2>3 DEF Leave, AdmissionInv, Answer, vars
  <1>8. CASE \/ Tick \/ ReplaceStep \/ WatcherStops \/ Signal \/ ListenerFails \/ EndDrain
             \/ CloseRouter \/ FinishClosing \/ SelectionChange
    BY <1>8, ControllerFrame DEF AdmissionInv, httpVars
  <1>9. QED
    BY <1>1, <1>2, <1>3, <1>4, <1>5, <1>6, <1>7, <1>8 DEF ServerNext, HandlerStep

-----------------------------------------------------------------------------
(* The watcher and the main goroutine.                                     *)

\* cleanup closes the service after it has joined the watcher.
LEMMA ControllerKept ==
  ASSUME IInv, ControllerInv, ServerNext
  PROVE  ControllerInv'
  <1> USE ControllersAssumption, NoneAssumption
  <1>1. ASSUME NEW r \in Requests, Arrive(r) \/ HandlerStep(r) PROVE ControllerInv'
    <2>1. UNCHANGED <<closed, replacement, watching, phase>>
      BY <1>1, RequestFrame DEF watchVars, mainVars
    <2>2. accepting' = accepting
      BY <1>1, RequestFrame DEF mainVars
    <2>3. QED
      BY <2>1, <2>2 DEF ControllerInv
  <1>2. CASE Tick
    BY <1>2 DEF Tick, ControllerInv, mainVars
  <1>3. CASE WatcherReplaces
    BY <1>3 DEF WatcherReplaces, BeginReplace, ControllerInv, mainVars
  <1>4. CASE WatcherLoads
    <2>1. UNCHANGED <<closed, replacement>>
      BY <1>4 DEF WatcherLoads, LoadReader, FailLoad, Abandon, Publish, CloseReader
    <2>2. UNCHANGED <<watching, phase, accepting>>
      BY <1>4 DEF WatcherLoads, surroundings, watchVars, mainVars
    <2>3. QED
      BY <2>1, <2>2 DEF ControllerInv
  <1>5. CASE WatcherReturns
    BY <1>5 DEF WatcherReturns, FinishRetiring, ControllerInv, mainVars
  <1>6. CASE WatcherStops \/ Signal \/ ListenerFails \/ EndDrain \/ SelectionChange
    <2>1. UNCHANGED <<closed, replacement>>
      BY <1>6 DEF WatcherStops, Signal, ListenerFails, EndDrain, SelectionChange, vars
    <2>2. CASE WatcherStops
      BY <2>1, <2>2 DEF WatcherStops, ControllerInv, mainVars
    <2>3. CASE Signal \/ ListenerFails \/ EndDrain
      BY <2>1, <2>3 DEF Signal, ListenerFails, EndDrain, ControllerInv, watchVars
    <2>4. CASE SelectionChange
      BY <2>1, <2>4 DEF SelectionChange, ControllerInv, watchVars, mainVars
    <2>5. QED
      BY <1>6, <2>2, <2>3, <2>4
  <1>7. CASE CloseRouter
    BY <1>7 DEF CloseRouter, BeginClose, ControllerInv, watchVars
  <1>8. CASE FinishClosing
    BY <1>8 DEF FinishClosing, CloseReader, FinishRetiring, ControllerInv, surroundings,
       watchVars, mainVars
  <1>9. QED
    BY <1>1, <1>2, <1>3, <1>4, <1>5, <1>6, <1>7, <1>8 DEF ServerNext, ReplaceStep

\* The watcher's `last` is what it found, unless that was no directory.
LEMMA WatchKept ==
  ASSUME WatchInv, ServerNext
  PROVE  WatchInv'
  <1> USE DirectoriesAssumption DEF Contents
  <1>1. ASSUME NEW r \in Requests, Arrive(r) \/ HandlerStep(r) PROVE WatchInv'
    BY <1>1, RequestFrame DEF watchVars, WatchInv
  <1>2. CASE Tick
    BY <1>2 DEF Tick, WatchInv
  <1>3. CASE WatcherReplaces
    BY <1>3 DEF WatcherReplaces, BeginReplace, WatchInv
  <1>4. CASE WatcherLoads \/ FinishClosing
    BY <1>4 DEF WatcherLoads, FinishClosing, surroundings, watchVars, WatchInv
  <1>5. CASE WatcherReturns \/ WatcherStops
    BY <1>5 DEF WatcherReturns, WatcherStops, WatchInv
  <1>6. CASE Signal \/ ListenerFails \/ EndDrain \/ CloseRouter \/ SelectionChange
    BY <1>6 DEF Signal, ListenerFails, EndDrain, CloseRouter, SelectionChange, watchVars,
       WatchInv
  <1>7. QED
    BY <1>1, <1>2, <1>3, <1>4, <1>5, <1>6 DEF ServerNext, ReplaceStep

\* The diagnostic keeps up with every tick, failure and publication.
LEMMA HealthKept ==
  ASSUME IInv, ControllerInv, WatchInv, HealthInv, ServerNext
  PROVE  HealthInv'
  <1> SUFFICES ASSUME phase' = "serving" PROVE HealthInv'
    BY DEF HealthInv
  <1>0. snapshot \in Snapshots \/ phase # "serving"
    BY DEF ControllerInv, IInv, ControlInv, TypeOK
  <1>1. ASSUME NEW r \in Requests, Arrive(r) \/ HandlerStep(r) PROVE HealthInv'
    BY <1>1, RequestFrame DEF watchVars, mainVars, HealthInv
  <1>2. CASE Tick
    <2>1. /\ phase = "serving" /\ StatusDirectory = directory[snapshot]
          /\ UNCHANGED <<snapshot, directory>> /\ watching = "asleep" /\ seen' = selection
          /\ watching' \in {"asleep", "replacing"}
          /\ reloadError \in BOOLEAN
      BY <1>2, <1>0, NoneAssumption DEF Tick, mainVars, StatusDirectory, IInv, TypeOK
    <2>2. CASE selection \notin Directories
      BY <1>2, <2>1, <2>2 DEF Tick, HealthInv
    <2>3. CASE selection \in Directories /\ selection = last
      BY <1>2, <2>1, <2>3 DEF Tick, HealthInv, WatchInv
    <2>4. CASE selection \in Directories \ {last} /\ selection = StatusDirectory
      BY <1>2, <2>1, <2>4 DEF Tick, HealthInv
    <2>5. CASE selection \in Directories \ {last} /\ selection # StatusDirectory
      <3>1. watching' = "replacing" /\ last' = selection
        BY <1>2, <2>5 DEF Tick
      <3>2. QED
        BY <2>1, <2>5, <3>1 DEF HealthInv
    <2>6. QED
      BY <2>2, <2>3, <2>4, <2>5
  <1>3. CASE WatcherReplaces
    <2>1. /\ next' \in Snapshots /\ next' # snapshot /\ snapshot' = snapshot
          /\ directory' = [directory EXCEPT ![next'] = last]
          /\ last' = last /\ watching' = "loading" /\ watching = "replacing"
          /\ phase' = phase
      BY <1>3 DEF WatcherReplaces, BeginReplace, Unused, mainVars
    <2>2. next' # NONE
      BY <2>1, NoneAssumption
    <2>3. QED
      BY <2>1, <2>2, <1>0 DEF HealthInv, WatchInv
  <1>4. CASE WatcherLoads
    <2>1. /\ UNCHANGED <<phase, watching, last, seen, directory>>
          /\ watching = "loading" /\ phase = "serving"
      BY <1>4 DEF WatcherLoads, surroundings, watchVars, mainVars, ControllerInv, LoadReader,
         FailLoad, Abandon, Publish, CloseReader
    <2>2. CASE LoadReader(WATCHER) \/ CloseReader(WATCHER)
      BY <2>1, <2>2 DEF LoadReader, CloseReader, loadVars, HealthInv
    <2>3. CASE FailLoad(WATCHER)
      BY <2>1, <2>3 DEF FailLoad, HealthInv
    <2>4. CASE Publish(WATCHER)
      BY <2>1, <2>4 DEF Publish, HealthInv
    <2>5. QED
      BY <1>4, <2>1, <2>2, <2>3, <2>4 DEF WatcherLoads, Cancelled
  <1>5. CASE WatcherReturns
    <2>1. next = NONE /\ watching = "loading" /\ watching' = "asleep"
      BY <1>5 DEF WatcherReturns, FinishRetiring, IInv, ControlInv, ControllerInv
    <2>2. UNCHANGED <<phase, last, seen, directory, snapshot, reloadError>>
      BY <1>5 DEF WatcherReturns, FinishRetiring, mainVars
    <2>3. QED
      BY <2>1, <2>2 DEF HealthInv, WatchInv
  <1>6. CASE SelectionChange
    BY <1>6 DEF SelectionChange, watchVars, mainVars, vars, HealthInv
  <1>7. CASE WatcherStops \/ Signal \/ ListenerFails \/ EndDrain \/ CloseRouter \/ FinishClosing
    BY <1>7 DEF WatcherStops, Signal, ListenerFails, EndDrain, CloseRouter, FinishClosing,
       CloseReader, Cancelled, mainVars, surroundings, ControllerInv
  <1>8. QED
    BY <1>1, <1>2, <1>3, <1>4, <1>5, <1>6, <1>7 DEF ServerNext, ReplaceStep

-----------------------------------------------------------------------------
(* The theorems.                                                           *)

\* Admission, controllers, watcher and diagnostic agree in every reachable
\* state of the server.
THEOREM ServerInductiveInvariant == ServerSpec => []ServerIInv
  <1>1. ASSUME ServerInit, IInv
        PROVE  ServerIInv
    <2>1. AdmissionInv
      BY <1>1, FS_EmptySet, WorkersAssumption DEF ServerInit, Init, AdmissionInv
    <2>2. ControllerInv
      BY <1>1, ControllersAssumption, NoneAssumption DEF ServerInit, Init, ControllerInv
    <2>3. WatchInv /\ HealthInv
      BY <1>1, DirectoriesAssumption
         DEF ServerInit, Init, WatchInv, HealthInv, Contents
    <2>4. QED
      BY <1>1, <2>1, <2>2, <2>3 DEF ServerIInv
  <1>2. ASSUME ServerIInv, IInv', [ServerNext]_serverVars
        PROVE  ServerIInv'
    <2>1. CASE ServerNext
      <3>1. AdmissionInv' /\ ControllerInv' /\ WatchInv'
        BY <1>2, <2>1, AdmissionKept, ControllerKept, WatchKept DEF ServerIInv
      <3>2. QED
        BY <1>2, <2>1, <3>1, HealthKept DEF ServerIInv
    <2>2. CASE UNCHANGED serverVars
      BY <1>2, <2>2 DEF ServerIInv, AdmissionInv, ControllerInv, WatchInv, HealthInv,
         serverVars, vars, surroundings, httpVars, watchVars, mainVars
    <2>3. QED
      BY <1>2, <2>1, <2>2
  <1>3. QED
    BY <1>1, <1>2, ServiceInvariant, PTL DEF ServerSpec

\* Every variable of the server keeps its type.
THEOREM ServerTypeCorrect == ServerSpec => []ServerTypeOK
  <1>1. ServerIInv => ServerTypeOK
    BY DEF ServerIInv, ServerTypeOK, IInv, AdmissionInv, ControllerInv, WatchInv
  <1>2. QED
    BY <1>1, ServerInductiveInvariant, PTL

\* A request that RoutingAdmission let in is never refused as busy by the
\* service, however replacements and leases interleave.
THEOREM AdmissionIsTheOnlyLimit == ServerSpec => []AdmittedIsNeverBusy
  <1>1. ServerIInv => AdmittedIsNeverBusy
    BY DEF ServerIInv, AdmissionInv, AdmittedIsNeverBusy
  <1>2. QED
    BY <1>1, ServerInductiveInvariant, PTL

\* Replacements, failed ones included, leave no moment without a snapshot.
THEOREM NoGapInService == ServerSpec => []AvailableUntilShutdown
  <1>1. ServerIInv => AvailableUntilShutdown
    BY DEF ServerIInv, AdmissionInv, ControllerInv, AvailableUntilShutdown
  <1>2. QED
    BY <1>1, ServerInductiveInvariant, PTL

\* /healthz reports an error exactly when the directory the watcher last found
\* is not the one that is served.
THEOREM HealthIsAccurate == ServerSpec => []HealthMatchesSelection
  <1>1. ASSUME ServerIInv
        PROVE  HealthMatchesSelection
    <2>1. phase = "serving" => StatusDirectory = directory[snapshot]
      BY <1>1 DEF ServerIInv, IInv, ControlInv, ControllerInv, StatusDirectory
    <2>2. QED
      BY <1>1, <2>1 DEF ServerIInv, HealthInv, HealthMatchesSelection
  <1>2. QED
    BY <1>1, ServerInductiveInvariant, PTL

\* serve returns with the watcher stopped, every reader closed and no lease.
THEOREM CleanExit == ServerSpec => []ExitLeavesNothing
  <1>1. ASSUME ServerIInv, phase = "exited"
        PROVE  /\ watching = "stopped" /\ replacement = NONE
               /\ \A s \in Snapshots : open[s] = {} /\ leases[s] = {}
               /\ \A r \in Requests : pc[r] \in {"idle", "ended"}
    <2>1. watching = "stopped" /\ replacement = NONE /\ closed
      BY <1>1, ControllersAssumption DEF ServerIInv, ControllerInv, IInv, TypeOK
    <2>2. snapshot = NONE /\ next = NONE /\ retiring = NONE /\ mu = NONE
      BY <1>1, <2>1 DEF ServerIInv, IInv, ControlInv
    <2>3. \A s \in Snapshots : open[s] = {} /\ leases[s] = {}
      BY <1>1, <2>2, NoneAssumption DEF ServerIInv, IInv, ControlInv
    <2>4. \A r \in Requests : pc[r] \in {"idle", "ended"}
      BY <1>1, <2>2, <2>3, NoneAssumption DEF ServerIInv, IInv, MuInv, LeaseInv, TypeOK
    <2>5. QED
      BY <2>1, <2>3, <2>4
  <1>2. ServerIInv => ExitLeavesNothing
    BY <1>1 DEF ExitLeavesNothing
  <1>3. QED
    BY <1>2, ServerInductiveInvariant, PTL
================================================================================
