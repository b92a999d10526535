--------------------------- MODULE LiveHandlerProofs ---------------------------
(***************************************************************************)
(* Proofs about LiveHandler for every number of requests and generations.  *)
(*                                                                         *)
(* The safety properties are not inductive: that no store is closed under  *)
(* a request follows from the readers-writer lock, and what is open, from  *)
(* where the owner of reloadMu is.  IInv names both, one conjunct per      *)
(* idea, and each step keeps it.                                           *)
(***************************************************************************)
EXTENDS LiveHandler, FiniteSetTheorems, TLAPS

Process == Requests \cup {CLOSER}

\* What owns reloadMu: a reload from its TryLock to its last Unlock, or Close.
Reloading == {"read", "compare", "verify", "swap", "retire", "record", "recording"}

OwnerInv ==
  /\ \A r \in Requests : pc[r] \in Reloading <=> reloadMu = r
  /\ pc[CLOSER] \in {"swap", "retire"} <=> reloadMu = CLOSER
  /\ pc[CLOSER] \in {"idle", "swap", "retire", "closed"}
  /\ closed <=> pc[CLOSER] \in {"retire", "closed"}

\* The state of mu is where its only writer, the owner of reloadMu, is.
WriterInv ==
  /\ \A p \in Process : pc[p] \in {"swap", "recording"} => writer = "waiting"
  /\ \A p \in Process : pc[p] = "retire" => writer = "holding"
  /\ \A p \in Process : reloadMu = p /\ writer # "none" =>
        pc[p] \in {"swap", "retire", "recording"}
  /\ reloadMu = NONE => writer = "none"

\* Who reads, who waits to read, and that a writer excludes readers.
ReaderInv ==
  /\ \A r \in Requests : r \in readers <=> pc[r] \in {"locked", "serving"}
  /\ \A r \in Requests : r \in blocked <=> pc[r] = "blocked"
  /\ writer = "holding" => readers = {}
  /\ writer = "none" => blocked = {}

\* A request that is being served is bound to the store that is published.
LeaseInv ==
  \A r \in Requests :
    IF pc[r] = "serving"
    THEN ~closed /\ using[r] = store /\ header[r] = store
    ELSE using[r] = NONE /\ header[r] = NONE

\* How far a reload has come, from what it read to what it found.
ReloadInv ==
  \A r \in Requests :
    /\ pc[r] = "compare" => candidate \in References
    /\ pc[r] \in {"verify", "swap"} => candidate \in References /\ candidate # store
    /\ pc[r] = "retire" => candidate = store /\ old \in References /\ old # store
    /\ pc[r] \in {"verify", "swap", "retire"} => ~closed /\ ~failed
    /\ pc[r] \in {"record", "recording"} /\ ~closed => (failed <=> candidate # store)

\* Which stores are open, by where the owner of reloadMu is.
OpenInv ==
  /\ \A r \in Requests : pc[r] = "swap" => opened = {store, candidate}
  /\ \A r \in Requests : pc[r] = "retire" => opened = {store, old}
  /\ pc[CLOSER] = "retire" => opened = {store}
  /\ pc[CLOSER] = "closed" => opened = {}
  /\ ~closed /\ (\A r \in Requests : pc[r] \notin {"swap", "retire"}) => opened = {store}

IInv ==
  /\ TypeOK /\ OwnerInv /\ WriterInv /\ ReaderInv /\ LeaseInv /\ ReloadInv /\ OpenInv
  /\ store = current
  /\ HealthIsHonest

-----------------------------------------------------------------------------
(* Each step keeps the invariant.                                          *)

\* The files may change at any moment: a reload works on the copy it read.
LEMMA FilesKeepIInv ==
  ASSUME IInv, SelectionChange \/ GenerationChange
  PROVE  IInv'
  <1> USE ReferencesAssumption, RequestsAssumption DEF IInv, Process, Reloading, Goto
  \* Only the copy in `candidate` counts, and it is not the file.
  <1>1. ASSUME SelectionChange PROVE IInv'
    <2> USE <1>1 DEF SelectionChange, file, rw, local, handler, leaseVars
    <2>1. (OwnerInv /\ WriterInv /\ ReaderInv)'
      BY DEF OwnerInv, WriterInv, ReaderInv, TypeOK
    <2>2. (TypeOK /\ LeaseInv /\ ReloadInv /\ OpenInv)'
      BY DEF OwnerInv, ReaderInv, LeaseInv, ReloadInv, OpenInv, TypeOK, Places
    <2>3. (HealthIsHonest /\ store = current)'
      BY DEF OwnerInv, ReloadInv, HealthIsHonest, TypeOK
    <2>4. QED
      BY <2>1, <2>2, <2>3
  \* A store stays open whatever happens to the files it verified.
  <1>2. ASSUME GenerationChange PROVE IInv'
    <2> USE <1>2 DEF GenerationChange, file, rw, local, handler, leaseVars
    <2>1. (OwnerInv /\ WriterInv /\ ReaderInv)'
      BY DEF OwnerInv, WriterInv, ReaderInv, TypeOK
    <2>2. (TypeOK /\ LeaseInv /\ ReloadInv /\ OpenInv)'
      BY DEF OwnerInv, ReaderInv, LeaseInv, ReloadInv, OpenInv, TypeOK, Places
    <2>3. (HealthIsHonest /\ store = current)'
      BY DEF OwnerInv, ReloadInv, HealthIsHonest, TypeOK
    <2>4. QED
      BY <2>1, <2>2, <2>3
  <1>3. QED
    BY <1>1, <1>2

\* The prelude of a request: TryLock of reloadMu, won or lost.
LEMMA PreludeKeepsIInv ==
  ASSUME IInv, NEW r \in Requests, StartReload(r) \/ SkipReload(r)
  PROVE  IInv'
  <1> USE ReferencesAssumption, RequestsAssumption DEF IInv, Process, Reloading, Goto
  \* From here on no other reload and no Close can begin.
  <1>1. ASSUME StartReload(r) PROVE IInv'
    <2> USE <1>1 DEF StartReload, file, rw, local, handler, leaseVars
    <2>1. (OwnerInv /\ WriterInv /\ ReaderInv)'
      BY DEF OwnerInv, WriterInv, ReaderInv, TypeOK
    <2>2. (TypeOK /\ LeaseInv /\ ReloadInv /\ OpenInv)'
      BY DEF OwnerInv, ReaderInv, LeaseInv, ReloadInv, OpenInv, TypeOK, Places
    <2>3. (HealthIsHonest /\ store = current)'
      BY DEF OwnerInv, ReloadInv, HealthIsHonest, TypeOK
    <2>4. QED
      BY <2>1, <2>2, <2>3
  \* Another reload or Close is under way.
  <1>2. ASSUME SkipReload(r) PROVE IInv'
    <2> USE <1>2 DEF SkipReload, file, rw, local, handler, leaseVars
    <2>1. (OwnerInv /\ WriterInv /\ ReaderInv)'
      BY DEF OwnerInv, WriterInv, ReaderInv, TypeOK
    <2>2. (TypeOK /\ LeaseInv /\ ReloadInv /\ OpenInv)'
      BY DEF OwnerInv, ReaderInv, LeaseInv, ReloadInv, OpenInv, TypeOK, Places
    <2>3. (HealthIsHonest /\ store = current)'
      BY DEF OwnerInv, ReloadInv, HealthIsHonest, TypeOK
    <2>4. QED
      BY <2>1, <2>2, <2>3
  <1>3. QED
    BY <1>1, <1>2

\* A reload, from reading the file to recording its outcome.
LEMMA ReloadKeepsIInv ==
  ASSUME IInv, NEW r \in Requests, Reload(r)
  PROVE  IInv'
  <1> USE ReferencesAssumption, RequestsAssumption DEF IInv, Process, Reloading, Goto
  \* An unreadable file is no generation, so it differs from the store's.
  <1>1. ASSUME ReadSelection(r) PROVE IInv'
    <2> USE <1>1 DEF ReadSelection, file, rw, local, handler, leaseVars
    <2>1. (OwnerInv /\ WriterInv /\ ReaderInv)'
      BY DEF OwnerInv, WriterInv, ReaderInv, TypeOK
    <2>2. (TypeOK /\ LeaseInv /\ ReloadInv /\ OpenInv)'
      BY DEF OwnerInv, ReaderInv, LeaseInv, ReloadInv, OpenInv, TypeOK, Places
    <2>3. (HealthIsHonest /\ store = current)'
      BY DEF OwnerInv, ReloadInv, HealthIsHonest, TypeOK
    <2>4. QED
      BY <2>1, <2>2, <2>3
  \* `closed` cannot change before the owner of reloadMu is done.
  <1>2. ASSUME Compare(r) PROVE IInv'
    <2> USE <1>2 DEF Compare, file, rw, local, handler, leaseVars
    <2>1. (OwnerInv /\ WriterInv /\ ReaderInv)'
      BY DEF OwnerInv, WriterInv, ReaderInv, TypeOK
    <2>2. (TypeOK /\ LeaseInv /\ ReloadInv /\ OpenInv)'
      BY DEF OwnerInv, ReaderInv, LeaseInv, ReloadInv, OpenInv, TypeOK, Places
    <2>3. (HealthIsHonest /\ store = current)'
      BY DEF OwnerInv, ReloadInv, HealthIsHonest, TypeOK
    <2>4. QED
      BY <2>1, <2>2, <2>3
  \* The only step that opens a store: two are open from here on.
  <1>3. ASSUME OpenCandidate(r) PROVE IInv'
    <2> USE <1>3 DEF OpenCandidate, AnnounceLock, file, rw, local, handler, leaseVars
    <2>1. (OwnerInv /\ WriterInv /\ ReaderInv)'
      BY DEF OwnerInv, WriterInv, ReaderInv, TypeOK
    <2>2. (TypeOK /\ LeaseInv /\ ReloadInv /\ OpenInv)'
      BY DEF OwnerInv, ReaderInv, LeaseInv, ReloadInv, OpenInv, TypeOK, Places
    <2>3. (HealthIsHonest /\ store = current)'
      BY DEF OwnerInv, ReloadInv, HealthIsHonest, TypeOK
    <2>4. QED
      BY <2>1, <2>2, <2>3
  \* Nothing was opened; the selection read is still not the one served.
  <1>4. ASSUME RejectCandidate(r) PROVE IInv'
    <2> USE <1>4 DEF RejectCandidate, file, rw, local, handler, leaseVars
    <2>1. (OwnerInv /\ WriterInv /\ ReaderInv)'
      BY DEF OwnerInv, WriterInv, ReaderInv, TypeOK
    <2>2. (TypeOK /\ LeaseInv /\ ReloadInv /\ OpenInv)'
      BY DEF OwnerInv, ReaderInv, LeaseInv, ReloadInv, OpenInv, TypeOK, Places
    <2>3. (HealthIsHonest /\ store = current)'
      BY DEF OwnerInv, ReloadInv, HealthIsHonest, TypeOK
    <2>4. QED
      BY <2>1, <2>2, <2>3
  \* The lock is acquired only when nobody reads: no lease on the old store.
  <1>5. ASSUME Swap(r) PROVE IInv'
    <2> USE <1>5 DEF Swap, AcquireLock, file, rw, local, handler, leaseVars
    <2>1. (OwnerInv /\ WriterInv /\ ReaderInv)'
      BY DEF OwnerInv, WriterInv, ReaderInv, TypeOK
    <2>2. (TypeOK /\ LeaseInv /\ ReloadInv /\ OpenInv)'
      BY DEF OwnerInv, ReaderInv, LeaseInv, ReloadInv, OpenInv, TypeOK, Places
    <2>3. (HealthIsHonest /\ store = current)'
      BY DEF OwnerInv, ReloadInv, HealthIsHonest, TypeOK
    <2>4. QED
      BY <2>1, <2>2, <2>3
  \* The displaced store is closed before a reader is admitted.
  <1>6. ASSUME RetireOld(r) PROVE IInv'
    <2> USE <1>6 DEF RetireOld, ReleaseLock, Admit, file, rw, local, handler, leaseVars
    <2>1. (OwnerInv /\ WriterInv /\ ReaderInv)'
      BY DEF OwnerInv, WriterInv, ReaderInv, TypeOK
    <2>2. (TypeOK /\ LeaseInv /\ ReloadInv /\ OpenInv)'
      BY DEF OwnerInv, ReaderInv, LeaseInv, ReloadInv, OpenInv, TypeOK, Places
    <2>3. (HealthIsHonest /\ store = current)'
      BY DEF OwnerInv, ReloadInv, HealthIsHonest, TypeOK
    <2>4. QED
      BY <2>1, <2>2, <2>3
  \* The second Lock of the same reload.
  <1>7. ASSUME BeginRecord(r) PROVE IInv'
    <2> USE <1>7 DEF BeginRecord, AnnounceLock, file, rw, local, handler, leaseVars
    <2>1. (OwnerInv /\ WriterInv /\ ReaderInv)'
      BY DEF OwnerInv, WriterInv, ReaderInv, TypeOK
    <2>2. (TypeOK /\ LeaseInv /\ ReloadInv /\ OpenInv)'
      BY DEF OwnerInv, ReaderInv, LeaseInv, ReloadInv, OpenInv, TypeOK, Places
    <2>3. (HealthIsHonest /\ store = current)'
      BY DEF OwnerInv, ReloadInv, HealthIsHonest, TypeOK
    <2>4. QED
      BY <2>1, <2>2, <2>3
  \* reloadMu is given up when lastError agrees with the outcome.
  <1>8. ASSUME Record(r) PROVE IInv'
    <2> USE <1>8 DEF Record, ReleaseLock, Admit, file, rw, local, handler, leaseVars
    <2>1. (OwnerInv /\ WriterInv /\ ReaderInv)'
      BY DEF OwnerInv, WriterInv, ReaderInv, TypeOK
    <2>2. (TypeOK /\ LeaseInv /\ ReloadInv /\ OpenInv)'
      BY DEF OwnerInv, ReaderInv, LeaseInv, ReloadInv, OpenInv, TypeOK, Places
    <2>3. (HealthIsHonest /\ store = current)'
      BY DEF OwnerInv, ReloadInv, HealthIsHonest, TypeOK
    <2>4. QED
      BY <2>1, <2>2, <2>3
  <1>9. QED
    BY <1>1, <1>2, <1>3, <1>4, <1>5, <1>6, <1>7, <1>8 DEF Reload

\* A request takes its read lock, is served and gives the lock back.
LEMMA LeaseKeepsIInv ==
  ASSUME IInv, NEW r \in Requests, EnterRLock(r) \/ Serve(r) \/ Finish(r)
  PROVE  IInv'
  <1> USE ReferencesAssumption, RequestsAssumption DEF IInv, Process, Reloading, Goto
  \* A reader comes in only when no writer waits or holds.
  <1>1. ASSUME EnterRLock(r) PROVE IInv'
    <2> USE <1>1 DEF EnterRLock, file, rw, local, handler, leaseVars
    <2>1. (OwnerInv /\ WriterInv /\ ReaderInv)'
      BY DEF OwnerInv, WriterInv, ReaderInv, TypeOK
    <2>2. (TypeOK /\ LeaseInv /\ ReloadInv /\ OpenInv)'
      BY DEF OwnerInv, ReaderInv, LeaseInv, ReloadInv, OpenInv, TypeOK, Places
    <2>3. (HealthIsHonest /\ store = current)'
      BY DEF OwnerInv, ReloadInv, HealthIsHonest, TypeOK
    <2>4. QED
      BY <2>1, <2>2, <2>3
  \* The request is bound to the store that is published now.
  <1>2. ASSUME Serve(r) PROVE IInv'
    <2> USE <1>2 DEF Serve, file, rw, local, handler, leaseVars
    <2>1. (OwnerInv /\ WriterInv /\ ReaderInv)'
      BY DEF OwnerInv, WriterInv, ReaderInv, TypeOK
    <2>2. (TypeOK /\ LeaseInv /\ ReloadInv /\ OpenInv)'
      BY DEF OwnerInv, ReaderInv, LeaseInv, ReloadInv, OpenInv, TypeOK, Places
    <2>3. (HealthIsHonest /\ store = current)'
      BY DEF OwnerInv, ReloadInv, HealthIsHonest, TypeOK
    <2>4. QED
      BY <2>1, <2>2, <2>3
  \* The lease ends.
  <1>3. ASSUME Finish(r) PROVE IInv'
    <2> USE <1>3 DEF Finish, file, rw, local, handler, leaseVars
    <2>1. (OwnerInv /\ WriterInv /\ ReaderInv)'
      BY DEF OwnerInv, WriterInv, ReaderInv, TypeOK
    <2>2. (TypeOK /\ LeaseInv /\ ReloadInv /\ OpenInv)'
      BY DEF OwnerInv, ReaderInv, LeaseInv, ReloadInv, OpenInv, TypeOK, Places
    <2>3. (HealthIsHonest /\ store = current)'
      BY DEF OwnerInv, ReloadInv, HealthIsHonest, TypeOK
    <2>4. QED
      BY <2>1, <2>2, <2>3
  <1>4. QED
    BY <1>1, <1>2, <1>3

\* Close excludes reloads by reloadMu and requests by mu.
LEMMA CloseKeepsIInv ==
  ASSUME IInv, BeginClose \/ CloserStep
  PROVE  IInv'
  <1> USE ReferencesAssumption, RequestsAssumption DEF IInv, Process, Reloading, Goto
  \* It waits for the reload under way.
  <1>1. ASSUME BeginClose PROVE IInv'
    <2> USE <1>1 DEF BeginClose, AnnounceLock, file, rw, local, handler, leaseVars
    <2>1. (OwnerInv /\ WriterInv /\ ReaderInv)'
      BY DEF OwnerInv, WriterInv, ReaderInv, TypeOK
    <2>2. (TypeOK /\ LeaseInv /\ ReloadInv /\ OpenInv)'
      BY DEF OwnerInv, ReaderInv, LeaseInv, ReloadInv, OpenInv, TypeOK, Places
    <2>3. (HealthIsHonest /\ store = current)'
      BY DEF OwnerInv, ReloadInv, HealthIsHonest, TypeOK
    <2>4. QED
      BY <2>1, <2>2, <2>3
  \* No request is being served when `closed` is set.
  <1>2. ASSUME MarkClosed PROVE IInv'
    <2> USE <1>2 DEF MarkClosed, AcquireLock, file, rw, local, handler, leaseVars
    <2>1. (OwnerInv /\ WriterInv /\ ReaderInv)'
      BY DEF OwnerInv, WriterInv, ReaderInv, TypeOK
    <2>2. (TypeOK /\ LeaseInv /\ ReloadInv /\ OpenInv)'
      BY DEF OwnerInv, ReaderInv, LeaseInv, ReloadInv, OpenInv, TypeOK, Places
    <2>3. (HealthIsHonest /\ store = current)'
      BY DEF OwnerInv, ReloadInv, HealthIsHonest, TypeOK
    <2>4. QED
      BY <2>1, <2>2, <2>3
  \* The requests admitted now find the handler closed.
  <1>3. ASSUME FinishClose PROVE IInv'
    <2> USE <1>3 DEF FinishClose, ReleaseLock, Admit, file, rw, local, handler, leaseVars
    <2>1. (OwnerInv /\ WriterInv /\ ReaderInv)'
      BY DEF OwnerInv, WriterInv, ReaderInv, TypeOK
    <2>2. (TypeOK /\ LeaseInv /\ ReloadInv /\ OpenInv)'
      BY DEF OwnerInv, ReaderInv, LeaseInv, ReloadInv, OpenInv, TypeOK, Places
    <2>3. (HealthIsHonest /\ store = current)'
      BY DEF OwnerInv, ReloadInv, HealthIsHonest, TypeOK
    <2>4. QED
      BY <2>1, <2>2, <2>3
  <1>4. QED
    BY <1>1, <1>2, <1>3 DEF CloserStep

\* A stuttering step keeps the invariant.
LEMMA StutterKeepsIInv ==
  ASSUME IInv, UNCHANGED vars
  PROVE  IInv'
  BY DEF IInv, vars, file, rw, local, handler, leaseVars, TypeOK, OwnerInv, WriterInv,
     ReaderInv, LeaseInv, ReloadInv, OpenInv, HealthIsHonest

\* The invariant holds initially.
LEMMA InitImpliesIInv == Init => IInv
  <1> SUFFICES ASSUME Init PROVE IInv
    OBVIOUS
  <1> USE ReferencesAssumption, RequestsAssumption DEF Init, Process, Reloading
  <1>1. TypeOK
    BY DEF TypeOK, Places
  <1>2. OwnerInv /\ WriterInv /\ ReaderInv
    BY DEF OwnerInv, WriterInv, ReaderInv
  <1>3. LeaseInv /\ ReloadInv /\ OpenInv /\ HealthIsHonest /\ store = current
    BY DEF LeaseInv, ReloadInv, OpenInv, HealthIsHonest
  <1>4. QED
    BY <1>1, <1>2, <1>3 DEF IInv

\* The inductive invariant: the lock, the reload and the open stores agree in
\* every reachable state of LiveHandler.
THEOREM InductiveInvariant == Spec => []IInv
  <1>1. ASSUME IInv, [Next]_vars
        PROVE  IInv'
    <2>1. CASE UNCHANGED vars
      BY <1>1, <2>1, StutterKeepsIInv
    <2>2. CASE Next
      BY <1>1, <2>2, PreludeKeepsIInv, ReloadKeepsIInv, LeaseKeepsIInv, CloseKeepsIInv,
         FilesKeepIInv
         DEF Next, RequestStep
    <2>3. QED
      BY <1>1, <2>1, <2>2
  <1>2. QED
    BY InitImpliesIInv, <1>1, PTL DEF Spec

\* Every variable keeps its type in every reachable state.
THEOREM TypeCorrect == Spec => []TypeOK
  <1>1. IInv => TypeOK
    BY DEF IInv
  <1>2. QED
    BY <1>1, InductiveInvariant, PTL

-----------------------------------------------------------------------------
(* What the invariant says of requests, stores and health.                 *)

\* serveHTTP answers from a store that is open from its first query to its last
\* byte, and names that store in X-OpenMaps-Lookup-Snapshot.
THEOREM ServedStoreStaysOpen == Spec => []ServedGenerationIsOpen
  <1>1. ASSUME IInv, NEW r \in Requests, pc[r] = "serving"
        PROVE  using[r] \in opened /\ header[r] = using[r]
    <2>1. using[r] = store /\ header[r] = store /\ ~closed /\ r \in readers
      BY <1>1 DEF IInv, LeaseInv, ReaderInv
    <2>2. writer # "holding"
      BY <1>1, <2>1 DEF IInv, ReaderInv
    <2>3. store \in opened
      BY <2>1, <1>1, <2>2 DEF IInv, OpenInv, WriterInv, Process
    <2>4. QED
      BY <2>1, <2>3
  <1>2. IInv => ServedGenerationIsOpen
    BY <1>1 DEF ServedGenerationIsOpen
  <1>3. QED
    BY <1>2, InductiveInvariant, PTL

\* reload and Close leak no store: at most two are ever open, and between
\* reloads exactly the published one.
THEOREM NoStoreLeaks == Spec => []StoresAreAccountedFor
  <1>1. ASSUME NEW a, NEW b
        PROVE  Cardinality({a, b}) <= 2
    <2>1. IsFiniteSet({a}) /\ Cardinality({a}) = 1
      BY FS_Singleton
    <2>2. {a, b} = {a} \cup {b}
      OBVIOUS
    <2>3. b \notin {a} => Cardinality({a} \cup {b}) = 2
      BY <2>1, FS_AddElement
    <2>4. b \in {a} => {a, b} = {a}
      OBVIOUS
    <2>5. QED
      BY <2>1, <2>2, <2>3, <2>4
  <1>2. ASSUME IInv
        PROVE  Cardinality(opened) <= 2
    <2>1. opened = {} \/ \E a, b \in References : opened = {a, b}
      BY <1>2 DEF IInv, OpenInv, OwnerInv, ReloadInv, TypeOK
    <2>2. QED
      BY <2>1, <1>1, FS_EmptySet
  <1>3. ASSUME IInv, reloadMu = NONE
        PROVE  opened = IF closed THEN {} ELSE {current}
    BY <1>3, RequestsAssumption DEF IInv, OpenInv, OwnerInv, Reloading
  <1>4. IInv => StoresAreAccountedFor
    BY <1>2, <1>3 DEF StoresAreAccountedFor
  <1>5. QED
    BY <1>4, InductiveInvariant, PTL

\* Status says reload_error exactly when the generation it names is not the
\* one the last reload read from the selection file.
THEOREM HealthTellsTheTruth == Spec => []HealthIsHonest
  <1>1. IInv => HealthIsHonest
    BY DEF IInv
  <1>2. QED
    BY <1>1, InductiveInvariant, PTL

-----------------------------------------------------------------------------
(* LiveHandler implements LeasedGenerations.                               *)

\* OpenLiveHandler publishes the generation it opened.
LEMMA InitRefines == Init => Abstract!AInit
  BY DEF Init, Abstract!AInit

\* Opening, swapping, closing the displaced store, leasing, ending a lease and
\* the two halves of Close are the abstract steps; all others stutter.
LEMMA StepRefines ==
  ASSUME IInv, IInv', Next
  PROVE  Abstract!ANext \/ UNCHANGED Abstract!avars
  <1> USE ReferencesAssumption, RequestsAssumption DEF IInv, Goto, file, rw, local, handler,
      leaseVars, Abstract!avars
  <1>1. ASSUME NEW r \in Requests, OpenCandidate(r)
        PROVE  Abstract!ANext
    <2>1. candidate \in References /\ candidate \notin opened
      BY <1>1 DEF OpenCandidate, ReloadInv, OpenInv, OwnerInv, Reloading
    <2>2. Abstract!Load(candidate)
      BY <1>1, <2>1 DEF OpenCandidate, Abstract!Load
    <2>3. QED
      BY <2>1, <2>2 DEF Abstract!ANext
  <1>2. ASSUME NEW r \in Requests, Swap(r)
        PROVE  Abstract!ANext
    <2>1. candidate \in References /\ candidate \in opened /\ ~closed
      BY <1>2 DEF Swap, ReloadInv, OpenInv
    <2>2. Abstract!Publish(candidate)
      BY <1>2, <2>1 DEF Swap, Abstract!Publish, TypeOK
    <2>3. QED
      BY <2>1, <2>2 DEF Abstract!ANext
  <1>3. ASSUME NEW r \in Requests, RetireOld(r)
        PROVE  Abstract!ANext
    <2>1. old \in References /\ old \in opened /\ old # store
      BY <1>3 DEF RetireOld, ReloadInv, OpenInv
    <2>2. \A c \in Requests : using[c] # old
      BY <2>1 DEF LeaseInv
    <2>3. Abstract!Retire(old)
      BY <1>3, <2>1, <2>2 DEF RetireOld, Abstract!Retire
    <2>4. QED
      BY <2>1, <2>3 DEF Abstract!ANext
  <1>4. ASSUME NEW r \in Requests, Serve(r)
        PROVE  Abstract!ANext
    <2>1. Abstract!TakeLease(r)
      BY <1>4 DEF Serve, LeaseInv, TypeOK, Abstract!TakeLease
    <2>2. QED
      BY <2>1 DEF Abstract!ANext
  <1>5. ASSUME NEW r \in Requests, Finish(r)
        PROVE  Abstract!ANext \/ UNCHANGED Abstract!avars
    <2>1. CASE using[r] = NONE
      BY <1>5, <2>1 DEF Finish, TypeOK
    <2>2. CASE using[r] # NONE
      <3>1. Abstract!EndLease(r)
        BY <1>5, <2>2 DEF Finish, Abstract!EndLease
      <3>2. QED
        BY <3>1 DEF Abstract!ANext
    <2>3. QED
      BY <2>1, <2>2
  <1>6. ASSUME MarkClosed
        PROVE  Abstract!ANext
    <2>1. ~closed
      BY <1>6 DEF MarkClosed, OwnerInv
    <2>2. Abstract!Shutdown
      BY <1>6, <2>1 DEF MarkClosed, TypeOK, Abstract!Shutdown
    <2>3. QED
      BY <2>2 DEF Abstract!ANext
  <1>7. ASSUME FinishClose
        PROVE  Abstract!ANext
    <2>1. closed /\ opened = {store} /\ store \in References
      BY <1>7 DEF FinishClose, OwnerInv, OpenInv, TypeOK
    <2>2. \A c \in Requests : using[c] # store
      BY <2>1 DEF LeaseInv, TypeOK
    <2>3. Abstract!Retire(store)
      BY <1>7, <2>1, <2>2 DEF FinishClose, Abstract!Retire
    <2>4. QED
      BY <2>1, <2>3 DEF Abstract!ANext
  <1>8. ASSUME NEW r \in Requests,
               StartReload(r) \/ SkipReload(r) \/ ReadSelection(r) \/ Compare(r)
                 \/ RejectCandidate(r) \/ BeginRecord(r) \/ Record(r) \/ EnterRLock(r)
        PROVE  UNCHANGED Abstract!avars
    BY <1>8 DEF StartReload, SkipReload, ReadSelection, Compare, RejectCandidate, BeginRecord,
       Record, EnterRLock
  <1>9. ASSUME BeginClose \/ SelectionChange \/ GenerationChange
        PROVE  UNCHANGED Abstract!avars
    BY <1>9 DEF BeginClose, SelectionChange, GenerationChange
  <1>10. QED
    BY <1>1, <1>2, <1>3, <1>4, <1>5, <1>6, <1>7, <1>8, <1>9
       DEF Next, RequestStep, Reload, CloserStep

\* LiveHandler is an implementation of leased immutable generations.
THEOREM LiveHandlerImplementsLeasedGenerations == Spec => ImplementsLeasedGenerations
  <1>1. UNCHANGED vars => UNCHANGED Abstract!avars
    BY DEF vars, handler, leaseVars, Abstract!avars
  <1>2. IInv /\ IInv' /\ [Next]_vars => [Abstract!ANext]_(Abstract!avars)
    BY <1>1, StepRefines
  <1>3. QED
    BY <1>2, InitRefines, InductiveInvariant, PTL
       DEF Spec, ImplementsLeasedGenerations, Abstract!ASpec
================================================================================
