------------------------------ MODULE LiveHandler ------------------------------
(***************************************************************************)
(* duckdb.LiveHandler of internal/placesgeocoding/duckdb/selection.go: the *)
(* lookup server's handler, which re-reads the selection file before each  *)
(* request, opens a newly selected generation, swaps it in and closes the  *)
(* old store, while every request keeps a read lock from before it looks   *)
(* at the store until its response is encoded.                             *)
(*                                                                         *)
(* A request is a call of serveHTTP or of Status: both try reloadMu, run   *)
(* reload, store the outcome in lastError, and then hold mu's read lock.   *)
(* The owner of reloadMu is the only goroutine that ever calls mu.Lock, so *)
(* `writer` needs no owner.  mu is Go's sync.RWMutex: a Lock that waits    *)
(* holds back new readers, and Unlock admits every reader it held back.    *)
(***************************************************************************)
EXTENDS Naturals, FiniteSets

CONSTANTS
  Requests,     \* calls of ServeHTTP, Routes' handler and Status
  References,   \* generations a selection can name (path and manifest hash)
  CLOSER,       \* the goroutine that calls Close
  NONE          \* no reference, an unreadable selection file, no owner

ASSUME ReferencesAssumption == NONE \notin References
ASSUME RequestsAssumption == {NONE, CLOSER} \cap Requests = {} /\ CLOSER # NONE

VARIABLES
  selection,   \* Selection.Current in the file, NONE when it is unreadable
  verifiable,  \* generations whose manifest and files verify at the moment
  reloadMu,    \* owner of reloadMu
  writer,      \* mu.Lock: "none", "waiting" for readers, or "holding"
  readers,     \* requests that hold mu.RLock
  blocked,     \* requests whose RLock waits for the writer
  candidate,   \* the selection the last reload read
  failed,      \* that reload returned an error
  current,     \* LiveHandler.current
  store,       \* LiveHandler.store, by the generation it was opened from
  old,         \* the store the swap displaced
  closed,      \* LiveHandler.closed
  lastError,   \* LiveHandler.lastError is not empty
  opened,      \* stores whose DuckDB connections and files are open
  pc,          \* per request (and CLOSER): where it is
  using,       \* per request: the store its api.Handler was built with
  header       \* per request: the X-OpenMaps-Lookup-Snapshot it sent

file == <<selection, verifiable>>
rw == <<writer, readers, blocked>>
local == <<candidate, failed, old>>
handler == <<current, store, closed, lastError, opened>>
leaseVars == <<using, header>>
vars == <<file, reloadMu, rw, local, handler, pc, leaseVars>>

Goto(p, l) == pc' = [pc EXCEPT ![p] = l]

\* OpenLiveHandler: its reload opened the selected generation.
Init ==
  /\ selection \in References
  /\ verifiable = References
  /\ reloadMu = NONE
  /\ writer = "none" /\ readers = {} /\ blocked = {}
  /\ candidate = selection /\ failed = FALSE /\ old = NONE
  /\ current = selection /\ store = selection
  /\ closed = FALSE /\ lastError = FALSE /\ opened = {selection}
  /\ pc = [p \in Requests \cup {CLOSER} |-> "idle"]
  /\ using = [r \in Requests |-> NONE]
  /\ header = [r \in Requests |-> NONE]

-----------------------------------------------------------------------------
(* sync.RWMutex.                                                           *)

\* Lock announces itself: from here on RLock waits.
AnnounceLock == writer = "none" /\ writer' = "waiting" /\ UNCHANGED <<readers, blocked>>

\* Lock returns once the readers that were there have left.
AcquireLock ==
  /\ writer = "waiting" /\ readers = {}
  /\ writer' = "holding"
  /\ UNCHANGED <<readers, blocked>>

\* Unlock admits the readers that were held back, whatever comes next.
ReleaseLock ==
  /\ writer' = "none"
  /\ readers' = readers \cup blocked
  /\ blocked' = {}

-----------------------------------------------------------------------------
(* The prelude of serveHTTP and Status: at most one request reloads.       *)

StartReload(r) ==
  /\ pc[r] = "idle" /\ reloadMu = NONE
  /\ reloadMu' = r
  /\ Goto(r, "read")
  /\ UNCHANGED <<file, rw, local, handler, leaseVars>>

\* TryLock failed: the request is served from what is open.
SkipReload(r) ==
  /\ pc[r] = "idle" /\ reloadMu # NONE
  /\ Goto(r, "rlock")
  /\ UNCHANGED <<file, reloadMu, rw, local, handler, leaseVars>>

\* ReadSelection: an unreadable or invalid file ends the reload.
ReadSelection(r) ==
  /\ pc[r] = "read"
  /\ candidate' = selection
  /\ failed' = (selection = NONE)
  /\ Goto(r, IF selection = NONE THEN "record" ELSE "compare")
  /\ UNCHANGED <<file, reloadMu, rw, old, handler, leaseVars>>

\* reload under its own RLock, which no writer can delay: writers own reloadMu.
Compare(r) ==
  /\ pc[r] = "compare"
  /\ failed' = closed
  /\ Goto(r, IF closed \/ candidate = current THEN "record" ELSE "verify")
  /\ UNCHANGED <<file, reloadMu, rw, candidate, old, handler, leaseVars>>

\* verifyReference and openVerified, with no lock but reloadMu.
OpenCandidate(r) ==
  /\ pc[r] = "verify"
  /\ candidate \in verifiable
  /\ opened' = opened \cup {candidate}
  /\ Goto(r, "swap")
  /\ AnnounceLock
  /\ UNCHANGED <<file, reloadMu, local, current, store, closed, lastError, leaseVars>>

RejectCandidate(r) ==
  /\ pc[r] = "verify"
  /\ candidate \notin verifiable
  /\ failed' = TRUE
  /\ Goto(r, "record")
  /\ UNCHANGED <<file, reloadMu, rw, candidate, old, handler, leaseVars>>

\* Mutant: the swap does not wait for the readers of the old store.
SwapAtOnce(r) ==
  /\ pc[r] = "swap"
  /\ writer' = "holding"
  /\ old' = store
  /\ store' = candidate
  /\ current' = candidate
  /\ Goto(r, "retire")
  /\ UNCHANGED <<file, reloadMu, readers, blocked, candidate, failed, closed, lastError,
                 opened, leaseVars>>

\* Mutant: `old` is read after the assignment, so the new store is closed.
SwapOutOfOrder(r) ==
  /\ pc[r] = "swap"
  /\ AcquireLock
  /\ old' = candidate
  /\ store' = candidate
  /\ current' = candidate
  /\ Goto(r, "retire")
  /\ UNCHANGED <<file, reloadMu, candidate, failed, closed, lastError, opened, leaseVars>>

\* The swap, once every reader of the old store has left.
Swap(r) ==
  /\ pc[r] = "swap"
  /\ AcquireLock
  /\ old' = store
  /\ store' = candidate
  /\ current' = candidate
  /\ Goto(r, "retire")
  /\ UNCHANGED <<file, reloadMu, candidate, failed, closed, lastError, opened, leaseVars>>

\* The readers Unlock admits go on behind their RLock.
Admit(p, l) ==
  pc' = [q \in DOMAIN pc |-> IF q = p THEN l ELSE IF q \in blocked THEN "locked" ELSE pc[q]]

\* Mutant: mu.Unlock is skipped, as by an early return when old.Close fails.
RetireOldLocked(r) ==
  /\ pc[r] = "retire"
  /\ opened' = opened \ {old}
  /\ old' = NONE
  /\ Goto(r, "record")
  /\ UNCHANGED <<file, reloadMu, rw, candidate, failed, current, store, closed, lastError,
                 leaseVars>>

\* old.Close and mu.Unlock.
RetireOld(r) ==
  /\ pc[r] = "retire"
  /\ opened' = opened \ {old}
  /\ old' = NONE
  /\ ReleaseLock
  /\ Admit(r, "record")
  /\ UNCHANGED <<file, reloadMu, candidate, failed, current, store, closed, lastError,
                 leaseVars>>

\* mu.Lock a second time, for lastError.
BeginRecord(r) ==
  /\ pc[r] = "record"
  /\ AnnounceLock
  /\ Goto(r, "recording")
  /\ UNCHANGED <<file, reloadMu, local, handler, leaseVars>>

\* Mutant: an earlier error is not cleared by a reload that succeeds.
RecordOnlyFailures(r) ==
  /\ pc[r] = "recording"
  /\ writer = "waiting" /\ readers = {}
  /\ lastError' = (lastError \/ failed)
  /\ ReleaseLock
  /\ reloadMu' = NONE
  /\ Admit(r, "rlock")
  /\ UNCHANGED <<file, local, current, store, closed, opened, leaseVars>>

\* Mutant: reloadMu is not unlocked after a failed reload.
RecordKeepingReloadMu(r) ==
  /\ pc[r] = "recording"
  /\ writer = "waiting" /\ readers = {}
  /\ lastError' = failed
  /\ ReleaseLock
  /\ reloadMu' = IF failed THEN reloadMu ELSE NONE
  /\ Admit(r, "rlock")
  /\ UNCHANGED <<file, local, current, store, closed, opened, leaseVars>>

\* lastError is replaced, mu and reloadMu are unlocked.
Record(r) ==
  /\ pc[r] = "recording"
  /\ writer = "waiting" /\ readers = {}
  /\ lastError' = failed
  /\ ReleaseLock
  /\ reloadMu' = NONE
  /\ Admit(r, "rlock")
  /\ UNCHANGED <<file, local, current, store, closed, opened, leaseVars>>

-----------------------------------------------------------------------------
(* The lease: RLock until the response is encoded.                         *)

EnterRLock(r) ==
  /\ pc[r] = "rlock"
  /\ IF writer = "none"
     THEN readers' = readers \cup {r} /\ blocked' = blocked /\ Goto(r, "locked")
     ELSE readers' = readers /\ blocked' = blocked \cup {r} /\ Goto(r, "blocked")
  /\ UNCHANGED <<file, reloadMu, writer, local, handler, leaseVars>>

\* The generation is named in the header and handed to api.Handler.
Serve(r) ==
  /\ pc[r] = "locked" /\ ~closed
  /\ using' = [using EXCEPT ![r] = store]
  /\ header' = [header EXCEPT ![r] = current]
  /\ Goto(r, "serving")
  /\ UNCHANGED <<file, reloadMu, rw, local, handler>>

\* The response is encoded, or a closed handler answered 503: RUnlock.
Finish(r) ==
  /\ (pc[r] = "locked" /\ closed) \/ pc[r] = "serving"
  /\ readers' = readers \ {r}
  /\ using' = [using EXCEPT ![r] = NONE]
  /\ header' = [header EXCEPT ![r] = NONE]
  /\ Goto(r, "idle")
  /\ UNCHANGED <<file, reloadMu, writer, blocked, local, handler>>

-----------------------------------------------------------------------------
(* Close: reloadMu, then mu, then the store.                               *)

BeginClose ==
  /\ pc[CLOSER] = "idle" /\ reloadMu = NONE
  /\ reloadMu' = CLOSER
  /\ AnnounceLock
  /\ Goto(CLOSER, "swap")
  /\ UNCHANGED <<file, local, handler, leaseVars>>

MarkClosed ==
  /\ pc[CLOSER] = "swap"
  /\ AcquireLock
  /\ closed' = TRUE
  /\ Goto(CLOSER, "retire")
  /\ UNCHANGED <<file, reloadMu, local, current, store, lastError, opened, leaseVars>>

FinishClose ==
  /\ pc[CLOSER] = "retire"
  /\ opened' = opened \ {store}
  /\ ReleaseLock
  /\ reloadMu' = NONE
  /\ Admit(CLOSER, "closed")
  /\ UNCHANGED <<file, local, current, store, closed, lastError, leaseVars>>

-----------------------------------------------------------------------------
(* The environment: selection writers, and the generations on disk.        *)

SelectionChange ==
  /\ selection' \in (References \cup {NONE}) \ {selection}
  /\ UNCHANGED <<verifiable, reloadMu, rw, local, handler, pc, leaseVars>>

GenerationChange ==
  /\ verifiable' \in SUBSET References
  /\ verifiable' # verifiable
  /\ UNCHANGED <<selection, reloadMu, rw, local, handler, pc, leaseVars>>

-----------------------------------------------------------------------------
Reload(r) ==
  \/ ReadSelection(r) \/ Compare(r) \/ OpenCandidate(r) \/ RejectCandidate(r)
  \/ Swap(r) \/ RetireOld(r) \/ BeginRecord(r) \/ Record(r)

RequestStep(r) == Reload(r) \/ EnterRLock(r) \/ Serve(r) \/ Finish(r)

CloserStep == MarkClosed \/ FinishClose

Next ==
  \/ \E r \in Requests : StartReload(r) \/ SkipReload(r) \/ RequestStep(r)
  \/ BeginClose \/ CloserStep
  \/ SelectionChange \/ GenerationChange

Spec == Init /\ [][Next]_vars

\* A running goroutine goes on; a response is written within the server's
\* 35 s WriteTimeout.  Nothing makes requests arrive or the files change.
Fairness == (\A r \in Requests : WF_vars(RequestStep(r))) /\ WF_vars(CloserStep)

FairSpec == Spec /\ Fairness

-----------------------------------------------------------------------------
(* Properties.                                                             *)

Places == {"idle", "read", "compare", "verify", "swap", "retire", "record",
           "recording", "rlock", "blocked", "locked", "serving", "closed"}

TypeOK ==
  /\ selection \in References \cup {NONE}
  /\ verifiable \subseteq References
  /\ reloadMu \in Requests \cup {CLOSER, NONE}
  /\ writer \in {"none", "waiting", "holding"}
  /\ readers \subseteq Requests
  /\ blocked \subseteq Requests
  /\ candidate \in References \cup {NONE}
  /\ failed \in BOOLEAN
  /\ current \in References
  /\ store \in References
  /\ old \in References \cup {NONE}
  /\ closed \in BOOLEAN
  /\ lastError \in BOOLEAN
  /\ opened \subseteq References
  /\ pc \in [Requests \cup {CLOSER} -> Places]
  /\ using \in [Requests -> References \cup {NONE}]
  /\ header \in [Requests -> References \cup {NONE}]

\* A response is computed from an open store from its first query to its last
\* byte and names that store's generation, whatever reload or Close does
\* meanwhile: the lease of LiveHandler's comment.
ServedGenerationIsOpen ==
  \A r \in Requests : pc[r] = "serving" =>
    using[r] \in opened /\ header[r] = using[r]

\* No store leaks: two are open only while a reload is between opening the
\* candidate and closing the displaced one, and none after Close.
StoresAreAccountedFor ==
  /\ Cardinality(opened) <= 2
  /\ reloadMu = NONE => opened = IF closed THEN {} ELSE {current}

\* Health is honest between reloads: without an error the handler serves the
\* selection the last reload read, with one it does not (or it is closed).
HealthIsHonest ==
  reloadMu = NONE /\ ~closed => (lastError <=> candidate # current)

\* The handler is an implementation of leased immutable generations.
Abstract == INSTANCE LeasedGenerations WITH
  Clients <- Requests,
  Generations <- References,
  live <- IF closed THEN NONE ELSE current,
  loaded <- opened,
  held <- using

\* No step publishes an unopened generation or closes one a request uses.
ImplementsLeasedGenerations == Abstract!ASpec

\* Every request is answered: readers, the reload and Close cannot wait for
\* each other in a circle, and a writer that waits does not starve readers.
RequestsAreAnswered ==
  \A r \in Requests : pc[r] # "idle" ~> pc[r] = "idle"

\* A selection that stays and verifies is served after all, if requests keep
\* coming: losing TryLock only postpones it.
SelectionIsAdopted ==
  \A g \in References :
    /\ <>[](selection = g /\ g \in verifiable /\ pc[CLOSER] = "idle")
    /\ []<>(\E r \in Requests : pc[r] # "idle")
    => <>[](current = g)
=============================================================================
