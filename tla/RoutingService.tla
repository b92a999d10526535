---------------------------- MODULE RoutingService ----------------------------
(***************************************************************************)
(* routing.Service of internal/routing/service.go: one published snapshot  *)
(* of a prepared graph, a pool of `workers` single-owner readers per       *)
(* snapshot, a channel of `workers` admission tokens shared by successive  *)
(* snapshots, and a replacement that loads the next snapshot beside the    *)
(* current one, publishes it and closes the previous one once its leases   *)
(* are over.                                                               *)
(*                                                                         *)
(* Requests call Acquire and Lease.Close, controllers call Replace, Close  *)
(* and RecordSelectionError.  A call that is refused (ErrClosed, ErrBusy,  *)
(* a second Close) changes nothing and is a stuttering step here.          *)
(*                                                                         *)
(* Granularity.  Service.mu is only held over steps that do not block, so  *)
(* a section under it is one action, with one exception: Acquire takes a   *)
(* token and then a reader, and Lease.Close, which does not take mu, can   *)
(* run between the two.  `mu` is therefore the request between those two   *)
(* receives.  A mutex or channel operation that would block is a disabled  *)
(* action.  The identity of a snapshot is a memory cell: it is used again  *)
(* once nothing refers to it, so the number of replacements is unbounded.  *)
(***************************************************************************)
EXTENDS Naturals, FiniteSets

CONSTANTS
  Requests,      \* callers of Acquire
  Controllers,   \* callers of Replace and Close
  Snapshots,     \* identities of serviceSnapshot values
  Fingerprints,  \* identities of the files of a prepared directory
  Workers,       \* Service.workers
  NONE           \* nil

ASSUME WorkersAssumption == Workers \in Nat \ {0}
ASSUME RequestsAssumption == IsFiniteSet(Requests)
ASSUME NoneAssumption ==
  NONE \notin Requests \cup Controllers \cup Snapshots \cup Fingerprints

\* Readers of a snapshot, by the position at which Replace loaded them.
Reader == 1 .. Workers

VARIABLES
  mu,           \* the request inside Acquire, between its two receives
  slots,        \* tokens in Service.slots
  snapshot,     \* Service.snapshot
  closed,       \* Service.closed
  reloadError,  \* Service.reloadError is not empty
  replacement,  \* the controller that holds Service.replacement
  next,         \* the snapshot Replace is loading
  count,        \* how many of its readers are loaded
  retiring,     \* the snapshot whose close() is running
  open,         \* per snapshot: its readers whose files are open
  available,    \* per snapshot: the readers in its channel
  leases,       \* per snapshot: leases counted by its WaitGroup
  print,        \* per snapshot and reader: the fingerprint of its files
  metadata,     \* per snapshot: the fingerprint it publishes
  pc,           \* per request: where it is
  lease         \* per request: the snapshot and reader of its Lease

poolVars == <<slots, available, leases, pc, lease>>
loadVars == <<next, count, print, metadata>>
vars == <<mu, slots, snapshot, closed, reloadError, replacement, next, count,
          retiring, open, available, leases, print, metadata, pc, lease>>

NoLease == [snapshot |-> NONE, reader |-> 0]

\* OpenService: the token channel is full and the first Replace succeeded.
Init ==
  /\ mu = NONE /\ slots = Workers
  /\ closed = FALSE /\ reloadError = FALSE
  /\ replacement = NONE /\ next = NONE /\ count = 0 /\ retiring = NONE
  /\ snapshot \in Snapshots
  /\ open = [s \in Snapshots |-> IF s = snapshot THEN Reader ELSE {}]
  /\ available = open
  /\ leases = [s \in Snapshots |-> {}]
  /\ metadata \in [Snapshots -> Fingerprints]
  /\ print = [s \in Snapshots |-> [i \in Reader |-> metadata[s]]]
  /\ pc = [r \in Requests |-> "idle"]
  /\ lease = [r \in Requests |-> NoLease]

-----------------------------------------------------------------------------
(* Requests: Acquire and Lease.Close.                                      *)

\* Acquire under mu: the service is open and a token was in the channel.
TakeSlot(r) ==
  /\ pc[r] = "idle"
  /\ mu = NONE
  /\ ~closed /\ snapshot # NONE
  /\ slots > 0
  /\ slots' = slots - 1
  /\ mu' = r
  /\ pc' = [pc EXCEPT ![r] = "slotted"]
  /\ UNCHANGED <<snapshot, closed, reloadError, replacement, loadVars, retiring,
                 open, available, leases, lease>>

\* Acquire, still under mu: a reader of the current snapshot is leased, or, if
\* its channel is empty, the token goes back and the call returns ErrBusy.
TakeReader(r) ==
  /\ pc[r] = "slotted"
  /\ mu' = NONE
  /\ IF available[snapshot] = {}
     THEN /\ slots' = slots + 1
          /\ pc' = [pc EXCEPT ![r] = "idle"]
          /\ UNCHANGED <<available, leases, lease>>
     ELSE \E i \in available[snapshot] :
          /\ available' = [available EXCEPT ![snapshot] = @ \ {i}]
          /\ leases' = [leases EXCEPT ![snapshot] = @ \cup {r}]
          /\ lease' = [lease EXCEPT ![r] = [snapshot |-> snapshot, reader |-> i]]
          /\ pc' = [pc EXCEPT ![r] = "leased"]
          /\ UNCHANGED slots
  /\ UNCHANGED <<snapshot, closed, reloadError, replacement, loadVars, retiring, open>>

\* Lease.Close, first statement: the reader is sent back to its channel.
ReturnReader(r) ==
  LET s == lease[r].snapshot IN
  /\ pc[r] = "leased"
  /\ Cardinality(available[s]) < Workers
  /\ available' = [available EXCEPT ![s] = @ \cup {lease[r].reader}]
  /\ pc' = [pc EXCEPT ![r] = "returned"]
  /\ UNCHANGED <<mu, slots, snapshot, closed, reloadError, replacement, loadVars,
                 retiring, open, leases, lease>>

\* Mutant: leases.Done is forgotten.
EndLeaseWithoutDone(r) ==
  /\ pc[r] = "returned"
  /\ lease' = [lease EXCEPT ![r] = NoLease]
  /\ pc' = [pc EXCEPT ![r] = "ended"]
  /\ UNCHANGED <<mu, slots, snapshot, closed, reloadError, replacement, loadVars,
                 retiring, open, available, leases>>

\* Lease.Close, second statement: leases.Done.
EndLease(r) ==
  LET s == lease[r].snapshot IN
  /\ pc[r] = "returned"
  /\ leases' = [leases EXCEPT ![s] = @ \ {r}]
  /\ lease' = [lease EXCEPT ![r] = NoLease]
  /\ pc' = [pc EXCEPT ![r] = "ended"]
  /\ UNCHANGED <<mu, slots, snapshot, closed, reloadError, replacement, loadVars,
                 retiring, open, available>>

\* Lease.Close, third statement: the token is sent back.
ReturnSlot(r) ==
  /\ pc[r] = "ended"
  /\ slots < Workers
  /\ slots' = slots + 1
  /\ pc' = [pc EXCEPT ![r] = "idle"]
  /\ UNCHANGED <<mu, snapshot, closed, reloadError, replacement, loadVars, retiring,
                 open, available, leases, lease>>

-----------------------------------------------------------------------------
(* Controllers: Replace, serviceSnapshot.close, Close.                     *)

\* A cell nothing refers to any more can become the next snapshot.
Unused(s) == s # snapshot /\ open[s] = {} /\ leases[s] = {}

\* Replace takes `replacement`, finds the service open, allocates the snapshot.
BeginReplace(c) ==
  /\ replacement = NONE
  /\ mu = NONE /\ ~closed
  /\ replacement' = c
  /\ \E s \in Snapshots :
       /\ Unused(s)
       /\ next' = s
       /\ available' = [available EXCEPT ![s] = {}]
  /\ count' = 0
  /\ UNCHANGED <<mu, slots, snapshot, closed, reloadError, retiring, open, leases,
                 print, metadata, pc, lease>>

\* Mutant: the fingerprint of a later reader is not compared.
LoadReaderUnchecked(c) ==
  /\ replacement = c /\ next # NONE
  /\ count < Workers
  /\ count' = count + 1
  /\ open' = [open EXCEPT ![next] = @ \cup {count + 1}]
  /\ \E f \in Fingerprints :
       /\ print' = [print EXCEPT ![next][count + 1] = f]
       /\ metadata' = IF count = 0 THEN [metadata EXCEPT ![next] = f] ELSE metadata
  /\ available' = [available EXCEPT ![next] = @ \cup {count + 1}]
  /\ UNCHANGED <<mu, slots, snapshot, closed, reloadError, replacement, next,
                 retiring, leases, pc, lease>>

\* One turn of the loop: a reader is opened, its potential and landmarks are
\* attached, and its fingerprint is that of the first one.
LoadReader(c) ==
  /\ replacement = c /\ next # NONE
  /\ count < Workers
  /\ count' = count + 1
  /\ open' = [open EXCEPT ![next] = @ \cup {count + 1}]
  /\ \E f \in Fingerprints :
       /\ count > 0 => f = metadata[next]
       /\ print' = [print EXCEPT ![next][count + 1] = f]
       /\ metadata' = IF count = 0 THEN [metadata EXCEPT ![next] = f] ELSE metadata
  /\ available' = [available EXCEPT ![next] = @ \cup {count + 1}]
  /\ UNCHANGED <<mu, slots, snapshot, closed, reloadError, replacement, next,
                 retiring, leases, pc, lease>>

\* Mutant: the error of a failed load is only returned.
FailLoadSilently(c) ==
  /\ replacement = c /\ next # NONE
  /\ count < Workers
  /\ \E opened \in BOOLEAN :
       open' = [open EXCEPT ![next] = IF opened THEN @ \cup {count + 1} ELSE @]
  /\ retiring' = next
  /\ next' = NONE
  /\ UNCHANGED <<mu, slots, snapshot, closed, reloadError, replacement, count, available,
                 leases, print, metadata, pc, lease>>

\* Mutant: the old snapshot is withdrawn when its successor fails to load.
FailLoadWithdrawing(c) ==
  /\ replacement = c /\ next # NONE
  /\ count < Workers
  /\ mu = NONE
  /\ reloadError' = TRUE
  /\ snapshot' = NONE
  /\ retiring' = snapshot
  /\ next' = NONE
  /\ UNCHANGED <<mu, slots, closed, replacement, count, open, available, leases,
                 print, metadata, pc, lease>>

\* A turn that fails records the error under mu; the deferred close then
\* closes what was loaded.  The reader of this turn is in the list when the
\* failure is EnablePotential's, EnableLandmarks's or a foreign fingerprint,
\* and is not when OpenPreparedRouter itself failed.
FailLoad(c) ==
  /\ replacement = c /\ next # NONE
  /\ count < Workers
  /\ mu = NONE
  /\ reloadError' = TRUE
  /\ \E opened \in BOOLEAN :
       open' = [open EXCEPT ![next] = IF opened THEN @ \cup {count + 1} ELSE @]
  /\ retiring' = next
  /\ next' = NONE
  /\ UNCHANGED <<mu, slots, snapshot, closed, replacement, count, available, leases,
                 print, metadata, pc, lease>>

\* The context is cancelled after the last reader: nothing is recorded.
Abandon(c) ==
  /\ replacement = c /\ next # NONE
  /\ count = Workers
  /\ retiring' = next
  /\ next' = NONE
  /\ UNCHANGED <<mu, slots, snapshot, closed, reloadError, replacement, count, open,
                 available, leases, print, metadata, pc, lease>>

\* Mutant: the snapshot is published as soon as one reader is loaded.
PublishEarly(c) ==
  /\ replacement = c /\ next # NONE
  /\ count > 0
  /\ mu = NONE
  /\ snapshot' = next
  /\ reloadError' = FALSE
  /\ retiring' = snapshot
  /\ next' = NONE
  /\ UNCHANGED <<mu, slots, closed, replacement, count, open, available, leases,
                 print, metadata, pc, lease>>

\* The swap under mu; previous.close() follows, `replacement` still held.
Publish(c) ==
  /\ replacement = c /\ next # NONE
  /\ count = Workers
  /\ mu = NONE
  /\ snapshot' = next
  /\ reloadError' = FALSE
  /\ retiring' = snapshot
  /\ next' = NONE
  /\ UNCHANGED <<mu, slots, closed, replacement, count, open, available, leases,
                 print, metadata, pc, lease>>

\* Close takes `replacement`, marks the service closed, withdraws the snapshot.
BeginClose(c) ==
  /\ replacement = NONE
  /\ mu = NONE /\ ~closed
  /\ replacement' = c
  /\ closed' = TRUE
  /\ retiring' = snapshot
  /\ snapshot' = NONE
  /\ UNCHANGED <<mu, slots, reloadError, loadVars, open, available, leases, pc, lease>>

\* Mutant: the readers are closed without waiting for the leases.
CloseReaderAtOnce(c) ==
  /\ replacement = c /\ retiring # NONE
  /\ \E i \in open[retiring] : open' = [open EXCEPT ![retiring] = @ \ {i}]
  /\ UNCHANGED <<mu, slots, snapshot, closed, reloadError, replacement, loadVars,
                 retiring, available, leases, pc, lease>>

\* serviceSnapshot.close: leases.Wait has returned, one reader is closed.
CloseReader(c) ==
  /\ replacement = c /\ retiring # NONE
  /\ leases[retiring] = {}
  /\ \E i \in open[retiring] : open' = [open EXCEPT ![retiring] = @ \ {i}]
  /\ UNCHANGED <<mu, slots, snapshot, closed, reloadError, replacement, loadVars,
                 retiring, available, leases, pc, lease>>

\* Mutant: the call returns without closing the last reader.
FinishRetiringEarly(c) ==
  /\ replacement = c /\ retiring # NONE
  /\ leases[retiring] = {} /\ Cardinality(open[retiring]) <= 1
  /\ replacement' = NONE
  /\ retiring' = NONE
  /\ UNCHANGED <<mu, slots, snapshot, closed, reloadError, loadVars, open, available,
                 leases, pc, lease>>

\* Every reader is closed: the call returns and `replacement` is unlocked.
FinishRetiring(c) ==
  /\ replacement = c /\ retiring # NONE
  /\ leases[retiring] = {} /\ open[retiring] = {}
  /\ replacement' = NONE
  /\ retiring' = NONE
  /\ UNCHANGED <<mu, slots, snapshot, closed, reloadError, loadVars, open, available,
                 leases, pc, lease>>

\* RecordSelectionError: the watcher sets or clears the diagnostic under mu.
RecordSelectionError ==
  /\ mu = NONE
  /\ reloadError' \in BOOLEAN
  /\ UNCHANGED <<mu, slots, snapshot, closed, replacement, loadVars, retiring, open,
                 available, leases, pc, lease>>

-----------------------------------------------------------------------------
RequestStep(r) ==
  TakeReader(r) \/ ReturnReader(r) \/ EndLease(r) \/ ReturnSlot(r)

ReplacementStep(c) ==
  \/ LoadReader(c) \/ FailLoad(c) \/ Abandon(c) \/ Publish(c)
  \/ CloseReader(c) \/ FinishRetiring(c)

Next ==
  \/ \E r \in Requests : TakeSlot(r) \/ RequestStep(r)
  \/ \E c \in Controllers : BeginReplace(c) \/ BeginClose(c) \/ ReplacementStep(c)
  \/ RecordSelectionError

Spec == Init /\ [][Next]_vars

\* A handler runs its route under a 30 s context and closes its lease in a
\* defer, so a request in Acquire or holding a lease always moves on; a
\* controller that holds `replacement` runs to its return, and a sync.Mutex
\* waiter is not overtaken for ever (starvation mode), hence SF.
Fairness ==
  /\ \A r \in Requests : WF_vars(RequestStep(r))
  /\ \A c \in Controllers : SF_vars(ReplacementStep(c))

FairSpec == Spec /\ Fairness
-----------------------------------------------------------------------------
(* Properties.                                                             *)

TypeOK ==
  /\ mu \in Requests \cup {NONE}
  /\ slots \in 0 .. Workers
  /\ snapshot \in Snapshots \cup {NONE}
  /\ closed \in BOOLEAN
  /\ reloadError \in BOOLEAN
  /\ replacement \in Controllers \cup {NONE}
  /\ next \in Snapshots \cup {NONE}
  /\ count \in 0 .. Workers
  /\ retiring \in Snapshots \cup {NONE}
  /\ open \in [Snapshots -> SUBSET Reader]
  /\ available \in [Snapshots -> SUBSET Reader]
  /\ leases \in [Snapshots -> SUBSET Requests]
  /\ print \in [Snapshots -> [Reader -> Fingerprints]]
  /\ metadata \in [Snapshots -> Fingerprints]
  /\ pc \in [Requests -> {"idle", "slotted", "leased", "returned", "ended"}]
  /\ lease \in [Requests -> [snapshot : Snapshots \cup {NONE}, reader : 0 .. Workers]]

\* A reader in use is open, is not offered to anybody else and has one owner:
\* readers cache pages without a lock ("independent, single-owner readers"), so
\* neither retirement nor another Acquire may reach one before Lease.Close.
LeasedReaderIsOwned ==
  \A r \in Requests : pc[r] = "leased" =>
    LET l == lease[r] IN
    /\ l.reader \in open[l.snapshot] \ available[l.snapshot]
    /\ \A q \in Requests \ {r} : pc[q] = "leased" => lease[q] # l

\* Whoever obtains a token finds a reader in the current snapshot, across any
\* number of replacements: the second ErrBusy of Acquire is never returned,
\* because a reader is sent back before its token and a snapshot is published
\* with all its readers.
TokenBacksReader ==
  /\ mu = NONE /\ snapshot # NONE /\ slots > 0 => available[snapshot] # {}
  /\ \A r \in Requests : pc[r] = "slotted" => available[snapshot] # {}

\* The sends of Lease.Close find room: a handler is never stuck in its defer.
SendsNeverBlock ==
  \A r \in Requests :
    /\ pc[r] = "leased" => Cardinality(available[lease[r].snapshot]) < Workers
    /\ pc[r] = "ended" => slots < Workers

\* "Replace serializes old/new overlap": at most the current snapshot and one
\* being loaded or retired hold files and page caches, whatever the number of
\* concurrent Replace and Close calls.
AtMostTwoSnapshotsOpen ==
  Cardinality({s \in Snapshots : open[s] # {}}) <= 2

\* The snapshot identity a response reports is that of the files its reader
\* has open, even when the directory changed while Replace was loading it.
ResponseNamesItsData ==
  \A r \in Requests : pc[r] = "leased" =>
    LET l == lease[r] IN print[l.snapshot][l.reader] = metadata[l.snapshot]

\* When Close has returned no reader is open and no lease is left, so nothing
\* of the service survives it.
CloseReleasesEverything ==
  closed /\ replacement = NONE =>
    \A s \in Snapshots : open[s] = {} /\ leases[s] = {}

\* The service is an implementation of leased immutable generations.
Abstract == INSTANCE LeasedGenerations WITH
  Clients <- Requests,
  Generations <- Snapshots,
  live <- snapshot,
  loaded <- {s \in Snapshots : open[s] = Reader},
  held <- [r \in Requests |-> lease[r].snapshot]

\* Loading, publishing, leasing and retiring follow the abstract protocol: no
\* step publishes a partly loaded snapshot or starts to close one in use.
ImplementsLeasedGenerations == Abstract!ASpec

\* A call of Replace or Close that holds `replacement` returns: waiting for the
\* leases of the old snapshot cannot last for ever.
ReplacementReturns ==
  \A c \in Controllers : replacement = c ~> replacement = NONE

\* A snapshot that is not published, whether it failed to load, was abandoned
\* or was replaced, does not keep its files open for ever.
UnpublishedFilesAreClosed ==
  \A s \in Snapshots : open[s] # {} ~> (open[s] = {} \/ s = snapshot)
=============================================================================
