----------------------------- MODULE RoutingServer -----------------------------
(***************************************************************************)
(* The routing half of cmd/server: requests pass api.RoutingAdmission and  *)
(* hold a routing.Service lease, watchRoutingSelection replaces the        *)
(* service's snapshot when its selection file changes, and a signal or a   *)
(* failed listener closes everything in the order of serve and cleanup.    *)
(*                                                                         *)
(* It composes RoutingService: every step is a step of the service, of     *)
(* its surroundings, or of both.  The service's controllers are the        *)
(* watcher goroutine and the main goroutine.                               *)
(***************************************************************************)
EXTENDS RoutingService

CONSTANTS
  WATCHER,     \* the goroutine of watchRoutingSelection
  MAIN,        \* the goroutine of serve
  Directories, \* prepared directories a selection can name
  EMPTY        \* no bytes: the empty string, an empty selection file

ASSUME ControllersAssumption == Controllers = {WATCHER, MAIN} /\ WATCHER # MAIN
ASSUME DirectoriesAssumption == {NONE, EMPTY} \cap Directories = {} /\ NONE # EMPTY

\* What the selection file can hold; NONE: it is unreadable or malformed.
Contents == Directories \cup {NONE, EMPTY}

VARIABLES
  admitted,   \* requests with a slot of RoutingAdmission's channel
  stage,      \* per request: "out", "admitted" or "encoded"
  answer,     \* per request: how its last call was answered
  selection,  \* the bytes of the selection file
  last,       \* the watcher's `last`
  seen,       \* history: what the watcher's last tick found in the file
  watching,   \* the watcher: "asleep", "replacing", "loading" or "stopped"
  directory,  \* per snapshot: metadata.Directory
  phase,      \* MAIN: "serving", "draining", "joining", "closing", "exited"
  accepting   \* connections can still bring requests

httpVars == <<admitted, stage, answer>>
watchVars == <<last, seen, watching, directory>>
mainVars == <<phase, accepting>>
surroundings == <<httpVars, selection, watchVars, mainVars>>
serverVars == <<vars, surroundings>>

Cancelled == phase # "serving"

ServerInit ==
  /\ Init
  /\ admitted = {}
  /\ stage = [r \in Requests |-> "out"]
  /\ answer = [r \in Requests |-> "none"]
  /\ selection \in Contents
  /\ last = EMPTY /\ watching = "asleep"
  /\ directory \in [Snapshots -> Directories]
  /\ seen = directory[snapshot]
  /\ phase = "serving" /\ accepting = TRUE

-----------------------------------------------------------------------------
(* A request: RoutingAdmission around computeScoutRoute.                   *)

Answer(r, s, a) == stage' = [stage EXCEPT ![r] = s] /\ answer' = [answer EXCEPT ![r] = a]

\* RoutingAdmission: a slot of its own channel, or 429.
Arrive(r) ==
  /\ stage[r] = "out" /\ accepting
  /\ IF Cardinality(admitted) < Workers
     THEN admitted' = admitted \cup {r} /\ Answer(r, "admitted", "none")
     ELSE admitted' = admitted /\ Answer(r, "out", "limited")
  /\ UNCHANGED <<vars, selection, watchVars, mainVars>>

\* The body is invalid or a waypoint does not resolve: no lease is taken.
RefuseInput(r) ==
  /\ stage[r] = "admitted" /\ pc[r] = "idle"
  /\ Answer(r, "encoded", "invalid")
  /\ UNCHANGED <<vars, admitted, selection, watchVars, mainVars>>

\* Acquire, in its two parts; ErrBusy is answered with 429.
AcquireSlot(r) ==
  /\ stage[r] = "admitted" /\ pc[r] = "idle"
  /\ TakeSlot(r)
  /\ UNCHANGED surroundings

AcquireReader(r) ==
  /\ TakeReader(r)
  /\ IF available[snapshot] = {} THEN Answer(r, "encoded", "busy") ELSE UNCHANGED <<stage, answer>>
  /\ UNCHANGED <<admitted, selection, watchVars, mainVars>>

\* Acquire finds no snapshot, as in a closed service (503), or no token (429).
AcquireRefused(r) ==
  /\ stage[r] = "admitted" /\ pc[r] = "idle"
  /\ mu = NONE
  /\ snapshot = NONE \/ slots = 0
  /\ Answer(r, "encoded", IF snapshot = NONE THEN "unavailable" ELSE "busy")
  /\ UNCHANGED <<vars, admitted, selection, watchVars, mainVars>>

\* The response is encoded; the deferred Lease.Close runs.
CloseLease(r) ==
  \/ (ReturnReader(r) \/ EndLease(r)) /\ UNCHANGED surroundings
  \/ /\ ReturnSlot(r)
     /\ Answer(r, "encoded", "served")
     /\ UNCHANGED <<admitted, selection, watchVars, mainVars>>

\* Mutant: admission ends when the lease starts.
LeaveEarly(r) ==
  /\ stage[r] = "encoded" \/ pc[r] = "leased"
  /\ r \in admitted
  /\ admitted' = admitted \ {r}
  /\ Answer(r, "out", answer[r])
  /\ UNCHANGED <<vars, selection, watchVars, mainVars>>

\* RoutingAdmission's deferred receive.
Leave(r) ==
  /\ stage[r] = "encoded"
  /\ admitted' = admitted \ {r}
  /\ Answer(r, "out", "none")
  /\ UNCHANGED <<vars, selection, watchVars, mainVars>>

-----------------------------------------------------------------------------
(* watchRoutingSelection.                                                  *)

\* Service.Status: metadata.Directory, the zero value without a snapshot.
StatusDirectory == IF snapshot = NONE THEN EMPTY ELSE directory[snapshot]

\* Mutant: a file that names what is served already clears nothing.
TickKeepingError ==
  /\ watching = "asleep" /\ mu = NONE
  /\ seen' = selection
  /\ last' = IF selection \in Directories THEN selection ELSE EMPTY
  /\ LET replace == selection \in Directories \ {last, StatusDirectory} IN
     /\ watching' = IF replace THEN "replacing" ELSE "asleep"
     /\ reloadError' = (reloadError \/ selection = NONE)
  /\ UNCHANGED <<mu, slots, snapshot, closed, replacement, loadVars, retiring, open,
                 available, leases, pc, lease, httpVars, selection, directory, mainVars>>

\* Mutant: the diagnostic is written without mu.
TickUnlocked ==
  /\ watching = "asleep"
  /\ seen' = selection
  /\ last' = IF selection \in Directories THEN selection ELSE EMPTY
  /\ watching' = IF selection \in Directories \ {last, StatusDirectory}
                 THEN "replacing" ELSE "asleep"
  /\ reloadError' = IF selection = last THEN reloadError
                    ELSE selection \notin Directories
                         \/ (reloadError /\ selection # StatusDirectory)
  /\ UNCHANGED <<mu, slots, snapshot, closed, replacement, loadVars, retiring, open,
                 available, leases, pc, lease, httpVars, selection, directory, mainVars>>

\* One tick.  Bytes that equal `last` are skipped, unless the file could not be
\* read; an invalid file is reported and resets `last`; a directory that is
\* served already clears the diagnostic; any other directory is a replacement.
\* Status and RecordSelectionError take mu, and until MAIN has joined the
\* watcher nobody else changes what they compare.
Tick ==
  /\ watching = "asleep" /\ mu = NONE
  /\ seen' = selection
  /\ last' = IF selection \in Directories THEN selection ELSE EMPTY
  /\ watching' = IF selection \in Directories \ {last, StatusDirectory}
                 THEN "replacing" ELSE "asleep"
  /\ reloadError' = IF selection = last THEN reloadError
                    ELSE selection \notin Directories
                         \/ (reloadError /\ selection # StatusDirectory)
  /\ UNCHANGED <<mu, slots, snapshot, closed, replacement, loadVars, retiring, open,
                 available, leases, pc, lease, httpVars, selection, directory, mainVars>>

\* Replace(ctx, dir) begins ...
WatcherReplaces ==
  /\ watching = "replacing"
  /\ BeginReplace(WATCHER)
  /\ directory' = [directory EXCEPT ![next'] = last]
  /\ watching' = "loading"
  /\ UNCHANGED <<httpVars, selection, last, seen, mainVars>>

\* ... loads, fails or publishes; only a cancelled context abandons it ...
WatcherLoads ==
  /\ \/ LoadReader(WATCHER) \/ FailLoad(WATCHER) \/ (Cancelled /\ Abandon(WATCHER))
     \/ Publish(WATCHER) \/ CloseReader(WATCHER)
  /\ UNCHANGED surroundings

\* ... and returns.
WatcherReturns ==
  /\ FinishRetiring(WATCHER)
  /\ watching' = "asleep"
  /\ UNCHANGED <<httpVars, selection, last, seen, directory, mainVars>>

\* select picks ctx.Done.
WatcherStops ==
  /\ watching = "asleep" /\ Cancelled
  /\ watching' = "stopped"
  /\ UNCHANGED <<vars, httpVars, selection, last, seen, directory, mainVars>>

-----------------------------------------------------------------------------
(* serve and cleanup.                                                      *)

\* SIGINT or SIGTERM cancels the context; Shutdown stops accepting.
Signal ==
  /\ phase = "serving"
  /\ phase' = "draining" /\ accepting' = FALSE
  /\ UNCHANGED <<vars, httpVars, selection, watchVars>>

\* Accept failed: serve returns at once, open connections live on.
ListenerFails ==
  /\ phase = "serving"
  /\ phase' = "joining"
  /\ UNCHANGED <<vars, httpVars, selection, watchVars, accepting>>

\* Shutdown returns when the requests are done or after 35 s; either way the
\* deferred cleanup follows.
EndDrain ==
  /\ phase = "draining"
  /\ phase' = "joining"
  /\ UNCHANGED <<vars, httpVars, selection, watchVars, accepting>>

\* Mutant: the closers run in the order of their registration.
CloseRouterFirst ==
  /\ phase = "joining"
  /\ BeginClose(MAIN)
  /\ phase' = "closing"
  /\ UNCHANGED <<httpVars, selection, watchVars, accepting>>

\* cleanup, last closer first: the watcher is joined, then router.Close runs.
CloseRouter ==
  /\ phase = "joining" /\ watching = "stopped"
  /\ BeginClose(MAIN)
  /\ phase' = "closing"
  /\ UNCHANGED <<httpVars, selection, watchVars, accepting>>

FinishClosing ==
  \/ CloseReader(MAIN) /\ UNCHANGED surroundings
  \/ /\ FinishRetiring(MAIN)
     /\ phase' = "exited" /\ accepting' = FALSE
     /\ UNCHANGED <<httpVars, selection, watchVars>>

\* Somebody writes the selection file.
SelectionChange ==
  /\ selection' \in Contents \ {selection}
  /\ UNCHANGED <<vars, httpVars, watchVars, mainVars>>

-----------------------------------------------------------------------------
HandlerStep(r) ==
  \/ RefuseInput(r) \/ AcquireSlot(r) \/ AcquireReader(r) \/ AcquireRefused(r)
  \/ CloseLease(r) \/ Leave(r)

ReplaceStep == WatcherReplaces \/ WatcherLoads \/ WatcherReturns

\* The two goroutines: inside the watcher's loop, and MAIN after serve returned.
WatcherStep == Tick \/ ReplaceStep
MainStep == EndDrain \/ CloseRouter \/ FinishClosing

ServerNext ==
  \/ \E r \in Requests : Arrive(r) \/ HandlerStep(r)
  \/ Tick \/ ReplaceStep \/ WatcherStops
  \/ Signal \/ ListenerFails \/ EndDrain \/ CloseRouter \/ FinishClosing
  \/ SelectionChange

ServerSpec == ServerInit /\ [][ServerNext]_serverVars

\* A handler runs to its end, the ticker ticks, select chooses among ready
\* cases at random, Shutdown has a timeout, and a sync.Mutex hands itself to
\* the waiters that an unlucky schedule would starve (SF).
ServerFairness ==
  /\ \A r \in Requests : WF_serverVars(HandlerStep(r))
  /\ SF_serverVars(WatcherStep) /\ SF_serverVars(WatcherStops)
  /\ SF_serverVars(MainStep)

FairServerSpec == ServerSpec /\ ServerFairness

-----------------------------------------------------------------------------
(* Properties.                                                             *)

ServerTypeOK ==
  /\ TypeOK
  /\ admitted \subseteq Requests
  /\ stage \in [Requests -> {"out", "admitted", "encoded"}]
  /\ answer \in [Requests -> {"none", "limited", "invalid", "busy", "unavailable", "served"}]
  /\ selection \in Contents
  /\ last \in Directories \cup {EMPTY}
  /\ seen \in Contents
  /\ watching \in {"asleep", "replacing", "loading", "stopped"}
  /\ directory \in [Snapshots -> Directories]
  /\ phase \in {"serving", "draining", "joining", "closing", "exited"}
  /\ accepting \in BOOLEAN

\* The server uses routing.Service as its model allows, so what holds of every
\* behavior of RoutingService holds inside the server.
UsesTheService == Spec

\* "RoutingAdmission shares a fixed request budget across snapshot replacements":
\* it is the only limit, a request it let in never meets ErrBusy of the service,
\* whose tokens and readers are conserved through every replacement.
AdmittedIsNeverBusy == \A r \in Requests : answer[r] # "busy"

\* "A failed load preserves the old snapshot" and a successful one leaves no
\* gap: no routing request is answered 503 before the process goes down.
AvailableUntilShutdown ==
  \A r \in Requests : answer[r] = "unavailable" => phase \in {"closing", "exited"}

\* /healthz agrees with the selection file: while the watcher sleeps there is
\* an error exactly when the directory it last found there is not the one that
\* is served, whatever sequence of files, failures and replacements led there.
HealthMatchesSelection ==
  phase = "serving" /\ watching = "asleep" /\ seen \in Directories =>
    (reloadError <=> StatusDirectory # seen)

\* When serve returns, no goroutine and no reader of the service is left, even
\* if Shutdown timed out or the listener failed with requests in flight.
ExitLeavesNothing ==
  phase = "exited" =>
    /\ watching = "stopped" /\ replacement = NONE
    /\ \A s \in Snapshots : open[s] = {} /\ leases[s] = {}
    /\ \A r \in Requests : pc[r] \in {"idle", "ended"}

\* A process that was told to stop does: neither the watcher, in the middle of
\* a replacement, nor router.Close, waiting for leases, holds it up for ever.
ShutdownCompletes == Cancelled ~> phase = "exited"

\* A selection that stays is served in the end, or an error says why not.
SelectionIsFollowed ==
  <>[](selection \in Directories /\ phase = "serving") /\ <>[][FALSE]_selection
    => <>[](watching = "asleep" /\ (StatusDirectory = selection \/ reloadError))

\* internal/routing/service.go:155 "RecordSelectionError exposes a failed
\* selection-file read/parse": a file that is no selection shows in /healthz.
InvalidSelectionIsReported ==
  phase = "serving" /\ watching = "asleep" /\ seen \in {NONE, EMPTY} => reloadError
=============================================================================
