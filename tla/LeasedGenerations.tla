-------------------------- MODULE LeasedGenerations --------------------------
(***************************************************************************)
(* What every serving component of openmaps promises about the immutable   *)
(* data it serves from: a generation is loaded completely before it is     *)
(* published, a request is bound to one generation from the moment it      *)
(* takes a lease until it gives the lease back, and a generation is closed *)
(* only when it is no longer current and no request is bound to it.        *)
(*                                                                         *)
(* routing.Service (service.go, "Service owns an immutable generation ..." *)
(* and "Replace ... retires old readers after their leases") and           *)
(* duckdb.LiveHandler (selection.go, "verifies and opens a replacement     *)
(* before swapping, and closes the old generation only after in-flight     *)
(* readers release the shared lease") are two implementations of it.       *)
(***************************************************************************)
CONSTANTS
  Clients,      \* the requests that take leases
  Generations,  \* identities of loaded generations
  NONE          \* no generation

VARIABLES
  live,         \* the published generation, or NONE
  loaded,       \* the generations whose files are all open
  held          \* the generation each client is bound to, or NONE

avars == <<live, loaded, held>>

AInit ==
  /\ \E g \in Generations : live = g /\ loaded = {g}
  /\ held = [c \in Clients |-> NONE]

\* A replacement has been opened and verified; nobody can see it yet.
Load(g) ==
  /\ g \notin loaded
  /\ loaded' = loaded \cup {g}
  /\ UNCHANGED <<live, held>>

Publish(g) ==
  /\ live # NONE
  /\ g \in loaded
  /\ live' = g
  /\ UNCHANGED <<loaded, held>>

TakeLease(c) ==
  /\ live # NONE
  /\ held[c] = NONE
  /\ held' = [held EXCEPT ![c] = live]
  /\ UNCHANGED <<live, loaded>>

EndLease(c) ==
  /\ held[c] # NONE
  /\ held' = [held EXCEPT ![c] = NONE]
  /\ UNCHANGED <<live, loaded>>

\* Closing begins: the generation can no longer be used by anybody.
Retire(g) ==
  /\ g \in loaded
  /\ g # live
  /\ \A c \in Clients : held[c] # g
  /\ loaded' = loaded \ {g}
  /\ UNCHANGED <<live, held>>

Shutdown ==
  /\ live # NONE
  /\ live' = NONE
  /\ UNCHANGED <<loaded, held>>

ANext ==
  \/ \E g \in Generations : Load(g) \/ Publish(g) \/ Retire(g)
  \/ \E c \in Clients : TakeLease(c) \/ EndLease(c)
  \/ Shutdown

ASpec == AInit /\ [][ANext]_avars

\* A client is never bound to a generation whose files have been closed, and
\* the published generation is always open: what the lease comments promise.
LeasesAreBacked ==
  /\ live # NONE => live \in loaded
  /\ \A c \in Clients : held[c] # NONE => held[c] \in loaded
=============================================================================
