--------------------------- MODULE MCRoutingService ---------------------------
(* Small instances of RoutingService for TLC.                              *)
EXTENDS RoutingService, TLC

\* Requests, controllers, snapshot cells and fingerprints are interchangeable.
Symmetry ==
  Permutations(Requests) \cup Permutations(Controllers)
    \cup Permutations(Snapshots) \cup Permutations(Fingerprints)
=============================================================================
