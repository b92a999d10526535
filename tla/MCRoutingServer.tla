---------------------------- MODULE MCRoutingServer ----------------------------
(* Small instances of RoutingServer for TLC.                               *)
EXTENDS RoutingServer, TLC

\* Requests, snapshot cells and directories are interchangeable.
Symmetry == Permutations(Requests) \cup Permutations(Snapshots) \cup Permutations(Directories)
=============================================================================
