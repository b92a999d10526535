---------------------------- MODULE MCSelectionFile ----------------------------
(* Small instances of SelectionFile for TLC.                               *)
EXTENDS SelectionFile, TLC

\* Runs of the commands, directories and contents are interchangeable.
Symmetry == Permutations(Processes) \cup Permutations(Paths) \cup Permutations(Digests)
=============================================================================
