----------------------------- MODULE MCLiveHandler -----------------------------
(* Small instances of LiveHandler for TLC.                                 *)
EXTENDS LiveHandler, TLC

\* Requests and generations are interchangeable.
Symmetry == Permutations(Requests) \cup Permutations(References)
=============================================================================
