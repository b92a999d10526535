-------------------------------- MODULE Orders --------------------------------
(***************************************************************************)
(* Sequences that are sorted or selected from, defined by what comes before *)
(* what.  An order on a set is the set of pairs <<k, l>> of its members     *)
(* where k comes before l.                                                 *)
(***************************************************************************)
EXTENDS Integers, FiniteSets, SequencesExt

\* The members of a finite set in an order: a member's place is one after those
\* that come before it.
InOrder(S, before) ==
  LET place == [k \in S |-> Cardinality({l \in S : <<l, k>> \in before}) + 1]
  IN  Inverse(place, S, 1..Cardinality(S))

\* The elements of s at some of its positions, in the order of the positions.
Ascending(positions) ==
  InOrder(positions, {p \in positions \X positions : p[1] < p[2]})
Picked(s, positions) ==
  LET order == Ascending(positions) IN [n \in 1..Cardinality(positions) |-> s[order[n]]]
Select(s, Test(_)) == Picked(s, {k \in DOMAIN s : Test(s[k])})

Lexically(s, t) ==
  \E k \in DOMAIN s : s[k] < t[k] /\ \A j \in 1..(k - 1) : s[j] = t[j]

\* The elements of s by their keys, position by position; equal keys stay in order.
Precede(keys, k, l) == Lexically(keys[k], keys[l]) \/ (keys[k] = keys[l] /\ k < l)
SortedBy(s, keys) ==
  LET order == InOrder(DOMAIN s, {p \in (DOMAIN s) \X (DOMAIN s) : Precede(keys, p[1], p[2])})
  IN  [n \in DOMAIN s |-> s[order[n]]]
Sorted(s, Key(_)) == SortedBy(s, [k \in DOMAIN s |-> Key(s[k])])

Truncated(s, limit) == SubSeq(s, 1, IF Len(s) < limit THEN Len(s) ELSE limit)
===============================================================================
