-------------------------- MODULE LookupSearchProofs --------------------------
(***************************************************************************)
(* Proofs about LookupSearch for every catalog, query, number of requests   *)
(* and limit: what a request answers does not depend on the shared cache,   *)
(* except for the order of the candidates that the cache gives.             *)
(*                                                                         *)
(* The cache is never wrong, whatever it lacks: the candidates under a key  *)
(* are those the catalog has (CacheInv).  So what a request gets from it,   *)
(* or reads past it, are these candidates too (EntryInv), and what it has   *)
(* computed when it comes to the next stage is what a request alone would   *)
(* have (RegionsInv, BaselineInv, BusinessInv).  Two things can differ.     *)
(* Whether the areas' evidence was loaded: only the rank of a city or a     *)
(* region depends on that (KeptEither).  And whether the businesses' was:   *)
(* then they are in sequence order, else sorted by source file; that is the *)
(* same order unless they lie in the first file and in later ones           *)
(* (SameOrder), and it matters only if a business comes first (OrderFree).  *)
(*                                                                         *)
(* What a search computes is proved of sorted and selected sequences alone: *)
(* everything it finds is in the catalog, a name with a region is answered *)
(* from the localities that reach it by their parents (ContextHonoured), and*)
(* a viewport keeps the names that the text finds (BiasKeeps).              *)
(***************************************************************************)
EXTENDS LookupSearch, FiniteSetTheorems, FunctionTheorems, TLAPS

-----------------------------------------------------------------------------
(* TwoOrders and what is sorted or selected by them.                         *)

\* A strict total order on a set.
OrderOn(before, S) ==
  /\ \A k \in S : <<k, k>> \notin before
  /\ \A k, l \in S : k # l => <<k, l>> \in before \/ <<l, k>> \in before
  /\ \A k, l, m \in S : <<k, l>> \in before /\ <<l, m>> \in before => <<k, m>> \in before

PlaceOf(S, before, k) == Cardinality({l \in S : <<l, k>> \in before}) + 1

\* A place is one of as many as there are members.
LEMMA PlaceRange ==
  ASSUME NEW S, IsFiniteSet(S), NEW before, OrderOn(before, S), NEW k \in S
  PROVE  PlaceOf(S, before, k) \in 1..Cardinality(S)
<1> DEFINE below == {l \in S : <<l, k>> \in before}
<1>1. below \in SUBSET (S \ {k})
  BY DEF OrderOn
<1>2. IsFiniteSet(S \ {k}) /\ Cardinality(S \ {k}) = Cardinality(S) - 1
  BY FS_RemoveElement
<1> HIDE DEF below
<1>3. IsFiniteSet(below) /\ Cardinality(below) <= Cardinality(S \ {k})
  BY <1>1, <1>2, FS_Subset, Zenon
<1>4. Cardinality(below) \in Nat /\ Cardinality(S) \in Nat
  BY <1>3, FS_CardinalityType
<1>5. Cardinality(below) + 1 \in 1..Cardinality(S)
  BY <1>2, <1>3, <1>4
<1>6. QED
  BY <1>5 DEF PlaceOf, below

\* What comes before has the lower place.
LEMMA PlaceOrder ==
  ASSUME NEW S, IsFiniteSet(S), NEW before, OrderOn(before, S),
         NEW k \in S, NEW l \in S, <<k, l>> \in before
  PROVE  PlaceOf(S, before, k) < PlaceOf(S, before, l)
<1> DEFINE Below(m) == {i \in S : <<i, m>> \in before}
<1>1. Below(k) \in SUBSET Below(l)
  BY DEF OrderOn
<1>2. k \in Below(l) /\ k \notin Below(k)
  BY DEF OrderOn
<1>3. IsFiniteSet(Below(l))
  <2>1. Below(l) \in SUBSET S
    OBVIOUS
  <2>2. QED
    BY <2>1, FS_Subset, Zenon
<1>4. Below(k) # Below(l)
  BY <1>2, Zenon
<1>5. IsFiniteSet(Below(k)) /\ Cardinality(Below(k)) <= Cardinality(Below(l))
      /\ Cardinality(Below(k)) # Cardinality(Below(l))
  BY <1>1, <1>3, <1>4, FS_Subset
<1>6. Cardinality(Below(k)) \in Nat /\ Cardinality(Below(l)) \in Nat
  BY <1>3, <1>5, FS_CardinalityType
<1> HIDE DEF Below
<1>7. Cardinality(Below(k)) + 1 < Cardinality(Below(l)) + 1
  BY <1>5, <1>6
<1>8. QED
  BY <1>7 DEF PlaceOf, Below

\* InOrder has every member once, and what comes before has the lower place.
LEMMA InOrderFacts ==
  ASSUME NEW S, IsFiniteSet(S), NEW before, OrderOn(before, S)
  PROVE  /\ Cardinality(S) \in Nat
         /\ InOrder(S, before) \in Bijection(1..Cardinality(S), S)
         /\ \A m, n \in 1..Cardinality(S) :
              m < n => <<InOrder(S, before)[m], InOrder(S, before)[n]>> \in before
<1> DEFINE N == 1..Cardinality(S)
           place == [k \in S |-> Cardinality({l \in S : <<l, k>> \in before}) + 1]
<1>1. Cardinality(S) \in Nat
  BY FS_CardinalityType
<1>2. \A k \in S : place[k] = PlaceOf(S, before, k)
  BY DEF PlaceOf
<1>3. place \in [S -> N]
  BY <1>2, PlaceRange
<1>4. \A k, l \in S : <<k, l>> \in before => place[k] < place[l]
  BY <1>2, PlaceOrder
<1>5. DOMAIN place = S
  OBVIOUS
<1> HIDE DEF place
<1>6. place \in Injection(S, N)
  <2>1. ASSUME NEW k \in S, NEW l \in S, place[k] = place[l] PROVE k = l
    <3>1. ~(place[k] < place[l]) /\ ~(place[l] < place[k])
      BY <1>3, <2>1
    <3>2. QED
      BY <1>4, <3>1 DEF OrderOn
  <2>2. QED
    BY <1>3, <1>5, <2>1 DEF Injection, IsInjective
<1>7. IsFiniteSet(N) /\ Cardinality(N) = Cardinality(S)
  BY <1>1, FS_Interval
<1>8. place \in Surjection(S, N)
  BY <1>6, <1>7, FS_Injection
<1>9. place \in Bijection(S, N)
  BY <1>6, <1>8 DEF Bijection
<1>10. InOrder(S, before) = Inverse(place, S, N)
  BY DEF InOrder, place
<1>11. /\ Inverse(place, S, N) \in Bijection(N, S)
       /\ \A k \in S : Inverse(place, S, N)[place[k]] = k
  BY <1>9, Fun_BijInverse
<1>12. ASSUME NEW m \in N, NEW n \in N, m < n
       PROVE  <<Inverse(place, S, N)[m], Inverse(place, S, N)[n]>> \in before
  <2>1. PICK k \in S : place[k] = m
    BY <1>8 DEF Surjection
  <2>2. PICK l \in S : place[l] = n
    BY <1>8 DEF Surjection
  <2>3. ~(place[l] < place[k]) /\ k # l
    BY <1>1, <1>12, <2>1, <2>2
  <2>4. <<k, l>> \in before
    BY <1>4, <2>3 DEF OrderOn
  <2>5. QED
    BY <1>11, <2>1, <2>2, <2>4
<1>13. QED
  BY <1>1, <1>10, <1>11, <1>12

\* A finite set in an order has a first member.
LEMMA FirstInOrder ==
  ASSUME NEW S, IsFiniteSet(S), S # {}, NEW before, OrderOn(before, S)
  PROVE  \E k \in S : \A l \in S \ {k} : <<k, l>> \in before
<1> DEFINE C == Cardinality(S)
           order == InOrder(S, before)
<1>1. /\ C \in Nat /\ order \in Bijection(1..C, S)
      /\ \A m, n \in 1..C : m < n => <<order[m], order[n]>> \in before
  BY InOrderFacts
<1>2. C # 0
  BY FS_EmptySet
<1> HIDE DEF C, order
<1>3. 1 \in 1..C
  BY <1>1, <1>2
<1>4. order[1] \in S
  BY <1>1, <1>3 DEF Bijection, Injection
<1>5. ASSUME NEW l \in S \ {order[1]} PROVE <<order[1], l>> \in before
  <2>1. PICK n \in 1..C : order[n] = l
    BY <1>1 DEF Bijection, Surjection
  <2>2. 1 < n
    BY <1>1, <2>1, <1>5
  <2>3. QED
    BY <1>1, <1>3, <2>1, <2>2
<1>6. QED
  BY <1>4, <1>5

\* Of finitely many at some distance there is a closest, the first at that distance.
LEMMA FirstClosest ==
  ASSUME NEW S, IsFiniteSet(S), S # {}, NEW D \in [S -> Int], NEW P \in Injection(S, Int)
  PROVE  \E k \in S : \A l \in S \ {k} : D[k] < D[l] \/ (D[k] = D[l] /\ P[k] < P[l])
<1> DEFINE before == {p \in S \X S : D[p[1]] < D[p[2]] \/ (D[p[1]] = D[p[2]] /\ P[p[1]] < P[p[2]])}
<1>1. \A k, l \in S : <<k, l>> \in before <=> D[k] < D[l] \/ (D[k] = D[l] /\ P[k] < P[l])
  OBVIOUS
<1>2. /\ \A k \in S : P[k] \in Int /\ D[k] \in Int
      /\ \A k, l \in S : P[k] = P[l] => k = l
  BY DEF Injection, IsInjective
<1> HIDE DEF before
<1>3. OrderOn(before, S)
  BY <1>1, <1>2 DEF OrderOn
<1>4. \E k \in S : \A l \in S \ {k} : <<k, l>> \in before
  BY <1>3, FirstInOrder
<1>5. QED
  BY <1>1, <1>4

LEMMA ClosestExists ==
  ASSUME NEW S \in SUBSET Int, IsFiniteSet(S), S # {}, NEW D \in [S -> Int]
  PROVE  \E k \in S : \A l \in S \ {k} : D[k] < D[l] \/ (D[k] = D[l] /\ k < l)
<1> DEFINE before == {p \in S \X S : D[p[1]] < D[p[2]] \/ (D[p[1]] = D[p[2]] /\ p[1] < p[2])}
<1>1. \A k, l \in S : <<k, l>> \in before <=> D[k] < D[l] \/ (D[k] = D[l] /\ k < l)
  OBVIOUS
<1>2. \A k \in S : k \in Int /\ D[k] \in Int
  OBVIOUS
<1> HIDE DEF before
<1>3. OrderOn(before, S)
  BY <1>1, <1>2 DEF OrderOn
<1>4. \E k \in S : \A l \in S \ {k} : <<k, l>> \in before
  BY <1>3, FirstInOrder
<1>5. QED
  BY <1>1, <1>4

\* Numbers in their own order are where they are.
LEMMA InOrderIdentity ==
  ASSUME NEW L \in Nat, NEW before, \A k, l \in 1..L : <<k, l>> \in before <=> k < l
  PROVE  \A n \in 1..L : InOrder(1..L, before)[n] = n
<1> DEFINE S == 1..L
           place == [k \in S |-> Cardinality({l \in S : <<l, k>> \in before}) + 1]
<1>1. ASSUME NEW k \in S PROVE place[k] = k
  <2>1. {l \in S : <<l, k>> \in before} = 1..(k - 1)
    OBVIOUS
  <2>2. Cardinality(1..(k - 1)) = k - 1
    <3>1. k - 1 \in Nat
      OBVIOUS
    <3>2. QED
      BY <3>1, FS_Interval
  <2>3. place[k] = Cardinality({l \in S : <<l, k>> \in before}) + 1
    OBVIOUS
  <2>4. Cardinality({l \in S : <<l, k>> \in before}) = k - 1
    BY <2>1, <2>2
  <2> HIDE DEF place
  <2>5. QED
    BY <2>3, <2>4
<1>2. Cardinality(S) = L
  BY FS_Interval
<1>3. place = [k \in S |-> k]
  <2>1. DOMAIN place = S
    OBVIOUS
  <2>2. place = [k \in S |-> place[k]]
    OBVIOUS
  <2> HIDE DEF place
  <2>3. QED
    BY <1>1, <2>2
<1>4. [k \in S |-> k] \in Bijection(S, S)
  <2> HIDE DEF S
  <2>1. QED
    BY DEF Bijection, Injection, IsInjective, Surjection
<1>5. InOrder(S, before) = Inverse(place, S, S)
  BY <1>2 DEF InOrder
<1> HIDE DEF place, S
<1>6. QED
  BY <1>3, <1>4, <1>5, Fun_BijInverse DEF S

\* The positions in their order.
LEMMA AscendingFacts ==
  ASSUME NEW N \in Nat, NEW positions \in SUBSET (1..N)
  PROVE  /\ IsFiniteSet(positions) /\ Cardinality(positions) \in Nat
         /\ Ascending(positions) \in Bijection(1..Cardinality(positions), positions)
         /\ \A m, n \in 1..Cardinality(positions) :
              m < n => Ascending(positions)[m] < Ascending(positions)[n]
<1> DEFINE before == {p \in positions \X positions : p[1] < p[2]}
<1>1. IsFiniteSet(positions)
  <2>1. IsFiniteSet(1..N)
    BY FS_Interval
  <2>2. QED
    BY <2>1, FS_Subset
<1>2. \A k, l \in positions : <<k, l>> \in before <=> k < l
  OBVIOUS
<1>3. \A k, l \in positions : k \in Int /\ l \in Int
  OBVIOUS
<1> HIDE DEF before
<1>4. OrderOn(before, positions)
  BY <1>2, <1>3 DEF OrderOn
<1>5. /\ Cardinality(positions) \in Nat
      /\ InOrder(positions, before) \in Bijection(1..Cardinality(positions), positions)
      /\ \A m, n \in 1..Cardinality(positions) :
           m < n => <<InOrder(positions, before)[m], InOrder(positions, before)[n]>> \in before
  BY <1>1, <1>4, InOrderFacts
<1>6. Ascending(positions) = InOrder(positions, before)
  BY DEF Ascending, before
<1>7. \A m \in 1..Cardinality(positions) : Ascending(positions)[m] \in positions
  BY <1>5, <1>6 DEF Bijection, Injection
<1>8. QED
  BY <1>1, <1>2, <1>5, <1>6, <1>7

\* What Picked has: the elements at the positions, each once, in their order.
LEMMA PickedFacts ==
  ASSUME NEW A, NEW s \in Seq(A), NEW positions \in SUBSET (DOMAIN s)
  PROVE  /\ Picked(s, positions) \in Seq(A)
         /\ Len(Picked(s, positions)) = Cardinality(positions)
         /\ Cardinality(positions) \in Nat
         /\ Ascending(positions) \in Bijection(1..Cardinality(positions), positions)
         /\ \A n \in 1..Cardinality(positions) :
              Picked(s, positions)[n] = s[Ascending(positions)[n]]
         /\ \A m, n \in 1..Cardinality(positions) :
              m < n => Ascending(positions)[m] < Ascending(positions)[n]
<1>1. Len(s) \in Nat /\ DOMAIN s = 1..Len(s) /\ \A k \in 1..Len(s) : s[k] \in A
  OBVIOUS
<1>2. positions \in SUBSET (1..Len(s))
  BY <1>1
<1>3. /\ Cardinality(positions) \in Nat
      /\ Ascending(positions) \in Bijection(1..Cardinality(positions), positions)
      /\ \A m, n \in 1..Cardinality(positions) :
           m < n => Ascending(positions)[m] < Ascending(positions)[n]
  BY <1>1, <1>2, AscendingFacts
<1>4. Picked(s, positions) = [n \in 1..Cardinality(positions) |-> s[Ascending(positions)[n]]]
  BY DEF Picked
<1>5. \A n \in 1..Cardinality(positions) : Ascending(positions)[n] \in positions
  BY <1>3 DEF Bijection, Injection
<1>6. Picked(s, positions) \in Seq(A)
  BY <1>1, <1>2, <1>3, <1>4, <1>5
<1>7. QED
  BY <1>3, <1>4, <1>6

\* Every element at a position is there.
LEMMA PickedSet ==
  ASSUME NEW A, NEW s \in Seq(A), NEW positions \in SUBSET (DOMAIN s)
  PROVE  ToSet(Picked(s, positions)) = {s[k] : k \in positions}
<1> DEFINE N == 1..Cardinality(positions)
<1>1. /\ Picked(s, positions) \in Seq(A)
      /\ Len(Picked(s, positions)) = Cardinality(positions)
      /\ Ascending(positions) \in Bijection(N, positions)
      /\ \A n \in N : Picked(s, positions)[n] = s[Ascending(positions)[n]]
  BY PickedFacts
<1>2. DOMAIN Picked(s, positions) = N
  BY <1>1
<1>3. \A n \in N : Ascending(positions)[n] \in positions
  BY <1>1 DEF Bijection, Injection
<1>4. \A k \in positions : \E n \in N : Ascending(positions)[n] = k
  BY <1>1 DEF Bijection, Surjection
<1> HIDE DEF N
<1>5. ToSet(Picked(s, positions)) = {Picked(s, positions)[n] : n \in N}
  BY <1>2, Zenon DEF ToSet
<1>6. ASSUME NEW n \in N PROVE Picked(s, positions)[n] \in {s[k] : k \in positions}
  BY <1>1, <1>3
<1>7. ASSUME NEW k \in positions PROVE s[k] \in {Picked(s, positions)[n] : n \in N}
  <2>1. PICK n \in N : Ascending(positions)[n] = k
    BY <1>4
  <2>2. Picked(s, positions)[n] = s[k]
    BY <1>1, <2>1
  <2>3. QED
    BY <2>2
<1>8. {Picked(s, positions)[n] : n \in N} = {s[k] : k \in positions}
  BY <1>6, <1>7
<1>9. QED
  BY <1>5, <1>8, Zenon

\* The least member of a set of numbers.
LEMMA LeastPosition ==
  ASSUME NEW N \in Nat, NEW positions \in SUBSET (1..N), positions # {}
  PROVE  \E k \in positions : \A l \in positions : k <= l
<1> DEFINE order == Ascending(positions)
           C == Cardinality(positions)
<1>1. /\ IsFiniteSet(positions) /\ C \in Nat
      /\ order \in Bijection(1..C, positions)
      /\ \A m, n \in 1..C : m < n => order[m] < order[n]
  BY AscendingFacts
<1>2. C # 0
  BY <1>1, FS_EmptySet
<1> HIDE DEF order, C
<1>3. 1 \in 1..C
  BY <1>1, <1>2
<1>4. order[1] \in positions
  BY <1>1, <1>3 DEF Bijection, Injection
<1>5. ASSUME NEW l \in positions PROVE order[1] <= l
  <2>1. PICK n \in 1..C : order[n] = l
    BY <1>1 DEF Bijection, Surjection
  <2>2. n = 1 \/ 1 < n
    BY <1>1
  <2>3. order[1] \in 1..N /\ l \in 1..N
    BY <1>4
  <2>4. QED
    BY <1>1, <1>3, <2>1, <2>2, <2>3
<1>6. QED
  BY <1>4, <1>5

\* Keys of one length are in a strict order that is total.
LEMMA LexIrreflexive ==
  ASSUME NEW N \in Nat, NEW s \in [1..N -> Int]
  PROVE  ~Lexically(s, s)
BY DEF Lexically

\* Two keys that differ are in one order or the other.
LEMMA LexTotal ==
  ASSUME NEW N \in Nat, NEW s \in [1..N -> Int], NEW t \in [1..N -> Int], s # t
  PROVE  Lexically(s, t) \/ Lexically(t, s)
<1> DEFINE differ == {k \in 1..N : s[k] # t[k]}
<1>1. differ # {}
  OBVIOUS
<1>2. PICK k \in differ : \A l \in differ : k <= l
  <2>1. differ \in SUBSET (1..N)
    OBVIOUS
  <2> HIDE DEF differ
  <2>2. QED
    BY <1>1, <2>1, LeastPosition
<1>3. \A j \in 1..(k - 1) : s[j] = t[j]
  BY <1>2
<1>4. s[k] < t[k] \/ t[k] < s[k]
  BY <1>2
<1>5. k \in DOMAIN s /\ k \in DOMAIN t
  BY <1>2
<1>6. QED
  BY <1>3, <1>4, <1>5 DEF Lexically

\* The order of keys is transitive.
LEMMA LexTransitive ==
  ASSUME NEW N \in Nat, NEW s \in [1..N -> Int], NEW t \in [1..N -> Int],
         NEW u \in [1..N -> Int], Lexically(s, t), Lexically(t, u)
  PROVE  Lexically(s, u)
<1>1. PICK k \in 1..N : s[k] < t[k] /\ \A j \in 1..(k - 1) : s[j] = t[j]
  BY DEF Lexically
<1>2. PICK l \in 1..N : t[l] < u[l] /\ \A j \in 1..(l - 1) : t[j] = u[j]
  BY DEF Lexically
<1>3. CASE k < l
  <2>1. k \in 1..(l - 1) /\ s[k] < u[k]
    BY <1>1, <1>2, <1>3
  <2>2. \A j \in 1..(k - 1) : s[j] = u[j]
    BY <1>1, <1>2, <1>3
  <2>3. QED
    BY <2>1, <2>2 DEF Lexically
<1>4. CASE k = l
  <2>1. s[k] < u[k]
    BY <1>1, <1>2, <1>4
  <2>2. \A j \in 1..(k - 1) : s[j] = u[j]
    BY <1>1, <1>2, <1>4
  <2>3. QED
    BY <2>1, <2>2 DEF Lexically
<1>5. CASE l < k
  <2>1. s[l] < u[l]
    BY <1>1, <1>2, <1>5
  <2>2. \A j \in 1..(l - 1) : s[j] = u[j]
    BY <1>1, <1>2, <1>5
  <2>3. QED
    BY <2>1, <2>2 DEF Lexically
<1>6. QED
  BY <1>3, <1>4, <1>5

\* The first parts of ordered keys are in order.
LEMMA LexFirst ==
  ASSUME NEW N \in Nat, 1 <= N, NEW s \in [1..N -> Int], NEW t \in [1..N -> Int], Lexically(s, t)
  PROVE  s[1] <= t[1]
<1>1. PICK k \in 1..N : s[k] < t[k] /\ \A j \in 1..(k - 1) : s[j] = t[j]
  BY DEF Lexically
<1>2. k = 1 \/ 1 \in 1..(k - 1)
  OBVIOUS
<1>3. s[1] \in Int /\ t[1] \in Int
  OBVIOUS
<1>4. QED
  BY <1>1, <1>2, <1>3

\* The order of pairs.
LEMMA LexPair ==
  ASSUME NEW a \in Int, NEW b \in Int, NEW x \in Int, NEW y \in Int, Lexically(<<a, b>>, <<x, y>>)
  PROVE  a < x \/ (a = x /\ b < y)
<1>1. PICK k \in 1..2 : /\ <<a, b>>[k] < <<x, y>>[k]
                        /\ \A j \in 1..(k - 1) : <<a, b>>[j] = <<x, y>>[j]
  BY DEF Lexically
<1>2. CASE k = 1
  BY <1>1, <1>2
<1>3. CASE k = 2
  <2>1. 1 \in 1..(k - 1)
    BY <1>3
  <2>2. QED
    BY <1>1, <1>3, <2>1
<1>4. QED
  BY <1>2, <1>3

\* Positions in the order of their keys, equal keys by position.
LEMMA PrecedeOrder ==
  ASSUME NEW L \in Nat, NEW N \in Nat, NEW keys \in [1..L -> [1..N -> Int]]
  PROVE  OrderOn({p \in (1..L) \X (1..L) : Precede(keys, p[1], p[2])}, 1..L)
<1> DEFINE before == {p \in (1..L) \X (1..L) : Precede(keys, p[1], p[2])}
<1>1. \A k, l \in 1..L : <<k, l>> \in before <=> Precede(keys, k, l)
  OBVIOUS
<1>2. \A k \in 1..L : keys[k] \in [1..N -> Int] /\ k \in Int
  OBVIOUS
<1> HIDE DEF before
<1>3. \A k \in 1..L : <<k, k>> \notin before
  BY <1>1, <1>2, LexIrreflexive DEF Precede
<1>4. ASSUME NEW k \in 1..L, NEW l \in 1..L, k # l
      PROVE  Precede(keys, k, l) \/ Precede(keys, l, k)
  <2>1. CASE keys[k] = keys[l]
    BY <1>2, <1>4, <2>1 DEF Precede
  <2>2. CASE keys[k] # keys[l]
    <3>1. Lexically(keys[k], keys[l]) \/ Lexically(keys[l], keys[k])
      BY <1>2, <2>2, LexTotal
    <3>2. QED
      BY <3>1, Zenon DEF Precede
  <2>3. QED
    BY <2>1, <2>2
<1>5. ASSUME NEW k \in 1..L, NEW l \in 1..L, NEW m \in 1..L,
             Precede(keys, k, l), Precede(keys, l, m)
      PROVE  Precede(keys, k, m)
  <2>1. CASE Lexically(keys[k], keys[l]) /\ Lexically(keys[l], keys[m])
    <3>1. Lexically(keys[k], keys[m])
      BY <1>2, <2>1, LexTransitive
    <3>2. QED
      BY <3>1, Zenon DEF Precede
  <2>2. CASE keys[k] = keys[l] /\ k < l
    BY <1>2, <1>5, <2>2 DEF Precede
  <2>3. CASE keys[l] = keys[m] /\ l < m
    BY <1>2, <1>5, <2>3 DEF Precede
  <2>4. QED
    BY <1>5, <2>1, <2>2, <2>3, Zenon DEF Precede
<1>6. QED
  BY <1>1, <1>3, <1>4, <1>5 DEF OrderOn, before

\* SortedBy has the elements of s, each once, in the order of their keys.
Order(s, keys) ==
  InOrder(DOMAIN s, {p \in (DOMAIN s) \X (DOMAIN s) : Precede(keys, p[1], p[2])})

\* SortedBy has the elements, each once, in the order of their keys.
LEMMA SortedFacts ==
  ASSUME NEW A, NEW s \in Seq(A), NEW N \in Nat, NEW keys \in [DOMAIN s -> [1..N -> Int]]
  PROVE  /\ SortedBy(s, keys) \in Seq(A)
         /\ Len(SortedBy(s, keys)) = Len(s)
         /\ Order(s, keys) \in Bijection(1..Len(s), 1..Len(s))
         /\ \A n \in 1..Len(s) : SortedBy(s, keys)[n] = s[Order(s, keys)[n]]
         /\ \A m, n \in 1..Len(s) :
              m < n => Precede(keys, Order(s, keys)[m], Order(s, keys)[n])
<1> DEFINE L == Len(s)
           before == {p \in (1..L) \X (1..L) : Precede(keys, p[1], p[2])}
<1>1. L \in Nat /\ DOMAIN s = 1..L /\ \A k \in 1..L : s[k] \in A
  OBVIOUS
<1>2. OrderOn(before, 1..L)
  BY <1>1, PrecedeOrder
<1>3. IsFiniteSet(1..L) /\ Cardinality(1..L) = L
  <2> HIDE DEF L, before
  <2>1. QED
    BY <1>1, FS_Interval
<1>4. \A k, l : <<k, l>> \in before => Precede(keys, k, l)
  OBVIOUS
<1>5. Order(s, keys) = InOrder(1..L, before)
  BY <1>1 DEF Order
<1> HIDE DEF before, L
<1>6. /\ InOrder(1..L, before) \in Bijection(1..L, 1..L)
      /\ \A m, n \in 1..L : m < n => <<InOrder(1..L, before)[m], InOrder(1..L, before)[n]>> \in before
  <2>1. /\ InOrder(1..L, before) \in Bijection(1..Cardinality(1..L), 1..L)
        /\ \A m, n \in 1..Cardinality(1..L) :
             m < n => <<InOrder(1..L, before)[m], InOrder(1..L, before)[n]>> \in before
    BY <1>2, <1>3, InOrderFacts, Zenon
  <2>2. QED
    BY <1>3, <2>1
<1>7. SortedBy(s, keys) = [n \in 1..L |-> s[Order(s, keys)[n]]]
  BY <1>1 DEF SortedBy, Order
<1>8. \A n \in 1..L : Order(s, keys)[n] \in 1..L
  BY <1>5, <1>6 DEF Bijection, Injection
<1>9. SortedBy(s, keys) \in Seq(A) /\ Len(SortedBy(s, keys)) = L
  BY <1>1, <1>7, <1>8
<1>10. QED
  BY <1>4, <1>5, <1>6, <1>7, <1>9 DEF L

\* Sorting keeps the elements.
LEMMA SortedSet ==
  ASSUME NEW A, NEW s \in Seq(A), NEW N \in Nat, NEW keys \in [DOMAIN s -> [1..N -> Int]]
  PROVE  SortedBy(s, keys) \in Seq(A) /\ ToSet(SortedBy(s, keys)) = ToSet(s)
<1> DEFINE L == Len(s)
<1>1. /\ SortedBy(s, keys) \in Seq(A) /\ Len(SortedBy(s, keys)) = L
      /\ Order(s, keys) \in Bijection(1..L, 1..L)
      /\ \A n \in 1..L : SortedBy(s, keys)[n] = s[Order(s, keys)[n]]
  BY SortedFacts
<1>2. DOMAIN SortedBy(s, keys) = 1..L /\ DOMAIN s = 1..L
  BY <1>1
<1> HIDE DEF L
<1>3. \A n \in 1..L : Order(s, keys)[n] \in 1..L
  BY <1>1 DEF Bijection, Injection
<1>4. \A k \in 1..L : \E n \in 1..L : Order(s, keys)[n] = k
  BY <1>1 DEF Bijection, Surjection
<1>5. ToSet(SortedBy(s, keys)) = {SortedBy(s, keys)[n] : n \in 1..L} /\ ToSet(s) = {s[n] : n \in 1..L}
  BY <1>2, Zenon DEF ToSet
<1>6. ASSUME NEW n \in 1..L PROVE SortedBy(s, keys)[n] \in {s[k] : k \in 1..L}
  BY <1>1, <1>3
<1>7. ASSUME NEW k \in 1..L PROVE s[k] \in {SortedBy(s, keys)[n] : n \in 1..L}
  <2>1. PICK n \in 1..L : Order(s, keys)[n] = k
    BY <1>4
  <2>2. SortedBy(s, keys)[n] = s[k]
    BY <1>1, <2>1
  <2>3. QED
    BY <2>2
<1>8. {SortedBy(s, keys)[n] : n \in 1..L} = {s[k] : k \in 1..L}
  BY <1>6, <1>7
<1>9. QED
  BY <1>1, <1>5, <1>8, Zenon

\* Keys that ascend leave a list as it is.
LEMMA SortedAlready ==
  ASSUME NEW A, NEW s \in Seq(A), NEW keys \in [DOMAIN s -> [1..1 -> Int]],
         \A k, l \in DOMAIN s : k < l => keys[k][1] < keys[l][1]
  PROVE  SortedBy(s, keys) = s
<1> DEFINE L == Len(s)
           before == {p \in (DOMAIN s) \X (DOMAIN s) : Precede(keys, p[1], p[2])}
<1>1. L \in Nat /\ DOMAIN s = 1..L
  OBVIOUS
<1>2. ASSUME NEW k \in 1..L, NEW l \in 1..L PROVE <<k, l>> \in before <=> k < l
  <2>1. keys[k] \in [1..1 -> Int] /\ keys[l] \in [1..1 -> Int]
    BY <1>1
  <2>2. CASE k < l
    <3>1. keys[k][1] < keys[l][1] /\ 1 \in DOMAIN keys[k]
      BY <1>1, <2>1, <2>2
    <3>2. Lexically(keys[k], keys[l])
      BY <3>1 DEF Lexically
    <3>3. QED
      BY <1>1, <2>2, <3>2 DEF Precede
  <2>3. CASE ~(k < l)
    <3>1. k = l \/ keys[l][1] < keys[k][1]
      BY <1>1, <2>3
    <3>2. keys[l][1] <= keys[k][1] /\ keys[k][1] \in Int /\ keys[l][1] \in Int
      BY <2>1, <3>1
    <3>3. ~Lexically(keys[k], keys[l])
      <4>1. DOMAIN keys[k] = {1}
        BY <2>1
      <4>2. QED
        BY <3>2, <4>1 DEF Lexically
    <3>4. ~Precede(keys, k, l)
      BY <2>3, <3>3 DEF Precede
    <3>5. QED
      BY <2>3, <3>4
  <2>4. QED
    BY <2>2, <2>3
<1>3. SortedBy(s, keys) = [n \in 1..L |-> s[InOrder(1..L, before)[n]]]
  BY <1>1 DEF SortedBy
<1> HIDE DEF before
<1>4. \A n \in 1..L : InOrder(1..L, before)[n] = n
  <2> HIDE DEF L
  <2>1. QED
    BY <1>1, <1>2, InOrderIdentity
<1>5. SortedBy(s, keys) = [n \in 1..L |-> s[n]]
  BY <1>3, <1>4
<1>6. QED
  BY <1>1, <1>5

First(s, K) == SortedBy(s, [k \in DOMAIN s |-> K[s[k]]])[1]

\* Which comes first does not depend on how a list is given, if keys differ.
LEMMA SortedFirst ==
  ASSUME NEW A, NEW N \in Nat, NEW K \in Injection(A, [1..N -> Int]),
         NEW s \in Seq(A), NEW t \in Seq(A), ToSet(s) = ToSet(t), s # <<>>
  PROVE  First(s, K) = First(t, K)
<1> K \in [A -> [1..N -> Int]] /\ \A x, y \in A : K[x] = K[y] => x = y
  BY DEF Injection, IsInjective
<1>1. ASSUME NEW u \in Seq(A), u # <<>>
      PROVE  LET x == SortedBy(u, [k \in DOMAIN u |-> K[u[k]]])[1]
             IN  x \in ToSet(u) /\ \A y \in ToSet(u) : K[x] = K[y] \/ Lexically(K[x], K[y])
  <2> DEFINE keys == [k \in DOMAIN u |-> K[u[k]]]
             L == Len(u)
             x == SortedBy(u, keys)[1]
             order == Order(u, keys)
  <2>1. L \in Nat /\ L # 0 /\ DOMAIN u = 1..L /\ \A k \in 1..L : u[k] \in A
    BY <1>1
  <2>2. keys \in [DOMAIN u -> [1..N -> Int]] /\ \A k \in 1..L : keys[k] = K[u[k]]
    BY <2>1
  <2> HIDE DEF keys, L
  <2>3. /\ order \in Bijection(1..L, 1..L)
        /\ \A n \in 1..L : SortedBy(u, keys)[n] = u[order[n]]
        /\ \A m, n \in 1..L : m < n => Precede(keys, order[m], order[n])
    BY <2>2, SortedFacts DEF L
  <2> HIDE DEF order
  <2>4. 1 \in 1..L
    BY <2>1
  <2>5. \A n \in 1..L : order[n] \in 1..L
    BY <2>3 DEF Bijection, Injection
  <2>6. \A k \in 1..L : \E n \in 1..L : order[n] = k
    BY <2>3 DEF Bijection, Surjection
  <2>7. x = u[order[1]] /\ K[x] = keys[order[1]]
    BY <2>2, <2>3, <2>4, <2>5
  <2>8. x \in ToSet(u)
    BY <2>1, <2>4, <2>5, <2>7 DEF ToSet
  <2>9. ASSUME NEW y \in ToSet(u) PROVE K[x] = K[y] \/ Lexically(K[x], K[y])
    <3>1. PICK k \in 1..L : u[k] = y
      BY <2>1 DEF ToSet
    <3>2. PICK n \in 1..L : order[n] = k
      BY <2>6
    <3>3. K[y] = keys[order[n]]
      BY <2>2, <3>1, <3>2
    <3>4. CASE n = 1
      BY <2>7, <3>3, <3>4
    <3>5. CASE n # 1
      <4>1. 1 < n
        BY <2>1, <3>5
      <4>2. Precede(keys, order[1], order[n])
        BY <2>3, <2>4, <4>1
      <4>3. QED
        BY <2>7, <3>3, <4>2 DEF Precede
    <3>6. QED
      BY <3>4, <3>5
  <2> HIDE DEF x
  <2>10. QED
    BY <2>8, <2>9 DEF x, keys
<1>2. t # <<>>
  <2>1. 1 \in DOMAIN s
    OBVIOUS
  <2>2. s[1] \in ToSet(t)
    BY <2>1 DEF ToSet
  <2>3. QED
    BY <2>2 DEF ToSet
<1> DEFINE x == SortedBy(s, [k \in DOMAIN s |-> K[s[k]]])[1]
           y == SortedBy(t, [k \in DOMAIN t |-> K[t[k]]])[1]
<1>3. x \in ToSet(s) /\ \A i \in ToSet(s) : K[x] = K[i] \/ Lexically(K[x], K[i])
  BY <1>1
<1>4. y \in ToSet(t) /\ \A i \in ToSet(t) : K[y] = K[i] \/ Lexically(K[y], K[i])
  BY <1>1, <1>2
<1> HIDE DEF x, y
<1>5. x \in A /\ y \in A
  BY <1>3, <1>4 DEF ToSet
<1>6. K[x] \in [1..N -> Int] /\ K[y] \in [1..N -> Int]
  BY <1>5
<1>7. K[x] = K[y]
  <2>1. CASE Lexically(K[x], K[y]) /\ Lexically(K[y], K[x])
    <3>1. Lexically(K[x], K[x])
      BY <1>6, <2>1, LexTransitive
    <3>2. QED
      BY <1>6, <3>1, LexIrreflexive
  <2>2. QED
    BY <1>3, <1>4, <2>1
<1>8. QED
  BY <1>5, <1>7 DEF x, y, First

\* Truncated is the first elements.
LEMMA TruncatedFacts ==
  ASSUME NEW A, NEW s \in Seq(A), NEW limit \in Nat
  PROVE  /\ Truncated(s, limit) \in Seq(A)
         /\ Len(Truncated(s, limit)) = (IF Len(s) < limit THEN Len(s) ELSE limit)
         /\ \A n \in 1..Len(Truncated(s, limit)) : Truncated(s, limit)[n] = s[n]
BY DEF Truncated

\* A sorted and cut list is of the same elements.
LEMMA SortedTruncated ==
  ASSUME NEW A, NEW s \in Seq(A), NEW N \in Nat, NEW keys \in [DOMAIN s -> [1..N -> Int]],
         NEW limit \in Nat
  PROVE  Truncated(SortedBy(s, keys), limit) \in Seq(A)
<1>1. SortedBy(s, keys) \in Seq(A)
  BY SortedSet
<1>2. QED
  BY <1>1, TruncatedFacts

\* Keys are tuples of integers.
LEMMA Single == \A x \in Int : <<x>> \in [1..1 -> Int]
OBVIOUS

LEMMA Pair == \A x, y \in Int : <<x, y>> \in [1..2 -> Int]
OBVIOUS

LEMMA Triple == \A x, y, z \in Int : <<x, y, z>> \in [1..3 -> Int]
OBVIOUS

LEMMA Quadruple == \A w, x, y, z \in Int : <<w, x, y, z>> \in [1..4 -> Int]
OBVIOUS

LEMMA Quintuple == \A v, w, x, y, z \in Int : <<v, w, x, y, z>> \in [1..5 -> Int]
OBVIOUS

-----------------------------------------------------------------------------
(* What a search finds is in the catalog.                                 *)

\* What every catalog is.
LEMMA CatalogType ==
  ASSUME NEW c \in Catalogs
  PROVE  /\ Len(c) \in Nat /\ DOMAIN c = 1..Len(c)
         /\ \A i \in DOMAIN c :
              /\ c[i].kind \in ToSet(Kinds) /\ c[i].subtype \in ToSet(Subtypes)
              /\ c[i].closed \in BOOLEAN /\ c[i].score \in 0..100 /\ c[i].location \in Nat
              /\ c[i].sourceShard \in Nat /\ c[i].entityShard \in Nat
              /\ c[i].sources \in Seq(IF c[i].kind = "area" THEN AreaEvidence ELSE PlaceEvidence)
              /\ c[i].parents \subseteq Areas(c)
<1>1. c \in Seq(Entries)
  BY CatalogsAssumption
<1>2. \A i \in DOMAIN c : c[i] \in Entries
  BY <1>1
<1>3. \A i \in DOMAIN c :
         /\ c[i].sources \in Seq(IF c[i].kind = "area" THEN AreaEvidence ELSE PlaceEvidence)
         /\ c[i].parents \subseteq Areas(c)
  BY CatalogsAssumption
<1>4. \A i \in DOMAIN c :
         /\ c[i].kind \in ToSet(Kinds) /\ c[i].subtype \in ToSet(Subtypes)
         /\ c[i].closed \in BOOLEAN /\ c[i].score \in 0..100 /\ c[i].location \in Nat
         /\ c[i].sourceShard \in Nat /\ c[i].entityShard \in Nat
  BY <1>2 DEF Entries
<1>5. QED
  BY <1>1, <1>3, <1>4

\* A place in one of the fixed lists.
LEMMA AtType ==
  /\ \A x \in ToSet(Kinds) : At(Kinds, x) \in 1..4
  /\ \A x \in ToSet(Subtypes) : At(Subtypes, x) \in 1..6
<1>1. ASSUME NEW x \in ToSet(Kinds) PROVE At(Kinds, x) \in 1..4
  <2>1. \E k \in DOMAIN Kinds : Kinds[k] = x
    BY DEF ToSet
  <2>2. DOMAIN Kinds = 1..4
    BY DEF Kinds
  <2>3. QED
    BY <2>1, <2>2, Zenon DEF At
<1>2. ASSUME NEW x \in ToSet(Subtypes) PROVE At(Subtypes, x) \in 1..6
  <2>1. \E k \in DOMAIN Subtypes : Subtypes[k] = x
    BY DEF ToSet
  <2>2. DOMAIN Subtypes = 1..6
    BY DEF Subtypes
  <2>3. QED
    BY <2>1, <2>2, Zenon DEF At
<1>3. QED
  BY <1>1, <1>2

\* The evidence of an entity is of its kind.
LEMMA EvidenceType ==
  ASSUME NEW e,
         e.sources \in Seq(IF e.kind = "area" THEN AreaEvidence ELSE PlaceEvidence)
  PROVE  Evidence(e) \in IF e.kind = "area" THEN AreaEvidence ELSE PlaceEvidence
<1> DEFINE none == IF e.kind = "area" THEN NoArea ELSE NoPlace
           type == IF e.kind = "area" THEN AreaEvidence ELSE PlaceEvidence
           at == {k \in DOMAIN e.sources : e.sources[k] # none}
           rows == Picked(e.sources, at)
<1>1. Evidence(e) = IF rows = <<>> THEN none ELSE rows[1]
  BY DEF Evidence, Select
<1>2. none \in type
  <2>1. NoArea \in AreaEvidence
    BY DEF NoArea, AreaEvidence
  <2>2. NoPlace \in PlaceEvidence
    BY DEF NoPlace, PlaceEvidence
  <2>3. QED
    BY <2>1, <2>2
<1>3. e.sources \in Seq(type) /\ at \in SUBSET (DOMAIN e.sources)
  OBVIOUS
<1>4. rows \in Seq(type)
  <2> HIDE DEF at, type
  <2>1. QED
    BY <1>3, PickedFacts
<1> HIDE DEF rows, at, none
<1>5. rows # <<>> => rows[1] \in type
  <2> HIDE DEF type
  <2>1. QED
    BY <1>4
<1>6. QED
  BY <1>1, <1>2, <1>5

\* The sequence numbers of a catalog that pass a test, ascending.
LEMMA IdentityFacts ==
  ASSUME NEW c \in Catalogs, NEW positions \in SUBSET (DOMAIN c)
  PROVE  /\ Picked([i \in DOMAIN c |-> i], positions) \in Seq(DOMAIN c)
         /\ ToSet(Picked([i \in DOMAIN c |-> i], positions)) = positions
         /\ \A m, n \in DOMAIN Picked([i \in DOMAIN c |-> i], positions) :
              m < n => Picked([i \in DOMAIN c |-> i], positions)[m]
                         < Picked([i \in DOMAIN c |-> i], positions)[n]
<1> DEFINE id == [i \in DOMAIN c |-> i]
           C == Cardinality(positions)
<1>1. Len(c) \in Nat /\ DOMAIN c = 1..Len(c)
  BY CatalogType
<1>2. id \in Seq(DOMAIN c) /\ DOMAIN id = DOMAIN c
  BY <1>1
<1>3. \A i \in positions : id[i] = i
  OBVIOUS
<1> HIDE DEF id
<1>4. /\ Picked(id, positions) \in Seq(DOMAIN c)
      /\ Len(Picked(id, positions)) = C
      /\ Ascending(positions) \in Bijection(1..C, positions)
      /\ \A n \in 1..C : Picked(id, positions)[n] = id[Ascending(positions)[n]]
      /\ \A m, n \in 1..C : m < n => Ascending(positions)[m] < Ascending(positions)[n]
  BY <1>2, PickedFacts
<1>5. ToSet(Picked(id, positions)) = {id[k] : k \in positions}
  BY <1>2, PickedSet
<1>6. ToSet(Picked(id, positions)) = positions
  BY <1>3, <1>5
<1>7. DOMAIN Picked(id, positions) = 1..C
  BY <1>4
<1>8. \A n \in 1..C : Ascending(positions)[n] \in positions
  BY <1>4 DEF Bijection, Injection
<1>9. \A n \in 1..C : Picked(id, positions)[n] = Ascending(positions)[n]
  BY <1>3, <1>4, <1>8
<1>10. QED
  BY <1>4, <1>6, <1>7, <1>9 DEF id

\* The exact candidates are those of the name and the kind, by sequence number.
LEMMA ExactFacts ==
  ASSUME NEW c \in Catalogs, NEW name, NEW kind
  PROVE  /\ Exact(c, name, kind) \in Seq(DOMAIN c)
         /\ ToSet(Exact(c, name, kind)) =
              {i \in DOMAIN c : c[i].name = name /\ c[i].kind = kind /\ ~c[i].closed}
         /\ \A m, n \in DOMAIN Exact(c, name, kind) :
              m < n => Exact(c, name, kind)[m] < Exact(c, name, kind)[n]
<1> DEFINE at == {i \in DOMAIN c : c[i].name = name /\ c[i].kind = kind /\ ~c[i].closed}
<1>1. Exact(c, name, kind) = Picked([i \in DOMAIN c |-> i], at)
  BY DEF Exact, Sequences, Select
<1>2. at \in SUBSET (DOMAIN c)
  OBVIOUS
<1> HIDE DEF at
<1>3. QED
  BY <1>1, <1>2, IdentityFacts DEF at

\* The keys of exact areas, of postings and of places.
LEMMA AreaKeyType ==
  ASSUME NEW c \in Catalogs, NEW i \in DOMAIN c, c[i].kind = "area"
  PROVE  AreaKey(c, i) \in [1..3 -> Int]
<1>1. Evidence(c[i]) \in AreaEvidence
  BY CatalogType, EvidenceType
<1>2. Evidence(c[i]).prominence \in Int
  BY <1>1 DEF AreaEvidence
<1>3. TypeRank(c, i, TRUE) \in Int
  <2>1. c[i].subtype \in ToSet(Subtypes)
    BY CatalogType
  <2>2. At(Subtypes, c[i].subtype) \in 1..6
    BY <2>1, AtType
  <2>3. QED
    BY <2>2 DEF TypeRank
<1>4. i \in Int
  BY CatalogType
<1>5. 100 - Evidence(c[i]).prominence \in Int
  BY <1>2
<1>6. QED
  BY <1>3, <1>4, <1>5, Triple, Zenon DEF AreaKey

LEMMA PostingKeyType ==
  ASSUME NEW c \in Catalogs, NEW i \in DOMAIN c, NEW class \in Int
  PROVE  PostingKey(c, class, i) \in [1..4 -> Int]
<1>1. i \in Int /\ c[i].score \in 0..100 /\ c[i].kind \in ToSet(Kinds)
  BY CatalogType
<1>2. At(Kinds, c[i].kind) \in 1..4
  BY <1>1, AtType
<1>3. At(Kinds, c[i].kind) \in Int /\ 100 - c[i].score \in Int
  BY <1>1, <1>2
<1>4. QED
  BY <1>1, <1>3, Quadruple, Zenon DEF PostingKey

LEMMA MatchClassType == \A c, name, i : MatchClass(c, name, i) \in 0..2
BY DEF MatchClass

LEMMA ViewportClassType == \A c, name, i : ViewportClass(c, name, i) \in 0..2
BY DEF ViewportClass

\* No two entities have the same place in the files of a kind.
LEMMA FilePlaceFacts ==
  ASSUME NEW c \in Catalogs, NEW shard \in [DOMAIN c -> Nat]
  PROVE  /\ \A i \in DOMAIN c : FilePlace(c, i, shard[i]) \in Int
         /\ \A i, j \in DOMAIN c : FilePlace(c, i, shard[i]) = FilePlace(c, j, shard[j]) => i = j
BY CatalogType DEF FilePlace

LEMMA StrengthType ==
  ASSUME NEW c \in Catalogs, NEW i \in DOMAIN c, c[i].kind # "area"
  PROVE  Strength(c, i) \in [1..3 -> Int]
<1>1. Evidence(c[i]) \in PlaceEvidence
  BY CatalogType, EvidenceType
<1>2. /\ Evidence(c[i]).confidence \in Int /\ Evidence(c[i]).specificity \in Int
      /\ Evidence(c[i]).class \in Int
  BY <1>1 DEF PlaceEvidence
<1>3. QED
  BY <1>2 DEF Strength, Place

LEMMA PlaceKeyType ==
  ASSUME NEW c \in Catalogs, NEW i \in DOMAIN c, c[i].kind # "area",
         NEW base \in Seq(DOMAIN c)
  PROVE  PlaceKey(c, i, base) \in [1..5 -> Int]
<1>1. Strength(c, i)[1] \in Int /\ Strength(c, i)[2] \in Int /\ Strength(c, i)[3] \in Int
  BY StrengthType
<1>2. i \in Int
  BY CatalogType
<1>3. (IF i \in ToSet(base) THEN At(base, i) ELSE Len(base) + 1) \in Int
  <2>1. CASE i \in ToSet(base)
    <3>1. \E k \in DOMAIN base : base[k] = i
      BY <2>1 DEF ToSet
    <3>2. At(base, i) \in DOMAIN base
      BY <3>1, Zenon DEF At
    <3>3. QED
      BY <2>1, <3>2
  <2>2. QED
    BY <2>1
<1>4. QED
  BY <1>1, <1>2, <1>3 DEF PlaceKey

\* The limits are positive.
LEMMA Limits ==
  /\ ResultLimit \in Nat \ {0} /\ ContextLimit \in Nat \ {0} /\ PageSize \in Nat \ {0}
  /\ EvidenceLimit \in Nat \ {0}
BY LimitsAssumption

\* What is shown of entries of the catalog is in the catalog.
LEMMA ShownType ==
  ASSUME NEW c \in Catalogs, NEW scored \in Seq(DOMAIN c),
         NEW class \in [DOMAIN c -> Int], NEW limit \in Nat
  PROVE  Shown(c, scored, class, limit) \in Seq(DOMAIN c)
<1> DEFINE first(i) == \A j \in ToSet(scored) :
                    (/\ c[i].kind = "street" /\ c[j].kind = "street"
                     /\ c[i].name = c[j].name)
                       => ~Lexically(PostingKey(c, class[j], j), PostingKey(c, class[i], i))
           at == {k \in DOMAIN scored : first(scored[k])}
           t == Picked(scored, at)
           keys == [k \in DOMAIN t |-> PostingKey(c, class[t[k]], t[k])]
<1>1. Shown(c, scored, class, limit) = Truncated(SortedBy(t, keys), limit)
  BY DEF Shown, Sorted, Select
<1>2. at \in SUBSET (DOMAIN scored)
  OBVIOUS
<1> HIDE DEF at
<1>3. t \in Seq(DOMAIN c)
  BY <1>2, PickedFacts
<1> HIDE DEF t
<1>4. \A k \in DOMAIN t : t[k] \in DOMAIN c /\ class[t[k]] \in Int
  BY <1>3
<1>5. keys \in [DOMAIN t -> [1..4 -> Int]]
  BY <1>4, PostingKeyType
<1> HIDE DEF keys
<1>6. 4 \in Nat
  OBVIOUS
<1>7. Truncated(SortedBy(t, keys), limit) \in Seq(DOMAIN c)
  BY <1>3, <1>5, <1>6, SortedTruncated
<1>8. QED
  BY <1>1, <1>7

\* What the postings find is in the catalog.
LEMMA PostingsType ==
  ASSUME NEW c \in Catalogs, NEW name
  PROVE  Postings(c, name) \in Seq(DOMAIN c)
<1> DEFINE some == {i \in DOMAIN c : Matches(c, name, [j \in DOMAIN c |-> j][i])
                                      /\ ~c[[j \in DOMAIN c |-> j][i]].closed}
           scored == Picked([i \in DOMAIN c |-> i], some)
           class == [i \in DOMAIN c |-> MatchClass(c, name, i)]
<1>1. scored \in Seq(DOMAIN c)
  <2>1. some \in SUBSET (DOMAIN c)
    OBVIOUS
  <2> HIDE DEF some
  <2>2. QED
    BY <2>1, IdentityFacts
<1>2. Postings(c, name) = Shown(c, scored, class, ResultLimit)
  BY DEF Postings, Sequences, Select
<1>3. class \in [DOMAIN c -> Int]
  BY MatchClassType
<1> HIDE DEF scored, class
<1>4. QED
  BY <1>1, <1>2, <1>3, Limits, ShownType

LEMMA ContextPostingsType ==
  ASSUME NEW c \in Catalogs, NEW name, NEW context
  PROVE  ContextPostings(c, name, context) \in Seq(DOMAIN c)
<1> DEFINE some == {i \in DOMAIN c :
                      LET j == [k \in DOMAIN c |-> k][i]
                      IN  Matches(c, name, j) /\ context \in c[j].about /\ ~c[j].closed}
           scored == Picked([i \in DOMAIN c |-> i], some)
           class == [i \in DOMAIN c |-> 2]
<1>1. scored \in Seq(DOMAIN c)
  <2>1. some \in SUBSET (DOMAIN c)
    OBVIOUS
  <2> HIDE DEF some
  <2>2. QED
    BY <2>1, IdentityFacts
<1>2. ContextPostings(c, name, context) = Shown(c, scored, class, ContextLimit)
  BY DEF ContextPostings, Sequences, Select
<1>3. class \in [DOMAIN c -> Int]
  OBVIOUS
<1> HIDE DEF scored, class
<1>4. QED
  BY <1>1, <1>2, <1>3, Limits, ShownType

\* So is the baseline,
LEMMA BaselineType ==
  ASSUME NEW c \in Catalogs, NEW q
  PROVE  BaselineOf(c, q) \in Seq(DOMAIN c)
<1> DEFINE areas == Exact(c, q.name, "area")
           keys == [k \in DOMAIN areas |-> AreaKey(c, areas[k])]
           first == Truncated(SortedBy(areas, keys), ResultLimit)
           postings == Postings(c, q.name)
           at == {k \in DOMAIN postings : postings[k] \notin ToSet(first)}
           rest == Picked(postings, at)
<1>1. BaselineOf(c, q) = Truncated(first \o rest, ResultLimit)
  BY DEF BaselineOf, Unstructured, Sorted, Select
<1>2. areas \in Seq(DOMAIN c) /\ \A k \in DOMAIN areas : c[areas[k]].kind = "area"
  <2>1. areas \in Seq(DOMAIN c)
    BY ExactFacts
  <2>2. ToSet(areas) = {i \in DOMAIN c : c[i].name = q.name /\ c[i].kind = "area" /\ ~c[i].closed}
    BY ExactFacts
  <2>3. \A k \in DOMAIN areas : areas[k] \in ToSet(areas)
    BY Zenon DEF ToSet
  <2>4. QED
    BY <2>1, <2>2, <2>3
<1>3. postings \in Seq(DOMAIN c)
  BY PostingsType
<1>4. at \in SUBSET (DOMAIN postings)
  OBVIOUS
<1> HIDE DEF areas, postings, at
<1>5. \A k \in DOMAIN areas : areas[k] \in DOMAIN c
  BY <1>2
<1>6. keys \in [DOMAIN areas -> [1..3 -> Int]]
  BY <1>2, <1>5, AreaKeyType
<1> HIDE DEF keys
<1>7. first \in Seq(DOMAIN c)
  BY <1>2, <1>6, SortedTruncated, Limits
<1>8. rest \in Seq(DOMAIN c)
  BY <1>3, <1>4, PickedFacts
<1> HIDE DEF first, rest
<1>9. first \o rest \in Seq(DOMAIN c)
  BY <1>7, <1>8
<1>10. QED
  BY <1>1, <1>9, TruncatedFacts, Limits

\* The candidates that are left are some of them.
LEMMA FilteredType ==
  ASSUME NEW c, NEW A, NEW candidates \in Seq(A), NEW first
  PROVE  Filtered(c, candidates, first) \in Seq(A)
<1>1. \E at \in SUBSET (DOMAIN candidates) : Filtered(c, candidates, first) = Picked(candidates, at)
  <2> DEFINE at == IF first \in ToSet(candidates) THEN At(candidates, first) ELSE 0
             fits(k, current) == candidates[k] # first /\ Eligible(c, candidates[k], first, current)
             early == {k \in DOMAIN candidates : fits(k, IF at = 0 THEN NONE ELSE first)}
             last == Ascending(early)[at]
             later == {k \in early : k <= last}
                       \cup {k \in DOMAIN candidates : k > last /\ fits(k, candidates[last])}
  <2>1. Filtered(c, candidates, first)
          = IF at = 0 \/ Cardinality(early) < at THEN Picked(candidates, early)
            ELSE Picked(candidates, later)
    BY DEF Filtered
  <2>2. early \in SUBSET (DOMAIN candidates)
    OBVIOUS
  <2>3. later \in SUBSET (DOMAIN candidates)
    OBVIOUS
  <2> HIDE DEF at, early, later
  <2>4. QED
    BY <2>1, <2>2, <2>3
<1>2. QED
  BY <1>1, PickedFacts

\* the baseline with one of some businesses promoted,
BusinessesOf(c) == {i \in DOMAIN c : c[i].kind = "business"}

LEMMA ExactBusinesses ==
  ASSUME NEW c \in Catalogs, NEW name
  PROVE  Exact(c, name, "business") \in Seq(BusinessesOf(c))
<1> DEFINE candidates == Exact(c, name, "business")
<1>1. candidates \in Seq(DOMAIN c)
  BY ExactFacts
<1>2. ToSet(candidates) = {i \in DOMAIN c : c[i].name = name /\ c[i].kind = "business" /\ ~c[i].closed}
  BY ExactFacts
<1>3. \A k \in DOMAIN candidates : candidates[k] \in ToSet(candidates)
  BY Zenon DEF ToSet
<1> HIDE DEF candidates
<1>4. \A k \in DOMAIN candidates : candidates[k] \in BusinessesOf(c)
  BY <1>2, <1>3 DEF BusinessesOf
<1>5. candidates \in Seq(BusinessesOf(c))
  BY <1>1, <1>4
<1>6. QED
  BY <1>5 DEF candidates

\* Sorting by source file keeps the candidates.
LEMMA SourceOrderFacts ==
  ASSUME NEW c \in Catalogs, NEW A \in SUBSET (DOMAIN c), NEW s \in Seq(A)
  PROVE  SourceOrder(c, s) \in Seq(A) /\ ToSet(SourceOrder(c, s)) = ToSet(s)
<1> DEFINE shard == [i \in DOMAIN c |-> c[i].sourceShard]
           keys == [k \in DOMAIN s |-> <<FilePlace(c, s[k], c[s[k]].sourceShard)>>]
<1>1. SourceOrder(c, s) = SortedBy(s, keys)
  BY DEF SourceOrder, Sorted
<1>2. shard \in [DOMAIN c -> Nat] /\ \A i \in DOMAIN c : shard[i] = c[i].sourceShard
  BY CatalogType
<1>3. \A k \in DOMAIN s : s[k] \in DOMAIN c
  OBVIOUS
<1> HIDE DEF shard
<1>4. \A k \in DOMAIN s : FilePlace(c, s[k], c[s[k]].sourceShard) \in Int
  BY <1>2, <1>3, FilePlaceFacts
<1>5. \A k \in DOMAIN s : <<FilePlace(c, s[k], c[s[k]].sourceShard)>> \in [1..1 -> Int]
  BY <1>4, Single
<1>6. keys \in [DOMAIN s -> [1..1 -> Int]] /\ 1 \in Nat
  BY <1>5
<1> HIDE DEF keys
<1>7. QED
  BY <1>1, <1>6, SortedSet

LEMMA PromotedType ==
  ASSUME NEW c \in Catalogs, NEW base \in Seq(DOMAIN c), NEW candidates \in Seq(BusinessesOf(c))
  PROVE  Promoted(c, base, candidates) \in Seq(DOMAIN c)
<1> DEFINE B == BusinessesOf(c)
           eligible == Filtered(c, candidates, base[1])
           keys == [k \in DOMAIN eligible |-> PlaceKey(c, eligible[k], base)]
           best == SortedBy(eligible, keys)[1]
           at == {k \in DOMAIN base : base[k] # best}
<1>1. Promoted(c, base, candidates)
        = IF eligible = <<>> THEN base
          ELSE Truncated(<<best>> \o Picked(base, at), ResultLimit)
  BY DEF Promoted, Sorted, Select
<1>2. candidates \in Seq(B)
  OBVIOUS
<1>3. eligible \in Seq(B)
  BY <1>2, FilteredType
<1> HIDE DEF eligible
<1>4. \A k \in DOMAIN eligible : eligible[k] \in B
  <2> HIDE DEF B
  <2>1. QED
    BY <1>3
<1>5. keys \in [DOMAIN eligible -> [1..5 -> Int]]
  <2>1. \A k \in DOMAIN eligible : eligible[k] \in DOMAIN c /\ c[eligible[k]].kind # "area"
    BY <1>4 DEF BusinessesOf
  <2>2. QED
    BY <2>1, PlaceKeyType
<1> HIDE DEF keys
<1>6. eligible # <<>> => best \in DOMAIN c
  <2>1. SortedBy(eligible, keys) \in Seq(B) /\ Len(SortedBy(eligible, keys)) = Len(eligible)
    <3> HIDE DEF B
    <3>1. QED
      BY <1>3, <1>5, SortedFacts
  <2>2. eligible # <<>> => 1 \in 1..Len(eligible)
    <3> HIDE DEF B
    <3>1. QED
      BY <1>3
  <2>3. eligible # <<>> => best \in B
    <3> HIDE DEF B
    <3>1. QED
      BY <2>1, <2>2
  <2>4. QED
    BY <2>3 DEF BusinessesOf
<1>7. Picked(base, at) \in Seq(DOMAIN c)
  <2>1. at \in SUBSET (DOMAIN base)
    OBVIOUS
  <2> HIDE DEF at
  <2>2. QED
    BY <2>1, PickedFacts
<1> HIDE DEF best, at
<1>8. eligible # <<>> => <<best>> \o Picked(base, at) \in Seq(DOMAIN c)
  BY <1>6, <1>7
<1>9. eligible # <<>> => Truncated(<<best>> \o Picked(base, at), ResultLimit) \in Seq(DOMAIN c)
  BY <1>8, TruncatedFacts, Limits
<1>10. QED
  BY <1>1, <1>9

\* and what the text alone finds.
LEMMA ResultsType ==
  ASSUME NEW c \in Catalogs, NEW q, NEW candidates \in Seq(BusinessesOf(c))
  PROVE  Results(c, q, candidates) \in Seq(DOMAIN c)
BY BaselineType, PromotedType, Zenon DEF Results

\* The two orders of the businesses of a name.
TwoOrders(c, q) ==
  {Exact(c, q.name, "business"), SourceOrder(c, Exact(c, q.name, "business"))}

LEMMA OrdersType ==
  ASSUME NEW c \in Catalogs, NEW q, NEW candidates \in TwoOrders(c, q)
  PROVE  /\ candidates \in Seq(BusinessesOf(c))
         /\ ToSet(candidates) = ToSet(Exact(c, q.name, "business"))
<1>1. BusinessesOf(c) \in SUBSET (DOMAIN c)
  BY DEF BusinessesOf
<1>2. Exact(c, q.name, "business") \in Seq(BusinessesOf(c))
  BY ExactBusinesses
<1>3. QED
  BY <1>1, <1>2, SourceOrderFacts, Zenon DEF TwoOrders

-----------------------------------------------------------------------------
(* When the order of the candidates matters.                               *)

\* The order of the files is the sequence order, unless the first file and later
\* ones have businesses of the name.
LEMMA SameOrder ==
  ASSUME NEW c \in Catalogs, NEW name,
         LET shards == {c[i].sourceShard : i \in ToSet(Exact(c, name, "business"))}
         IN  ~(0 \in shards /\ shards # {0})
  PROVE  SourceOrder(c, Exact(c, name, "business")) = Exact(c, name, "business")
<1> DEFINE s == Exact(c, name, "business")
           keys == [k \in DOMAIN s |-> <<FilePlace(c, s[k], c[s[k]].sourceShard)>>]
           shard == [k \in DOMAIN s |-> c[s[k]].sourceShard]
<1>1. SourceOrder(c, s) = SortedBy(s, keys)
  BY DEF SourceOrder, Sorted
<1>2. /\ s \in Seq(DOMAIN c)
      /\ \A k, l \in DOMAIN s : k < l => s[k] < s[l]
  BY ExactFacts
<1>3. (\A k \in DOMAIN s : shard[k] = 0) \/ (\A k \in DOMAIN s : shard[k] # 0)
  <2>1. \A k \in DOMAIN s : shard[k] \in {c[i].sourceShard : i \in ToSet(s)}
    BY DEF ToSet
  <2>2. QED
    BY <2>1
<1>4. \A k \in DOMAIN s : s[k] \in 1..Len(c) /\ s[k] \in Int /\ Len(c) \in Nat
  BY <1>2, CatalogType
<1>5. \A k \in DOMAIN s : keys[k] = <<IF shard[k] = 0 THEN Len(c) + s[k] ELSE s[k]>>
  BY DEF FilePlace
<1>6. keys \in [DOMAIN s -> [1..1 -> Int]]
  <2>1. \A k \in DOMAIN s : (IF shard[k] = 0 THEN Len(c) + s[k] ELSE s[k]) \in Int
    BY <1>4
  <2>2. \A k \in DOMAIN s : keys[k] \in [1..1 -> Int]
    BY <1>5, <2>1, Single
  <2>3. QED
    BY <2>2
<1> HIDE DEF keys, shard, s
<1>7. ASSUME NEW k \in DOMAIN s, NEW l \in DOMAIN s, k < l PROVE keys[k][1] < keys[l][1]
  <2>1. s[k] < s[l] /\ s[k] \in Int /\ s[l] \in Int /\ Len(c) \in Nat
    BY <1>2, <1>4, <1>7
  <2>2. CASE \A m \in DOMAIN s : shard[m] = 0
    <3>1. keys[k] = <<Len(c) + s[k]>> /\ keys[l] = <<Len(c) + s[l]>>
      BY <1>5, <2>2
    <3>2. QED
      BY <2>1, <3>1
  <2>3. CASE \A m \in DOMAIN s : shard[m] # 0
    <3>1. keys[k] = <<s[k]>> /\ keys[l] = <<s[l]>>
      BY <1>5, <2>3
    <3>2. QED
      BY <2>1, <3>1
  <2>4. QED
    BY <1>3, <2>2, <2>3
<1>8. SortedBy(s, keys) = s
  BY <1>2, <1>6, <1>7, SortedAlready
<1>9. QED
  BY <1>1, <1>8 DEF s

\* Without a current place among the candidates the filter looks at each alone.
LEMMA FilteredEach ==
  ASSUME NEW c, NEW A, NEW candidates \in Seq(A), NEW first, first \notin ToSet(candidates)
  PROVE  ToSet(Filtered(c, candidates, first))
           = {i \in ToSet(candidates) : i # first /\ Eligible(c, i, first, NONE)}
<1> DEFINE early == {k \in DOMAIN candidates :
                       candidates[k] # first /\ Eligible(c, candidates[k], first, NONE)}
<1>1. Filtered(c, candidates, first) = Picked(candidates, early)
  BY DEF Filtered
<1>2. early \in SUBSET (DOMAIN candidates)
  OBVIOUS
<1>3. {candidates[k] : k \in early} = {i \in ToSet(candidates) : i # first /\ Eligible(c, i, first, NONE)}
  BY DEF ToSet
<1> HIDE DEF early
<1>4. ToSet(Picked(candidates, early)) = {candidates[k] : k \in early}
  BY <1>2, PickedSet
<1>5. QED
  BY <1>1, <1>3, <1>4

\* If no business comes first, the order of the candidates does not matter.
LEMMA OrderFree ==
  ASSUME NEW c \in Catalogs, NEW base \in Seq(DOMAIN c), base # <<>>,
         c[base[1]].kind # "business",
         NEW s \in Seq(BusinessesOf(c)), NEW t \in Seq(BusinessesOf(c)), ToSet(s) = ToSet(t)
  PROVE  Promoted(c, base, s) = Promoted(c, base, t)
<1> DEFINE B == BusinessesOf(c)
           u == Filtered(c, s, base[1])
           v == Filtered(c, t, base[1])
           K == [i \in B |-> PlaceKey(c, i, base)]
           best(e) == SortedBy(e, [k \in DOMAIN e |-> PlaceKey(c, e[k], base)])[1]
<1>1. base[1] \notin ToSet(s) /\ base[1] \notin ToSet(t)
  BY DEF ToSet, BusinessesOf
<1>2. ToSet(u) = ToSet(v)
  <2>1. ToSet(u) = {i \in ToSet(s) : i # base[1] /\ Eligible(c, i, base[1], NONE)}
    BY <1>1, FilteredEach
  <2>2. ToSet(v) = {i \in ToSet(t) : i # base[1] /\ Eligible(c, i, base[1], NONE)}
    BY <1>1, FilteredEach
  <2> HIDE DEF u, v
  <2>3. QED
    BY <2>1, <2>2, Zenon
<1>3. u \in Seq(B) /\ v \in Seq(B)
  BY FilteredType
<1>4. /\ Promoted(c, base, s) = IF u = <<>> THEN base
                                ELSE Truncated(<<best(u)>> \o Select(base, LAMBDA i : i # best(u)), ResultLimit)
      /\ Promoted(c, base, t) = IF v = <<>> THEN base
                                ELSE Truncated(<<best(v)>> \o Select(base, LAMBDA i : i # best(v)), ResultLimit)
  BY DEF Promoted, Sorted
<1>5. K \in [B -> [1..5 -> Int]] /\ \A i \in B : K[i] = PlaceKey(c, i, base)
  BY PlaceKeyType DEF BusinessesOf
<1>6. ASSUME NEW x \in B, NEW y \in B, K[x] = K[y] PROVE x = y
  <2>1. K[x][5] = x /\ K[y][5] = y
    BY <1>5 DEF PlaceKey
  <2>2. QED
    BY <1>6, <2>1
<1> HIDE DEF u, v, K, B
<1>7. u = <<>> <=> v = <<>>
  <2>1. ASSUME NEW e \in Seq(B) PROVE e = <<>> <=> ToSet(e) = {}
    <3>1. e = <<>> <=> DOMAIN e = {}
      OBVIOUS
    <3>2. ToSet(e) = {} <=> DOMAIN e = {}
      BY Zenon DEF ToSet
    <3>3. QED
      BY <3>1, <3>2
  <2>2. QED
    BY <1>2, <1>3, <2>1
<1>8. \A e \in Seq(B) : [k \in DOMAIN e |-> PlaceKey(c, e[k], base)] = [k \in DOMAIN e |-> K[e[k]]]
  BY <1>5
<1>9. best(u) = First(u, K) /\ best(v) = First(v, K)
  BY <1>3, <1>8 DEF First
<1>10. ASSUME u # <<>> PROVE First(u, K) = First(v, K)
  <2>1. 5 \in Nat
    OBVIOUS
  <2>2. DOMAIN K = B
    BY <1>5
  <2>3. K \in Injection(B, [1..5 -> Int])
    BY <1>5, <1>6, <2>2 DEF Injection, IsInjective
  <2>4. QED
    BY <1>2, <1>3, <1>10, <2>1, <2>3, SortedFirst
<1>11. CASE u = <<>>
  BY <1>4, <1>7, <1>11
<1>12. CASE u # <<>>
  <2>1. best(u) = best(v)
    BY <1>9, <1>10, <1>12
  <2> HIDE DEF best
  <2>2. QED
    BY <1>4, <1>7, <1>12, <2>1
<1>13. QED
  BY <1>11, <1>12

\* So a warm and a cold request differ only on a name whose businesses lie across
\* files and come first.
LEMMA WarmIsCold ==
  ASSUME NEW c \in Catalogs, NEW q, ~AcrossFiles(c, q)
  PROVE  WarmResults(c, q) = ColdResults(c, q)
<1> DEFINE base == BaselineOf(c, q)
           named == Exact(c, q.name, "business")
<1>1. CASE base = <<>>
  BY <1>1 DEF WarmResults, ColdResults, Results, Kept
<1>2. CASE base # <<>> /\ c[base[1]].kind # "business"
  <2>1. base \in Seq(DOMAIN c)
    BY BaselineType
  <2>2. /\ named \in Seq(BusinessesOf(c)) /\ SourceOrder(c, named) \in Seq(BusinessesOf(c))
        /\ ToSet(named) = ToSet(SourceOrder(c, named))
    BY OrdersType DEF TwoOrders
  <2>3. Promoted(c, base, named) = Promoted(c, base, SourceOrder(c, named))
    BY <1>2, <2>1, <2>2, OrderFree
  <2>4. QED
    BY <2>3 DEF WarmResults, ColdResults, Results
<1>3. CASE base # <<>> /\ c[base[1]].kind = "business"
  <2>1. SourceOrder(c, named) = named
    BY <1>3, SameOrder DEF AcrossFiles
  <2>2. QED
    BY <2>1 DEF WarmResults, ColdResults
<1>4. QED
  BY <1>1, <1>2, <1>3

-----------------------------------------------------------------------------
(* A name with a region.                                                  *)

\* Distances are numbers.
LEMMA DistanceType == \A a, b \in Nat : Distance(a, b) \in Nat
BY DEF Distance

\* What a page gives is near enough or the closest of the page.
LEMMA NearestFacts ==
  ASSUME NEW c \in Catalogs, NEW page \in SUBSET (DOMAIN c), page # {}, NEW anchor \in Nat
  PROVE  /\ NearestOnPage(c, page, anchor) \in page
         /\ \/ Distance(c[NearestOnPage(c, page, anchor)].location, anchor) <= EarlyAccept
            \/ \A j \in page : Distance(c[NearestOnPage(c, page, anchor)].location, anchor)
                                 <= Distance(c[j].location, anchor)
<1> DEFINE away(i) == Distance(c[i].location, anchor)
           place(i) == FilePlace(c, i, c[i].entityShard)
           shard == [i \in DOMAIN c |-> c[i].entityShard]
           Good(i) == \A j \in page \ {i} :
                        IF away(i) <= EarlyAccept THEN away(j) <= EarlyAccept => place(i) < place(j)
                        ELSE away(i) < away(j) \/ (away(i) = away(j) /\ place(i) < place(j))
           near == {i \in page : away(i) <= EarlyAccept}
           D == [i \in page |-> away(i)]
<1>1. NearestOnPage(c, page, anchor) = CHOOSE i \in page : Good(i)
  BY DEF NearestOnPage
<1>2. page \in SUBSET Int /\ IsFiniteSet(page)
  <2>1. DOMAIN c = 1..Len(c) /\ Len(c) \in Nat
    BY CatalogType
  <2>2. IsFiniteSet(1..Len(c))
    BY <2>1, FS_Interval
  <2>3. QED
    BY <2>1, <2>2, FS_Subset
<1>3. \A i \in page : away(i) \in Nat /\ i \in Int
  <2>1. \A i \in page : c[i].location \in Nat
    BY CatalogType
  <2>2. QED
    BY <1>2, <2>1, DistanceType
<1>10. /\ \A i \in page : place(i) \in Int
       /\ \A i, j \in page : place(i) = place(j) => i = j
  <2>1. shard \in [DOMAIN c -> Nat] /\ \A i \in DOMAIN c : shard[i] = c[i].entityShard
    BY CatalogType
  <2> HIDE DEF shard
  <2>2. QED
    BY <2>1, FilePlaceFacts
<1> HIDE DEF away, place
<1>4. ASSUME near # {} PROVE \E k \in page : Good(k)
  <2>1. near \in SUBSET page /\ IsFiniteSet(near)
    <3>1. near \in SUBSET page
      OBVIOUS
    <3> HIDE DEF near
    <3>2. QED
      BY <1>2, <3>1, FS_Subset
  <2> DEFINE Z == [i \in near |-> 0]
             P == [i \in near |-> place(i)]
  <2>2. /\ Z \in [near -> Int] /\ \A i \in near : Z[i] = 0
        /\ P \in Injection(near, Int) /\ \A i \in near : P[i] = place(i)
    BY <1>10 DEF Injection, IsInjective
  <2> HIDE DEF near, Z, P
  <2>3. PICK k \in near : \A l \in near \ {k} : Z[k] < Z[l] \/ (Z[k] = Z[l] /\ P[k] < P[l])
    BY <1>4, <2>1, <2>2, FirstClosest
  <2>4. \A l \in near \ {k} : place(k) < place(l)
    BY <2>2, <2>3
  <2>5. k \in page /\ away(k) <= EarlyAccept
    BY DEF near
  <2>6. Good(k)
    BY <2>4, <2>5 DEF near
  <2> HIDE DEF Good
  <2>7. QED
    BY <2>5, <2>6
<1>5. ASSUME near = {} PROVE \E k \in page : Good(k)
  <2> DEFINE P == [i \in page |-> place(i)]
  <2>1. /\ D \in [page -> Int]
        /\ P \in Injection(page, Int) /\ \A i \in page : P[i] = place(i)
    BY <1>3, <1>10 DEF Injection, IsInjective
  <2>2. \A i \in page : D[i] = away(i) /\ ~(away(i) <= EarlyAccept)
    BY <1>5
  <2> HIDE DEF D, P
  <2>3. PICK k \in page : \A l \in page \ {k} : D[k] < D[l] \/ (D[k] = D[l] /\ P[k] < P[l])
    BY <1>2, <2>1, FirstClosest
  <2>4. Good(k)
    BY <2>1, <2>2, <2>3
  <2> HIDE DEF Good
  <2>5. QED
    BY <2>4
<1>6. \E k \in page : Good(k)
  <2> HIDE DEF Good, near
  <2>1. QED
    BY <1>4, <1>5
<1> DEFINE chosen == NearestOnPage(c, page, anchor)
<1>7. chosen \in page /\ Good(chosen)
  <2> HIDE DEF Good
  <2>1. QED
    BY <1>1, <1>6, Zenon
<1> HIDE DEF chosen
<1>8. away(chosen) <= EarlyAccept \/ \A j \in page : away(chosen) <= away(j)
  BY <1>3, <1>7
<1>9. QED
  BY <1>7, <1>8 DEF away, chosen

\* What ContextStreet finds: nothing if every street is out of reach, else one in
\* reach that is near enough or the closest of all.
LEMMA StreetFacts ==
  ASSUME NEW c \in Catalogs, NEW name, NEW anchor \in Nat
  PROVE  LET streets == ToSet(Exact(c, name, "street"))
             street == ContextStreet(c, name, anchor)
             away(i) == Distance(c[i].location, anchor)
         IN  /\ street = NONE => \A i \in streets : ~(away(i) <= Radius)
             /\ street # NONE => /\ street \in streets /\ away(street) <= Radius
                                 /\ away(street) <= EarlyAccept
                                    \/ \A i \in streets : away(street) <= away(i)
<1> DEFINE streets == Exact(c, name, "street")
           away(i) == Distance(c[i].location, anchor)
           L == Len(streets)
           pageOf == [k \in DOMAIN streets |-> (k - 1) \div PageSize]
           pages == {(k - 1) \div PageSize : k \in DOMAIN streets}
           page(n) == {streets[k] : k \in {l \in DOMAIN streets : (l - 1) \div PageSize = n}}
           found(n) == NearestOnPage(c, page(n), anchor)
           read == {n \in pages : \A m \in pages : m < n => away(found(m)) > EarlyAccept}
           Before(n, m) == \/ away(found(n)) < away(found(m))
                           \/ away(found(n)) = away(found(m)) /\ n < m
           closest == CHOOSE n \in read : \A m \in read \ {n} : Before(n, m)
           D == [n \in pages |-> away(found(n))]
<1>1. ContextStreet(c, name, anchor)
        = IF streets = <<>> \/ away(found(closest)) > Radius THEN NONE ELSE found(closest)
  BY DEF ContextStreet
<1>2. streets \in Seq(DOMAIN c) /\ ToSet(streets) \subseteq DOMAIN c
  BY ExactFacts
<1> HIDE DEF streets
<1>3. L \in Nat /\ DOMAIN streets = 1..L /\ \A k \in 1..L : streets[k] \in DOMAIN c
  BY <1>2
<1>4. \A k \in DOMAIN streets : (k - 1) \div PageSize \in Int
  <2>1. PageSize \in Nat /\ PageSize > 0
    BY Limits
  <2>2. QED
    BY <1>3, <2>1
<1>5. pages \in SUBSET Int /\ IsFiniteSet(pages)
  <2>1. IsFiniteSet(1..L)
    BY <1>3, FS_Interval
  <2>2. pageOf \in Surjection(1..L, pages)
    BY <1>3 DEF Surjection
  <2> HIDE DEF pageOf, pages
  <2>3. IsFiniteSet(pages)
    BY <2>1, <2>2, FS_Surjection
  <2> USE DEF pages
  <2>4. QED
    BY <1>4, <2>2, <2>3
<1>6. ASSUME NEW n \in pages PROVE page(n) \in SUBSET (DOMAIN c) /\ page(n) # {}
  BY <1>3
<1>7. ASSUME NEW k \in DOMAIN streets PROVE \E n \in pages : streets[k] \in page(n)
  OBVIOUS
<1>8. \A n \in pages : page(n) \subseteq ToSet(streets)
  BY DEF ToSet
<1> HIDE DEF page, pages, L
<1>9. \A n \in pages :
        /\ found(n) \in page(n)
        /\ away(found(n)) <= EarlyAccept \/ \A j \in page(n) : away(found(n)) <= away(j)
  BY <1>6, NearestFacts
<1>10. \A i \in DOMAIN c : away(i) \in Nat
  <2>1. \A i \in DOMAIN c : c[i].location \in Nat
    BY CatalogType
  <2>2. QED
    BY <2>1, DistanceType
<1> HIDE DEF found, away
<1>11. \A n \in pages : found(n) \in ToSet(streets) /\ found(n) \in DOMAIN c /\ away(found(n)) \in Nat
  BY <1>6, <1>8, <1>9, <1>10
<1>12. EarlyAccept \in Nat /\ Radius \in Nat /\ EarlyAccept <= Radius
  BY RadiusAssumption
<1>13. ASSUME streets # <<>> PROVE pages # {}
  <2>1. 1 \in DOMAIN streets
    BY <1>2, <1>3, <1>13
  <2>2. QED
    BY <1>7, <2>1
<1> DEFINE early == {n \in pages : away(found(n)) <= EarlyAccept}
<1>14. ASSUME NEW S \in SUBSET pages, S # {} PROVE \E n \in S : \A m \in S : n <= m
  <2> DEFINE Z == [n \in S |-> 0]
  <2>1. S \in SUBSET Int /\ IsFiniteSet(S)
    BY <1>5, FS_Subset
  <2>2. Z \in [S -> Int] /\ \A n \in S : Z[n] = 0
    OBVIOUS
  <2> HIDE DEF Z
  <2>3. PICK n \in S : \A m \in S \ {n} : Z[n] < Z[m] \/ (Z[n] = Z[m] /\ n < m)
    BY <1>14, <2>1, <2>2, ClosestExists
  <2>4. QED
    BY <2>1, <2>2, <2>3
<1>15. ASSUME streets # <<>> PROVE \E n \in read : \A m \in read \ {n} : Before(n, m)
  <2>1. PICK f \in pages : \A m \in pages : f <= m
    BY <1>13, <1>14, <1>15
  <2>2. f \in read
    BY <1>5, <2>1
  <2> DEFINE R == [n \in read |-> away(found(n))]
  <2>3. read \in SUBSET pages
    OBVIOUS
  <2> HIDE DEF read
  <2>4. R \in [read -> Int] /\ \A n \in read : R[n] = away(found(n))
    BY <1>11, <2>3
  <2>5. read \in SUBSET Int /\ IsFiniteSet(read)
    BY <1>5, <2>3, FS_Subset
  <2> HIDE DEF R
  <2>6. PICK k \in read : \A l \in read \ {k} : R[k] < R[l] \/ (R[k] = R[l] /\ k < l)
    BY <2>2, <2>4, <2>5, ClosestExists
  <2>7. QED
    BY <2>4, <2>6
<1>16. ASSUME streets # <<>>
       PROVE  closest \in read /\ \A m \in read : away(found(closest)) <= away(found(m))
  <2>1. closest \in read /\ \A m \in read \ {closest} : Before(closest, m)
    <3> HIDE DEF read, Before
    <3>1. QED
      BY <1>15, <1>16, Zenon
  <2> HIDE DEF closest
  <2>2. closest \in pages /\ \A m \in read : m \in pages
    BY <2>1
  <2> HIDE DEF read
  <2>3. QED
    BY <1>11, <2>1, <2>2
<1> HIDE DEF closest
<1>17. ASSUME streets # <<>>
       PROVE  \/ away(found(closest)) <= EarlyAccept
              \/ \A i \in ToSet(streets) : away(found(closest)) <= away(i)
  <2>1. closest \in pages
    BY <1>16, <1>17
  <2>2. CASE early # {}
    <3>1. PICK n \in early : \A m \in early : n <= m
      <4>1. early \in SUBSET pages
        OBVIOUS
      <4> HIDE DEF early
      <4>2. QED
        BY <1>14, <2>2, <4>1
    <3>2. n \in read
      <4>1. n \in pages
        BY <3>1
      <4>2. ASSUME NEW m \in pages, m < n PROVE away(found(m)) > EarlyAccept
        <5>1. m \notin early
          BY <1>5, <3>1, <4>1, <4>2
        <5>2. ~(away(found(m)) <= EarlyAccept) /\ away(found(m)) \in Nat
          BY <1>11, <5>1
        <5>3. QED
          BY <1>12, <5>2
      <4>3. QED
        BY <4>1, <4>2
    <3>3. away(found(closest)) <= away(found(n)) /\ away(found(n)) <= EarlyAccept
      BY <1>16, <1>17, <3>1, <3>2
    <3>4. away(found(closest)) \in Nat /\ away(found(n)) \in Nat
      BY <1>11, <2>1, <3>1
    <3>5. QED
      BY <1>12, <3>3, <3>4
  <2>3. CASE early = {}
    <3>1. \A n \in pages : ~(away(found(n)) <= EarlyAccept)
      BY <2>3
    <3>2. \A n \in pages : away(found(n)) > EarlyAccept
      BY <1>11, <1>12, <3>1
    <3>3. \A n \in pages : n \in read
      BY <3>2
    <3>4. ASSUME NEW i \in ToSet(streets) PROVE away(found(closest)) <= away(i)
      <4>1. PICK k \in DOMAIN streets : streets[k] = i
        BY DEF ToSet
      <4>2. PICK n \in pages : i \in page(n)
        BY <1>7, <4>1
      <4>3. away(found(n)) <= away(i)
        BY <1>9, <3>1, <4>2
      <4>4. away(found(closest)) <= away(found(n))
        BY <1>16, <1>17, <3>3
      <4>5. away(i) \in Nat /\ away(found(n)) \in Nat /\ away(found(closest)) \in Nat
        BY <1>2, <1>10, <1>11, <2>1
      <4>6. QED
        BY <4>3, <4>4, <4>5
    <3>5. QED
      BY <3>4
  <2>4. QED
    BY <2>2, <2>3
<1> DEFINE street == ContextStreet(c, name, anchor)
<1>18. CASE streets = <<>>
  <2>1. street = NONE
    BY <1>1, <1>18
  <2>2. ToSet(streets) = {}
    BY <1>18 DEF ToSet
  <2>3. QED
    BY <2>1, <2>2 DEF streets
<1>19. CASE streets # <<>>
  <2>1. closest \in pages
    BY <1>16, <1>19
  <2>2. found(closest) \in ToSet(streets) /\ away(found(closest)) \in Nat
    BY <1>11, <2>1
  <2>3. found(closest) # NONE
    <3>1. found(closest) \in DOMAIN c
      BY <1>11, <2>1
    <3>2. found(closest) \in Nat
      BY <3>1, CatalogType
    <3>3. QED
      BY <3>2, NoneAssumption
  <2>4. CASE away(found(closest)) > Radius
    <3>1. street = NONE
      BY <1>1, <2>4
    <3>2. ~(away(found(closest)) <= EarlyAccept)
      BY <1>12, <2>2, <2>4
    <3>3. \A i \in ToSet(streets) : away(found(closest)) <= away(i)
      BY <1>17, <1>19, <3>2
    <3>4. \A i \in ToSet(streets) : away(i) \in Nat
      BY <1>2, <1>10
    <3>5. \A i \in ToSet(streets) : ~(away(i) <= Radius)
      BY <1>12, <2>2, <2>4, <3>3, <3>4
    <3>6. QED
      BY <3>1, <3>5 DEF streets, away
  <2>5. CASE ~(away(found(closest)) > Radius)
    <3>1. street = found(closest)
      BY <1>1, <1>19, <2>5
    <3>2. away(street) <= Radius
      BY <1>12, <2>2, <2>5, <3>1
    <3>3. away(street) <= EarlyAccept \/ \A i \in ToSet(streets) : away(street) <= away(i)
      BY <1>17, <1>19, <3>1
    <3>4. street # NONE /\ street \in ToSet(streets)
      BY <2>2, <2>3, <3>1
    <3> HIDE DEF street
    <3>5. QED
      BY <3>2, <3>3, <3>4 DEF streets, away, street
  <2>6. QED
    BY <2>4, <2>5
<1>20. QED
  BY <1>18, <1>19

\* filterAreaDescendants finds the areas within the regions.
LEMMA DescendsWithin ==
  ASSUME NEW c \in Catalogs, NEW ids \in SUBSET Areas(c), NEW i \in Areas(c)
  PROVE  Descends(c, i, ids) <=> i \in Within(c, ids)
<1>1. \A j \in Areas(c) : c[j].parents \subseteq Areas(c)
  BY CatalogType DEF Areas
<1>2. ASSUME Descends(c, i, ids), NEW S \in SUBSET Areas(c), ids \subseteq S,
             \A j \in Areas(c) : c[j].parents \cap S # {} => j \in S
      PROVE  i \in S
  <2> DEFINE seen == Areas(c) \ S
  <2>1. \A j \in seen : c[j].parents \subseteq seen
    BY <1>1, <1>2
  <2>2. seen \cap ids = {} /\ seen \in SUBSET Areas(c)
    BY <1>2
  <2>3. i \notin seen
    BY <1>2, <2>1, <2>2 DEF Descends
  <2>4. QED
    BY <2>3
<1>3. ASSUME i \in Within(c, ids), NEW seen \in SUBSET Areas(c), i \in seen,
             \A j \in seen : c[j].parents \subseteq seen
      PROVE  seen \cap ids # {}
  <2> SUFFICES ASSUME seen \cap ids = {} PROVE FALSE
    OBVIOUS
  <2> DEFINE S == Areas(c) \ seen
  <2>1. ids \subseteq S /\ S \in SUBSET Areas(c)
    OBVIOUS
  <2>2. \A j \in Areas(c) : c[j].parents \cap S # {} => j \in S
    BY <1>3
  <2>3. i \in S
    BY <1>3, <2>1, <2>2 DEF Within
  <2>4. QED
    BY <1>3, <2>3
<1>4. QED
  BY <1>2, <1>3 DEF Descends, Within

\* The place of a locality type is that of no other.
LEMMA LocalityAt ==
  \A x \in ToSet(LocalityTypes) : /\ At(LocalityTypes, x) \in 1..3
                                  /\ LocalityTypes[At(LocalityTypes, x)] = x
<1> TAKE x \in ToSet(LocalityTypes)
<1>1. \E k \in DOMAIN LocalityTypes : LocalityTypes[k] = x
  BY DEF ToSet
<1>2. DOMAIN LocalityTypes = 1..3
  BY DEF LocalityTypes
<1>3. QED
  BY <1>1, <1>2, Zenon DEF At

\* The regions of a name are areas.
LEMMA RegionsAreAreas ==
  ASSUME NEW c \in Catalogs, NEW q
  PROVE  RegionIDs(c, q) \in SUBSET Areas(c)
<1>1. ToSet(Exact(c, q.region, "area"))
        = {i \in DOMAIN c : c[i].name = q.region /\ c[i].kind = "area" /\ ~c[i].closed}
  BY ExactFacts
<1>2. QED
  BY <1>1 DEF RegionIDs, Areas

\* The localities of a name are the places it can mean, each once, the first first.
LEMMA LocalitiesFacts ==
  ASSUME NEW c \in Catalogs, NEW q
  PROVE  LET found == Localities(c, Exact(c, LocalityName(q), "area"), RegionIDs(c, q))
         IN  /\ found \in Seq(DOMAIN c)
             /\ ToSet(found) = Places(c, q)
             /\ Len(found) = Cardinality(Places(c, q))
             /\ found # <<>> => FirstPlace(c, q, found[1])
<1> DEFINE candidates == Exact(c, LocalityName(q), "area")
           ids == RegionIDs(c, q)
           at == {k \in DOMAIN candidates :
                    /\ Descends(c, candidates[k], ids)
                    /\ c[candidates[k]].subtype \in ToSet(LocalityTypes)}
           some == Picked(candidates, at)
           keys == [k \in DOMAIN some |-> <<At(LocalityTypes, c[some[k]].subtype), some[k]>>]
           found == Localities(c, candidates, ids)
           order == Order(some, keys)
           n == Len(some)
<1>1. found = SortedBy(some, keys)
  BY DEF Localities, Sorted, Select
<1>2. /\ candidates \in Seq(DOMAIN c)
      /\ ToSet(candidates) \subseteq Areas(c)
      /\ \A k, l \in DOMAIN candidates : k < l => candidates[k] < candidates[l]
  <2>1. ToSet(candidates)
          = {i \in DOMAIN c : c[i].name = LocalityName(q) /\ c[i].kind = "area" /\ ~c[i].closed}
    BY ExactFacts
  <2>2. QED
    BY <2>1, ExactFacts DEF Areas
<1>3. ids \in SUBSET Areas(c)
  BY RegionsAreAreas
<1>4. \A k \in DOMAIN candidates : k \in at <=> candidates[k] \in Places(c, q)
  <2>1. ASSUME NEW k \in DOMAIN candidates
        PROVE  /\ candidates[k] \in ToSet(candidates)
               /\ Descends(c, candidates[k], ids) <=> candidates[k] \in Within(c, ids)
    <3>1. candidates[k] \in ToSet(candidates)
      BY DEF ToSet
    <3>2. candidates[k] \in Areas(c)
      BY <1>2, <3>1
    <3>3. QED
      BY <1>3, <3>1, <3>2, DescendsWithin
  <2>2. QED
    BY <2>1 DEF Places
<1>5. \A i \in Places(c, q) : i \in ToSet(candidates)
  BY DEF Places
<1>6. at \in SUBSET (DOMAIN candidates)
  OBVIOUS
<1>7. \A i \in Places(c, q) : i \in DOMAIN c /\ i \in Int /\ c[i].subtype \in ToSet(LocalityTypes)
  BY <1>2, <1>5, CatalogType DEF Places, Areas
<1>8. \A k \in DOMAIN candidates : k \in Nat /\ candidates[k] \in Int
  <2>1. \A k \in DOMAIN candidates : k \in Nat /\ candidates[k] \in DOMAIN c
    BY <1>2
  <2>2. QED
    BY <2>1, CatalogType
<1> HIDE DEF candidates, at, ids
<1>9. some \in Seq(DOMAIN c) /\ Len(some) = Cardinality(at) /\ ToSet(some) = {candidates[k] : k \in at}
      /\ IsFiniteSet(at)
  <2>1. some \in Seq(DOMAIN c) /\ Len(some) = Cardinality(at) /\ ToSet(some) = {candidates[k] : k \in at}
    BY <1>2, <1>6, PickedFacts, PickedSet
  <2>2. Len(candidates) \in Nat /\ DOMAIN candidates = 1..Len(candidates)
    BY <1>2
  <2>3. IsFiniteSet(at)
    BY <1>6, <2>2, AscendingFacts
  <2>4. QED
    BY <2>1, <2>3
<1>10. {candidates[k] : k \in at} = Places(c, q)
  <2>1. ASSUME NEW i \in Places(c, q) PROVE \E k \in at : candidates[k] = i
    <3>1. PICK k \in DOMAIN candidates : candidates[k] = i
      BY <1>5 DEF ToSet
    <3>2. QED
      BY <1>4, <3>1
  <2>2. QED
    BY <1>4, <1>6, <2>1
<1>11. Cardinality(at) = Cardinality(Places(c, q))
  <2> DEFINE f == [k \in at |-> candidates[k]]
  <2>1. ASSUME NEW k \in at, NEW l \in at, candidates[k] = candidates[l] PROVE k = l
    <3>1. ~(k < l) /\ ~(l < k)
      BY <1>2, <1>6, <1>8, <2>1
    <3>2. QED
      BY <1>6, <1>8, <3>1
  <2>2. f \in Surjection(at, Places(c, q))
    BY <1>10 DEF Surjection
  <2>3. f \in Injection(at, Places(c, q))
    BY <1>10, <2>1 DEF Injection, IsInjective
  <2> HIDE DEF f
  <2>4. QED
    BY <1>9, <2>2, <2>3, FS_Surjection
<1> HIDE DEF some
<1>12. \A k \in 1..n : some[k] \in Places(c, q) /\ DOMAIN some = 1..n /\ n \in Nat
  <2>1. DOMAIN some = 1..n /\ n \in Nat
    BY <1>9
  <2>2. \A k \in 1..n : some[k] \in ToSet(some)
    BY <2>1 DEF ToSet
  <2>3. QED
    BY <1>9, <1>10, <2>1, <2>2
<1>13. \A k \in 1..n : /\ keys[k] = <<At(LocalityTypes, c[some[k]].subtype), some[k]>>
                       /\ At(LocalityTypes, c[some[k]].subtype) \in Int
                       /\ some[k] \in Int
  BY <1>7, <1>12, LocalityAt
<1>14. keys \in [DOMAIN some -> [1..2 -> Int]]
  <2>1. ASSUME NEW k \in DOMAIN some
        PROVE  <<At(LocalityTypes, c[some[k]].subtype), some[k]>> \in [1..2 -> Int]
    <3>1. k \in 1..n
      BY <1>9
    <3>2. QED
      BY <1>13, <3>1, Pair
  <2>2. QED
    BY <2>1
<1> HIDE DEF keys
<1>15. ASSUME NEW N \in Nat, keys \in [DOMAIN some -> [1..N -> Int]]
       PROVE  /\ SortedBy(some, keys) \in Seq(DOMAIN c)
              /\ Len(SortedBy(some, keys)) = n
              /\ order \in Bijection(1..n, 1..n)
              /\ \A m \in 1..n : SortedBy(some, keys)[m] = some[order[m]]
              /\ \A l, m \in 1..n : l < m => Precede(keys, order[l], order[m])
              /\ ToSet(SortedBy(some, keys)) = ToSet(some)
  <2>1. some \in Seq(DOMAIN c)
    BY <1>9
  <2>2. /\ SortedBy(some, keys) \in Seq(DOMAIN c)
        /\ Len(SortedBy(some, keys)) = n
        /\ order \in Bijection(1..n, 1..n)
        /\ \A m \in 1..n : SortedBy(some, keys)[m] = some[order[m]]
        /\ \A l, m \in 1..n : l < m => Precede(keys, order[l], order[m])
    BY <1>15, <2>1, SortedFacts
  <2>3. ToSet(SortedBy(some, keys)) = ToSet(some)
    BY <1>15, <2>1, SortedSet
  <2>4. QED
    BY <2>2, <2>3
<1>16. /\ found \in Seq(DOMAIN c) /\ Len(found) = n
       /\ order \in Bijection(1..n, 1..n)
       /\ \A m \in 1..n : found[m] = some[order[m]]
       /\ \A l, m \in 1..n : l < m => Precede(keys, order[l], order[m])
       /\ ToSet(found) = ToSet(some)
  <2>1. 2 \in Nat
    OBVIOUS
  <2>2. QED
    BY <1>1, <1>14, <1>15, <2>1, Zenon
<1> HIDE DEF found, order, n
<1>17. ASSUME found # <<>> PROVE FirstPlace(c, q, found[1])
  <2>1. 1 \in 1..n /\ n \in Nat
    BY <1>16, <1>17 DEF n
  <2>2. \A m \in 1..n : order[m] \in 1..n
    BY <1>16 DEF Bijection, Injection
  <2>3. found[1] \in Places(c, q)
    BY <1>12, <1>16, <2>1, <2>2
  <2>4. ASSUME NEW o \in Places(c, q)
        PROVE  \/ At(LocalityTypes, c[found[1]].subtype) < At(LocalityTypes, c[o].subtype)
               \/ c[found[1]].subtype = c[o].subtype /\ found[1] <= o
    <3>1. PICK k \in 1..n : some[k] = o
      <4>1. o \in ToSet(some) /\ DOMAIN some = 1..n
        BY <1>9, <1>10, <1>12, <2>1
      <4>2. QED
        BY <4>1 DEF ToSet
    <3>2. PICK m \in 1..n : order[m] = k
      BY <1>16 DEF Bijection, Surjection
    <3>3. CASE m = 1
      <4>1. found[1] = o /\ o \in Int
        BY <1>7, <1>16, <2>1, <3>1, <3>2, <3>3
      <4>2. QED
        BY <4>1
    <3>4. CASE 1 < m
      <4> DEFINE j == order[1]
      <4>1. Precede(keys, j, k) /\ j \in 1..n /\ some[j] = found[1]
        BY <1>16, <2>1, <2>2, <3>2, <3>4
      <4> HIDE DEF j
      <4>2. \/ Lexically(<<At(LocalityTypes, c[found[1]].subtype), found[1]>>,
                         <<At(LocalityTypes, c[o].subtype), o>>)
            \/ <<At(LocalityTypes, c[found[1]].subtype), found[1]>>
                 = <<At(LocalityTypes, c[o].subtype), o>>
        BY <1>13, <3>1, <4>1 DEF Precede
      <4>3. /\ At(LocalityTypes, c[found[1]].subtype) \in Int /\ found[1] \in Int
            /\ At(LocalityTypes, c[o].subtype) \in Int /\ o \in Int
        BY <1>13, <3>1, <4>1
      <4>4. \/ At(LocalityTypes, c[found[1]].subtype) < At(LocalityTypes, c[o].subtype)
            \/ /\ At(LocalityTypes, c[found[1]].subtype) = At(LocalityTypes, c[o].subtype)
               /\ found[1] <= o
        BY <4>2, <4>3, LexPair
      <4>5. At(LocalityTypes, c[found[1]].subtype) = At(LocalityTypes, c[o].subtype)
              => c[found[1]].subtype = c[o].subtype
        <5>1. c[found[1]].subtype \in ToSet(LocalityTypes) /\ c[o].subtype \in ToSet(LocalityTypes)
          BY <1>7, <2>3
        <5>2. QED
          BY <5>1, LocalityAt, Zenon
      <4>6. QED
        BY <4>4, <4>5
    <3>5. QED
      BY <2>1, <3>3, <3>4
  <2>5. QED
    BY <2>3, <2>4 DEF FirstPlace
<1>18. QED
  BY <1>9, <1>10, <1>11, <1>16, <1>17 DEF found, candidates, ids, n

\* There is one first place.
LEMMA FirstPlaceUnique ==
  ASSUME NEW c \in Catalogs, NEW q, NEW p, NEW o, FirstPlace(c, q, p), FirstPlace(c, q, o)
  PROVE  p = o
<1>1. p \in Places(c, q) /\ o \in Places(c, q)
  BY DEF FirstPlace
<1>2. \A i \in Places(c, q) : i \in Int /\ At(LocalityTypes, c[i].subtype) \in Int
  <2>1. \A i \in Places(c, q) : i \in DOMAIN c /\ c[i].subtype \in ToSet(LocalityTypes)
    BY ExactFacts DEF Places
  <2>2. QED
    BY <2>1, CatalogType, LocalityAt
<1>3. /\ \/ At(LocalityTypes, c[p].subtype) < At(LocalityTypes, c[o].subtype)
         \/ c[p].subtype = c[o].subtype /\ p <= o
      /\ \/ At(LocalityTypes, c[o].subtype) < At(LocalityTypes, c[p].subtype)
         \/ c[o].subtype = c[p].subtype /\ o <= p
  BY <1>1 DEF FirstPlace
<1>4. QED
  BY <1>1, <1>2, <1>3

\* Without a region there is no place in it.
LEMMA NoRegionNoPlace ==
  ASSUME NEW c \in Catalogs, NEW q, RegionIDs(c, q) = {}
  PROVE  Places(c, q) = {}
<1>1. Within(c, {}) = {}
  BY DEF Within
<1>2. QED
  BY <1>1 DEF Places

\* What a request with a region is answered honours it.
LEMMA ContextHonoured ==
  ASSUME NEW c \in Catalogs, NEW q
  PROVE  HonoursContext(c, q, FreshContext(c, q))
<1> DEFINE found == Localities(c, Exact(c, LocalityName(q), "area"), RegionIDs(c, q))
           anchor == c[found[1]].location
           street == ContextStreet(c, q.name, anchor)
           streets == ToSet(Exact(c, q.name, "street"))
           places == Places(c, q)
           given == FreshContext(c, q)
<1>1. /\ found \in Seq(DOMAIN c) /\ ToSet(found) = places /\ Len(found) = Cardinality(places)
      /\ found # <<>> => FirstPlace(c, q, found[1])
  BY LocalitiesFacts
<1>2. given = IF RegionIDs(c, q) = {} \/ found = <<>> THEN <<>>
              ELSE IF q.locality = NONE THEN Truncated(found, ResultLimit)
              ELSE IF street = NONE THEN <<>> ELSE <<street>>
  BY DEF FreshContext, ContextAnswer
<1> HIDE DEF found, given
<1>3. CASE RegionIDs(c, q) = {} \/ found = <<>>
  <2>1. places = {}
    <3>1. CASE RegionIDs(c, q) = {}
      BY <3>1, NoRegionNoPlace
    <3>2. CASE found = <<>>
      BY <1>1, <3>2 DEF ToSet
    <3>3. QED
      BY <1>3, <3>1, <3>2
  <2>2. given = <<>>
    BY <1>2, <1>3
  <2>3. ToSet(given) = {} /\ Len(given) = 0 /\ Cardinality(places) = 0
    <3>1. ToSet(given) = {} /\ Len(given) = 0
      BY <2>2 DEF ToSet
    <3>2. Cardinality({}) = 0
      BY FS_EmptySet
    <3>3. QED
      BY <2>1, <3>1, <3>2
  <2>4. 0 < ResultLimit
    BY Limits
  <2> HIDE DEF places
  <2>5. QED
    BY <2>1, <2>2, <2>3, <2>4 DEF HonoursContext, given, places
<1>4. CASE RegionIDs(c, q) # {} /\ found # <<>> /\ q.locality = NONE
  <2>1. given = Truncated(found, ResultLimit)
    BY <1>2, <1>4
  <2>2. /\ given \in Seq(DOMAIN c)
        /\ Len(given) = (IF Len(found) < ResultLimit THEN Len(found) ELSE ResultLimit)
        /\ \A n \in 1..Len(given) : given[n] = found[n]
    <3>1. ResultLimit \in Nat
      BY Limits
    <3>2. QED
      BY <1>1, <2>1, <3>1, TruncatedFacts
  <2>3. Len(found) \in Nat /\ DOMAIN found = 1..Len(found) /\ DOMAIN given = 1..Len(given)
    BY <1>1, <2>2
  <2>4. ToSet(given) \subseteq ToSet(found)
    <3>1. \A n \in DOMAIN given : n \in DOMAIN found /\ given[n] = found[n]
      BY <2>2, <2>3, Limits
    <3>2. QED
      BY <3>1 DEF ToSet
  <2>5. QED
    BY <1>1, <1>4, <2>2, <2>4 DEF HonoursContext, given
<1>5. CASE RegionIDs(c, q) # {} /\ found # <<>> /\ q.locality # NONE
  <2> DEFINE p == found[1]
  <2>1. FirstPlace(c, q, p) /\ p \in places
    BY <1>1, <1>5 DEF FirstPlace
  <2>2. p \in DOMAIN c
    BY <2>1, ExactFacts DEF Places
  <2>3. anchor \in Nat /\ anchor = c[p].location
    BY <2>2, CatalogType
  <2> HIDE DEF p
  <2>4. /\ street = NONE => \A i \in streets : ~(Apart(c, i, p) <= Radius)
        /\ street # NONE => /\ street \in streets /\ Apart(c, street, p) <= Radius
                            /\ \/ Apart(c, street, p) <= EarlyAccept
                               \/ \A i \in streets : Apart(c, street, p) <= Apart(c, i, p)
    <3> HIDE DEF anchor
    <3>1. QED
      BY <2>3, StreetFacts DEF Apart
  <2> HIDE DEF anchor, street, streets
  <2>5. CASE street = NONE
    <3>1. given = <<>>
      BY <1>2, <1>5, <2>5
    <3>2. Reachable(c, q, p) = {}
      BY <2>4, <2>5 DEF Reachable, streets
    <3>3. \A o \in places : FirstPlace(c, q, o) => Reachable(c, q, o) = {}
      BY <2>1, <3>2, FirstPlaceUnique
    <3>4. QED
      BY <1>5, <3>1, <3>3 DEF HonoursContext, given
  <2>6. CASE street # NONE
    <3>1. given = <<street>>
      BY <1>2, <1>5, <2>6
    <3>2. given # <<>> /\ Len(given) = 1 /\ given[1] = street
      BY <3>1
    <3>3. street \in Reachable(c, q, p) /\ \A j \in Reachable(c, q, p) : j \in streets
      BY <2>4, <2>6 DEF Reachable, streets
    <3>4. \/ Apart(c, street, p) <= EarlyAccept
          \/ \A j \in Reachable(c, q, p) : Apart(c, street, p) <= Apart(c, j, p)
      BY <2>4, <2>6, <3>3
    <3>5. QED
      BY <1>5, <2>1, <3>2, <3>3, <3>4, Zenon DEF HonoursContext, given
  <2>7. QED
    BY <2>5, <2>6
<1>6. QED
  BY <1>3, <1>4, <1>5

-----------------------------------------------------------------------------
(* A name with a viewport.                                                *)

\* Merging hides nothing that the text found.
LEMMA MergedFacts ==
  ASSUME NEW A, NEW preferred \in Seq(A), NEW base \in Seq(A)
  PROVE  /\ Merged(preferred, base) \in Seq(A)
         /\ ToSet(base) \subseteq ToSet(Merged(preferred, base))
<1> DEFINE at == {k \in DOMAIN base : base[k] \notin ToSet(preferred)}
           rest == Picked(base, at)
<1>1. Merged(preferred, base) = preferred \o rest
  BY DEF Merged, Select
<1>2. at \in SUBSET (DOMAIN base)
  OBVIOUS
<1>3. rest \in Seq(A) /\ ToSet(rest) = {base[k] : k \in at}
  <2> HIDE DEF at
  <2>1. QED
    BY <1>2, PickedFacts, PickedSet
<1>4. ASSUME NEW i \in ToSet(base) PROVE i \in ToSet(preferred) \cup ToSet(rest)
  <2>1. PICK k \in DOMAIN base : base[k] = i
    BY DEF ToSet
  <2>2. QED
    BY <1>3, <2>1
<1> HIDE DEF rest
<1>5. ToSet(preferred) \cup ToSet(rest) \subseteq ToSet(preferred \o rest)
  <2>1. ASSUME NEW k \in DOMAIN preferred
        PROVE  k \in DOMAIN (preferred \o rest) /\ (preferred \o rest)[k] = preferred[k]
    BY <1>3
  <2>2. ASSUME NEW k \in DOMAIN rest
        PROVE  /\ k + Len(preferred) \in DOMAIN (preferred \o rest)
               /\ (preferred \o rest)[k + Len(preferred)] = rest[k]
    BY <1>3
  <2>3. QED
    BY <2>1, <2>2 DEF ToSet
<1>6. QED
  BY <1>1, <1>3, <1>4, <1>5

\* A street that is substituted stands for a street of its name.
LEMMA SubstitutedFacts ==
  ASSUME NEW c, NEW name, NEW A, NEW results \in Seq(A), NEW street,
         street # NONE => street \in A /\ c[street].kind = "street" /\ c[street].name = name
  PROVE  /\ Substituted(c, name, results, street) \in Seq(A)
         /\ \A i \in ToSet(results) :
              \/ i \in ToSet(Substituted(c, name, results, street))
              \/ /\ c[i].kind = "street" /\ c[i].name = name
                 /\ c[street].kind = "street" /\ c[street].name = name
                 /\ street \in ToSet(Substituted(c, name, results, street))
<1> DEFINE at == {k \in DOMAIN results : c[results[k]].kind = "street" /\ c[results[k]].name = name}
           place == CHOOSE k \in at : \A j \in at : k <= j
           after == [results EXCEPT ![place] = street]
<1>1. Substituted(c, name, results, street)
        = IF street = NONE \/ at = {} THEN results ELSE after
  BY DEF Substituted
<1>2. CASE street = NONE \/ at = {}
  BY <1>1, <1>2
<1>3. CASE street # NONE /\ at # {}
  <2>1. Len(results) \in Nat /\ DOMAIN results = 1..Len(results)
    OBVIOUS
  <2>2. at \in SUBSET (1..Len(results))
    BY <2>1
  <2> HIDE DEF at
  <2>3. \E k \in at : \A j \in at : k <= j
    BY <1>3, <2>1, <2>2, LeastPosition
  <2>4. place \in at
    BY <2>3, Zenon
  <2> HIDE DEF place
  <2>5. /\ place \in DOMAIN results
        /\ c[results[place]].kind = "street" /\ c[results[place]].name = name
    BY <2>4 DEF at
  <2>6. after \in Seq(A)
    BY <1>3, <2>5
  <2>7. DOMAIN after = DOMAIN results /\ after[place] = street
        /\ \A k \in DOMAIN results : k # place => after[k] = results[k]
    BY <2>5
  <2> HIDE DEF after
  <2>8. street \in ToSet(after)
    BY <2>5, <2>7 DEF ToSet
  <2>9. ASSUME NEW i \in ToSet(results), i \notin ToSet(after)
        PROVE  c[i].kind = "street" /\ c[i].name = name
    <3>1. PICK k \in DOMAIN results : results[k] = i
      BY DEF ToSet
    <3>2. k = place
      BY <2>7, <2>9, <3>1 DEF ToSet
    <3>3. QED
      BY <2>5, <3>1, <3>2
  <2>10. QED
    BY <1>1, <1>3, <2>6, <2>8, <2>9
<1>4. QED
  BY <1>2, <1>3

\* Only the exact name, with or without "the ", is in the first class.
LEMMA ViewportClassExact ==
  \A c, name, i : ViewportClass(c, name, i) = 0 <=> Called(name, c[i].name)
BY DEF ViewportClass

\* The viewport hides a result of exactly the asked name only behind as many others of it.
LEMMA BiasedFacts ==
  ASSUME NEW c \in Catalogs, NEW q, q.region = NONE, q.bias \in [center : Nat, half : Nat],
         NEW results \in Seq(DOMAIN c)
  PROVE  \A i \in ToSet(results) : Called(q.name, c[i].name) =>
           \/ i \in ToSet(Biased(c, q, results))
           \/ /\ Len(Biased(c, q, results)) = ResultLimit
              /\ \A j \in ToSet(Biased(c, q, results)) : Called(q.name, c[j].name)
<1> DEFINE L == Len(results)
           away(i) == Distance(c[i].location, q.bias.center)
           key(k) == <<ViewportClass(c, q.name, results[k]),
                       IF away(results[k]) <= q.bias.half THEN 0 ELSE 1, away(results[k]), k>>
           ids == [k \in DOMAIN results |-> k]
           keys == [k \in DOMAIN ids |-> key(ids[k])]
           sorted == SortedBy(ids, keys)
           order == Truncated(sorted, ResultLimit)
           place == Order(ids, keys)
<1>1. Biased(c, q, results) = [k \in DOMAIN order |-> results[order[k]]]
  BY DEF Biased, Sorted
<1>2. L \in Nat /\ DOMAIN results = 1..L /\ \A k \in 1..L : results[k] \in DOMAIN c
  OBVIOUS
<1>3. ids \in Seq(1..L) /\ Len(ids) = L /\ DOMAIN ids = 1..L /\ \A k \in 1..L : ids[k] = k
  BY <1>2
<1>4. ASSUME NEW k \in 1..L PROVE key(k) \in [1..4 -> Int]
  <2>1. ViewportClass(c, q.name, results[k]) \in Int
    BY ViewportClassType
  <2>2. c[results[k]].location \in Nat /\ q.bias.center \in Nat
    BY <1>2, CatalogType
  <2>3. away(results[k]) \in Int
    BY <2>2, DistanceType
  <2>4. (IF away(results[k]) <= q.bias.half THEN 0 ELSE 1) \in Int
    <3> HIDE DEF away
    <3>1. QED
      OBVIOUS
  <2>5. k \in Int
    OBVIOUS
  <2> HIDE DEF away
  <2>6. QED
    BY <2>1, <2>3, <2>4, <2>5, Quadruple, Zenon
<1>5. \A k \in 1..L : keys[k] = key(k)
  BY <1>3
<1>6. \A k \in 1..L : key(k)[1] = ViewportClass(c, q.name, results[k])
  OBVIOUS
<1> HIDE DEF key, L, ids
<1>7. keys \in [DOMAIN ids -> [1..4 -> Int]]
  BY <1>3, <1>4
<1>8. \A k \in 1..L : keys[k][1] = ViewportClass(c, q.name, results[k]) /\ keys[k] \in [1..4 -> Int]
  BY <1>4, <1>5, <1>6
<1> HIDE DEF keys
<1>9. /\ sorted \in Seq(1..L) /\ Len(sorted) = L
      /\ place \in Bijection(1..L, 1..L)
      /\ \A n \in 1..L : sorted[n] = ids[place[n]]
      /\ \A m, n \in 1..L : m < n => Precede(keys, place[m], place[n])
  <2> DEFINE A == 1..L
  <2>1. ids \in Seq(A) /\ 4 \in Nat
    BY <1>3
  <2> HIDE DEF A
  <2>2. ASSUME NEW N \in Nat, keys \in [DOMAIN ids -> [1..N -> Int]]
        PROVE  /\ sorted \in Seq(A) /\ Len(sorted) = Len(ids)
               /\ place \in Bijection(1..Len(ids), 1..Len(ids))
               /\ \A n \in 1..Len(ids) : sorted[n] = ids[place[n]]
               /\ \A m, n \in 1..Len(ids) : m < n => Precede(keys, place[m], place[n])
    BY <2>1, <2>2, SortedFacts
  <2>3. QED
    BY <1>3, <1>7, <2>1, <2>2, Zenon DEF A
<1>10. \A n \in 1..L : place[n] \in 1..L
  BY <1>9 DEF Bijection, Injection
<1>11. \A k \in 1..L : \E n \in 1..L : place[n] = k
  BY <1>9 DEF Bijection, Surjection
<1>12. \A n \in 1..L : sorted[n] = place[n]
  BY <1>3, <1>9, <1>10
<1> HIDE DEF sorted, place
<1>13. /\ order \in Seq(1..L)
       /\ Len(order) = (IF L < ResultLimit THEN L ELSE ResultLimit)
       /\ \A n \in 1..Len(order) : order[n] = sorted[n]
  BY <1>9, TruncatedFacts, Limits
<1> HIDE DEF order
<1> DEFINE M == Len(order)
<1>14. M \in Nat /\ M <= L /\ DOMAIN order = 1..M /\ \A n \in 1..M : n \in 1..L /\ order[n] = place[n]
  BY <1>2, <1>12, <1>13, Limits
<1>15. DOMAIN Biased(c, q, results) = 1..M /\ \A n \in 1..M : Biased(c, q, results)[n] = results[place[n]]
  BY <1>1, <1>14
<1> SUFFICES ASSUME NEW i \in ToSet(results), Called(q.name, c[i].name), i \notin ToSet(Biased(c, q, results))
             PROVE  /\ Len(Biased(c, q, results)) = ResultLimit
                    /\ \A j \in ToSet(Biased(c, q, results)) : Called(q.name, c[j].name)
  OBVIOUS
<1>16. PICK k \in 1..L : results[k] = i
  BY <1>2 DEF ToSet
<1>17. PICK n \in 1..L : place[n] = k
  BY <1>11
<1>18. n \notin 1..M
  BY <1>15, <1>16, <1>17 DEF ToSet
<1>19. M = ResultLimit /\ M < n
  BY <1>2, <1>13, <1>14, <1>18, Limits
<1>20. Len(Biased(c, q, results)) = ResultLimit
  <2>1. Biased(c, q, results) = [m \in 1..M |-> results[order[m]]]
    BY <1>1, <1>14
  <2>2. QED
    BY <1>14, <1>19, <2>1
<1>21. keys[k][1] = 0
  BY <1>8, <1>16, ViewportClassExact
<1>22. ASSUME NEW m \in 1..M PROVE Called(q.name, c[results[place[m]]].name)
  <2>1. m \in 1..L /\ place[m] \in 1..L /\ Precede(keys, place[m], k)
    BY <1>9, <1>10, <1>14, <1>17, <1>19
  <2>2. keys[place[m]] = keys[k] \/ Lexically(keys[place[m]], keys[k])
    BY <2>1 DEF Precede
  <2>3. keys[place[m]] \in [1..4 -> Int] /\ keys[k] \in [1..4 -> Int]
    BY <1>8, <2>1
  <2>4. keys[place[m]][1] <= keys[k][1]
    <3>1. CASE keys[place[m]] = keys[k]
      BY <2>3, <3>1
    <3>2. CASE Lexically(keys[place[m]], keys[k])
      <4>1. 4 \in Nat /\ 1 <= 4
        OBVIOUS
      <4>2. QED
        BY <2>3, <3>2, <4>1, LexFirst, Zenon
    <3>3. QED
      BY <2>2, <3>1, <3>2
  <2>5. ViewportClass(c, q.name, results[place[m]]) \in 0..2
        /\ ViewportClass(c, q.name, results[place[m]]) = keys[place[m]][1]
    BY <1>8, <2>1, ViewportClassType
  <2>6. ViewportClass(c, q.name, results[place[m]]) = 0
    BY <1>21, <2>4, <2>5
  <2>7. QED
    BY <2>6, ViewportClassExact
<1>23. ASSUME NEW j \in ToSet(Biased(c, q, results)) PROVE Called(q.name, c[j].name)
  <2>1. PICK m \in 1..M : j = results[place[m]]
    BY <1>15 DEF ToSet
  <2>2. QED
    BY <1>22, <2>1
<1>24. QED
  BY <1>20, <1>23

\* With a viewport the answer keeps the names the text finds.
LEMMA BiasKeeps ==
  ASSUME NEW c \in Catalogs, NEW q \in Queries, q.region = NONE, q.bias # NONE,
         NEW fresh \in Seq(DOMAIN c)
  PROVE  KeepsNames(c, q, fresh, Answered(c, q, fresh))
<1> DEFINE context == SearchContext(c, q.bias)
           merged == IF context = NONE THEN fresh
                     ELSE Merged(ContextPostings(c, q.name, context), fresh)
           street == IF q.name \in StreetNames
                     THEN ContextStreet(c, q.name, q.bias.center) ELSE NONE
           results == Substituted(c, q.name, merged, street)
           given == Answered(c, q, fresh)
           all == Len(given) = ResultLimit /\ \A j \in ToSet(given) : Called(q.name, c[j].name)
<1>1. given = Biased(c, q, results)
  BY DEF Answered
<1>2. q.bias \in [center : Nat, half : Nat] /\ q.bias.center \in Nat
  BY QueriesAssumption
<1>3. fresh \in Seq(DOMAIN c)
  OBVIOUS
<1>4. ContextPostings(c, q.name, context) \in Seq(DOMAIN c)
  BY ContextPostingsType
<1> HIDE DEF context
<1>5. merged \in Seq(DOMAIN c) /\ ToSet(fresh) \subseteq ToSet(merged)
  <2>1. CASE context = NONE
    BY <1>3, <2>1
  <2>2. CASE context # NONE
    BY <1>3, <1>4, <2>2, MergedFacts
  <2>3. QED
    BY <2>1, <2>2
<1>6. street # NONE => street \in DOMAIN c /\ c[street].kind = "street" /\ c[street].name = q.name
  <2>1. ContextStreet(c, q.name, q.bias.center) # NONE
          => ContextStreet(c, q.name, q.bias.center) \in ToSet(Exact(c, q.name, "street"))
    BY <1>2, StreetFacts
  <2>2. QED
    BY <2>1, ExactFacts
<1> HIDE DEF merged, street
<1>7. /\ results \in Seq(DOMAIN c)
      /\ \A i \in ToSet(merged) :
           \/ i \in ToSet(results)
           \/ /\ c[i].kind = "street" /\ c[i].name = q.name
              /\ c[street].kind = "street" /\ c[street].name = q.name
              /\ street \in ToSet(results)
  BY <1>5, <1>6, SubstitutedFacts
<1> HIDE DEF results, given
<1>8. \A i \in ToSet(results) : Called(q.name, c[i].name) => i \in ToSet(given) \/ all
  BY <1>1, <1>2, <1>7, BiasedFacts
<1>9. all => Len(given) = ResultLimit /\ ToSet(given) = OfName(c, q, given)
  BY DEF OfName
<1>10. ASSUME NEW i \in OfName(c, q, fresh)
       PROVE  \/ i \in ToSet(given) \/ all
              \/ /\ c[i].kind = "street"
                 /\ \E j \in ToSet(given) : c[j].kind = "street" /\ c[j].name = c[i].name
  <2>1. i \in ToSet(merged) /\ Called(q.name, c[i].name)
    BY <1>5 DEF OfName
  <2>2. CASE i \in ToSet(results)
    BY <1>8, <2>1, <2>2
  <2>3. CASE i \notin ToSet(results)
    <3>1. /\ c[i].kind = "street" /\ c[i].name = q.name
          /\ c[street].kind = "street" /\ c[street].name = q.name
          /\ street \in ToSet(results)
      BY <1>7, <2>1, <2>3
    <3>2. street \in ToSet(given) \/ all
      BY <1>8, <3>1 DEF Called
    <3>3. QED
      BY <3>1, <3>2
  <2>4. QED
    BY <2>2, <2>3
<1> HIDE DEF all
<1>11. QED
  BY <1>9, <1>10 DEF KeepsNames, given

-----------------------------------------------------------------------------
(* The inductive invariant.                                                *)

Stages == {"areas", "businesses", "regions", "localities"}

\* Where a request can be, and the kind of query each place is for.
PlaceInv(r) ==
  /\ \/ pc[r].stage \in {"idle", "done"} /\ pc[r].step = pc[r].stage
     \/ pc[r].stage \in Stages /\ pc[r].step \in {"lookup", "fill", "use"}
     \/ pc[r].stage = "areas" /\ pc[r].step = "promote"
  /\ pc[r].stage \in {"areas", "businesses"} => query[r].region = NONE
  /\ pc[r].stage \in {"regions", "localities"} => query[r].region # NONE

\* What a request got, from the cache or past it, is what the catalog has.
EntryInv(r) ==
  pc[r].step = "use" => entry[r].seqs = Exact(catalog, Key(r)[2], Key(r)[1])

\* The localities are looked up for the regions of the query, and there are some.
RegionsInv(r) ==
  pc[r].stage = "localities" =>
    regions[r] = RegionIDs(catalog, query[r]) /\ regions[r] # {}

\* The baseline is the one of the catalog.
BaselineInv(r) ==
  pc[r].step = "promote" \/ pc[r].stage = "businesses" =>
    baseline[r] = BaselineOf(catalog, query[r])

\* Would a request alone keep the first result?
KeptAlone(q) ==
  Kept(catalog, q.name, BaselineOf(catalog, q),
       [seqs |-> Exact(catalog, q.name, "area"), loaded |-> TRUE])

\* The businesses are looked up only if it would not.
BusinessInv(r) ==
  pc[r].stage = "businesses" /\ ~CityOrRegionFirst(catalog, query[r]) => ~KeptAlone(query[r])

\* What a plain query may be answered: the baseline, or one with a place promoted.
Plain(q) == Answered(catalog, q, BaselineOf(catalog, q))
WithPlace(q, candidates) ==
  Answered(catalog, q, Promoted(catalog, BaselineOf(catalog, q), candidates))
Alone(q, candidates) == Answered(catalog, q, Results(catalog, q, candidates))

AnswerInv(r) ==
  Done(r) =>
    /\ query[r].region # NONE =>
         answer[r] = Answered(catalog, query[r], FreshContext(catalog, query[r]))
    /\ query[r].region = NONE =>
         /\ \/ answer[r] = Plain(query[r])
            \/ \E s \in TwoOrders(catalog, query[r]) : answer[r] = WithPlace(query[r], s)
         /\ ~CityOrRegionFirst(catalog, query[r]) =>
              \E s \in TwoOrders(catalog, query[r]) : answer[r] = Alone(query[r], s)

RequestInv(r) ==
  /\ PlaceInv(r) /\ EntryInv(r) /\ RegionsInv(r) /\ BaselineInv(r) /\ BusinessInv(r)
  /\ AnswerInv(r)

\* The candidates under a key are those of the catalog.
CacheInv == \A key \in Cached : cache[key].seqs = Exact(catalog, key[2], key[1])

\* The variables of the requests are functions of them.
FamilyInv ==
  /\ DOMAIN pc = Requests /\ DOMAIN query = Requests /\ DOMAIN entry = Requests
  /\ DOMAIN regions = Requests /\ DOMAIN baseline = Requests /\ DOMAIN answer = Requests

IInv == FamilyInv /\ CacheInv /\ \A r \in Requests : RequestInv(r)

-----------------------------------------------------------------------------
(* What a step may read and change.                                        *)

\* If no city or region comes first, whether the baseline stands does not depend
\* on what the cache has under the name.
LEMMA KeptEither ==
  ASSUME NEW c, NEW q, NEW snapshot, NEW other, ~CityOrRegionFirst(c, q),
         Kept(c, q.name, BaselineOf(c, q), snapshot)
  PROVE  Kept(c, q.name, BaselineOf(c, q), other)
<1> DEFINE base == BaselineOf(c, q)
<1>1. ~(base # <<>> /\ c[base[1]].name = q.name /\ c[base[1]].kind = "area"
          /\ TypeRank(c, base[1], TRUE) <= 1)
  BY DEF CityOrRegionFirst
<1>2. TypeRank(c, base[1], snapshot.loaded) = TypeRank(c, base[1], TRUE)
        \/ TypeRank(c, base[1], TRUE) = 0
  BY DEF TypeRank
<1>3. ~(/\ base # <<>> /\ c[base[1]].name = q.name /\ c[base[1]].kind = "area"
        /\ TypeRank(c, base[1], snapshot.loaded) <= 1)
  <2> HIDE DEF base
  <2>1. CASE TypeRank(c, base[1], snapshot.loaded) = TypeRank(c, base[1], TRUE)
    BY <1>1, <2>1, Zenon
  <2>2. CASE TypeRank(c, base[1], TRUE) = 0
    <3>1. 0 <= 1
      OBVIOUS
    <3>2. TypeRank(c, base[1], TRUE) <= 1
      BY <2>2, <3>1, Zenon
    <3>3. QED
      BY <1>1, <3>2, Zenon
  <2>3. QED
    BY <1>2, <2>1, <2>2
<1>4. \/ base = <<>>
      \/ c[base[1]].name # q.name
      \/ c[base[1]].kind = "street" /\ q.name \in StreetNames
      \/ Len(Exact(c, q.name, "business")) \notin 1..EvidenceLimit
  BY <1>3, Zenon DEF Kept
<1>5. QED
  BY <1>4, Zenon DEF Kept

\* What is put in the cache is there or does not fit; the rest stays.
LEMMA Puts ==
  ASSUME CacheInv, NEW key, NEW e, e.seqs = Exact(catalog, key[2], key[1]),
         catalog' = catalog, Put(key, e)
  PROVE  CacheInv'
<1>1. CASE Fits(key)
  <2>1. cache' = [k \in Cached \cup {key} |-> IF k = key THEN e ELSE cache[k]]
    BY <1>1 DEF Put, With
  <2>2. QED
    BY <2>1 DEF CacheInv, Cached
<1>2. CASE ~Fits(key)
  <2>1. cache' = cache
    BY <1>2 DEF Put
  <2>2. QED
    BY <2>1 DEF CacheInv, Cached
<1>3. QED
  BY <1>1, <1>2

\* A step of one request changes what is kept for that request only.
LEMMA Frame ==
  ASSUME FamilyInv, NEW r \in Requests, Step(r)
  PROVE  /\ FamilyInv' /\ catalog' = catalog
         /\ \A o \in Requests \ {r} :
              /\ pc'[o] = pc[o] /\ query'[o] = query[o] /\ entry'[o] = entry[o]
              /\ regions'[o] = regions[o] /\ baseline'[o] = baseline[o]
              /\ answer'[o] = answer[o]
<1> USE DEF FamilyInv, Goes, Answers
<1>1. CASE Ask(r)
  BY <1>1 DEF Ask
<1>2. CASE Lookup(r)
  BY <1>2 DEF Lookup
<1>3. CASE Fill(r)
  BY <1>3 DEF Fill
<1>4. CASE UseAreas(r)
  BY <1>4 DEF UseAreas
<1>5. CASE Promote(r)
  BY <1>5 DEF Promote
<1>6. CASE UseBusinesses(r)
  BY <1>6 DEF UseBusinesses
<1>7. CASE UseRegions(r)
  BY <1>7 DEF UseRegions
<1>8. CASE UseLocalities(r)
  BY <1>8 DEF UseLocalities
<1>9. QED
  BY <1>1, <1>2, <1>3, <1>4, <1>5, <1>6, <1>7, <1>8 DEF Step

LEMMA OthersKeep ==
  ASSUME NEW r \in Requests, RequestInv(r), catalog' = catalog,
         pc'[r] = pc[r], query'[r] = query[r], entry'[r] = entry[r],
         regions'[r] = regions[r], baseline'[r] = baseline[r], answer'[r] = answer[r]
  PROVE  RequestInv(r)'
<1>1. Key(r)' = Key(r)
  BY DEF Key, LocalityName
<1>2. PlaceInv(r)'
  BY DEF RequestInv, PlaceInv
<1>3. EntryInv(r)'
  BY <1>1 DEF RequestInv, EntryInv
<1>4. RegionsInv(r)'
  BY DEF RequestInv, RegionsInv
<1>5. BaselineInv(r)'
  BY DEF RequestInv, BaselineInv
<1>6. BusinessInv(r)'
  BY DEF RequestInv, BusinessInv, KeptAlone
<1>7. AnswerInv(r)'
  BY DEF RequestInv, AnswerInv, Done, Plain, WithPlace, Alone, TwoOrders
<1>8. QED
  BY <1>2, <1>3, <1>4, <1>5, <1>6, <1>7 DEF RequestInv

-----------------------------------------------------------------------------
(* One step of one request.                                                *)

LEMMA AskStep ==
  ASSUME IInv, NEW r \in Requests, Ask(r)
  PROVE  CacheInv' /\ RequestInv(r)'
<1>1. /\ UNCHANGED <<catalog, cache, entry, regions, baseline, answer>>
      /\ DOMAIN pc = Requests /\ DOMAIN query = Requests
  BY DEF Ask, IInv, FamilyInv
<1>2. CacheInv'
  BY <1>1 DEF IInv, CacheInv, Cached
<1>3. PICK q \in Queries :
        /\ query' = [query EXCEPT ![r] = q]
        /\ Goes(r, IF q.region = NONE THEN "areas" ELSE "regions", "lookup")
  BY DEF Ask
<1>4. /\ query'[r] = q
      /\ pc'[r] = [stage |-> IF q.region = NONE THEN "areas" ELSE "regions", step |-> "lookup"]
  BY <1>1, <1>3 DEF Goes
<1>5. PlaceInv(r)'
  BY <1>4 DEF PlaceInv, Stages
<1>6. EntryInv(r)' /\ RegionsInv(r)' /\ BaselineInv(r)' /\ BusinessInv(r)' /\ AnswerInv(r)'
  BY <1>4 DEF EntryInv, RegionsInv, BaselineInv, BusinessInv, AnswerInv, Done
<1>7. QED
  BY <1>2, <1>5, <1>6 DEF RequestInv

\* A lookup, with what it got if it was there or read past the cache.
LEMMA LookupStep ==
  ASSUME IInv, NEW r \in Requests, pc[r].stage \in Stages, pc[r].step \in {"lookup", "fill"},
         NEW step \in {"fill", "use"}, Goes(r, pc[r].stage, step),
         UNCHANGED <<catalog, query, regions, baseline, answer>>,
         step = "use" => entry'[r].seqs = Exact(catalog, Key(r)[2], Key(r)[1])
  PROVE  RequestInv(r)'
<1>1. /\ RequestInv(r) /\ DOMAIN pc = Requests
  BY DEF IInv, FamilyInv
<1>2. pc'[r] = [stage |-> pc[r].stage, step |-> step]
  BY <1>1 DEF Goes
<1>3. Key(r)' = Key(r)
  <2>1. pc'[r].stage = pc[r].stage /\ query'[r] = query[r]
    BY <1>2
  <2>2. QED
    BY <2>1 DEF Key, LocalityName
<1>4. PlaceInv(r)'
  BY <1>1, <1>2 DEF RequestInv, PlaceInv
<1>5. EntryInv(r)'
  BY <1>2, <1>3 DEF EntryInv
<1>6. RegionsInv(r)' /\ BaselineInv(r)' /\ BusinessInv(r)'
  BY <1>1, <1>2 DEF RequestInv, RegionsInv, BaselineInv, BusinessInv, KeptAlone
<1>7. AnswerInv(r)'
  BY <1>2 DEF AnswerInv, Done, Stages
<1>8. QED
  BY <1>4, <1>5, <1>6, <1>7 DEF RequestInv

LEMMA LookupFillStep ==
  ASSUME IInv, NEW r \in Requests, Lookup(r) \/ Fill(r)
  PROVE  CacheInv' /\ RequestInv(r)'
<1>1. /\ RequestInv(r) /\ CacheInv /\ DOMAIN entry = Requests
      /\ UNCHANGED <<catalog, query, regions, baseline, answer>>
  BY DEF Lookup, Fill, IInv, FamilyInv
<1>2. pc[r].stage \in Stages /\ pc[r].step \in {"lookup", "fill"}
  BY <1>1 DEF Lookup, Fill, RequestInv, PlaceInv, Stages
<1>3. CASE Lookup(r)
  <2>1. CacheInv'
    BY <1>1, <1>3 DEF Lookup, CacheInv, Cached
  <2>2. CASE /\ Key(r) \in Cached
             /\ entry' = [entry EXCEPT ![r] = cache[Key(r)]]
             /\ Goes(r, pc[r].stage, "use")
    <3>1. entry'[r] = cache[Key(r)]
      BY <1>1, <2>2
    <3>2. entry'[r].seqs = Exact(catalog, Key(r)[2], Key(r)[1])
      BY <1>1, <2>2, <3>1 DEF CacheInv
    <3>3. QED
      BY <1>1, <1>2, <2>1, <2>2, <3>2, LookupStep
  <2>3. CASE Goes(r, pc[r].stage, "fill")
    BY <1>1, <1>2, <2>1, <2>3, LookupStep
  <2>4. QED
    BY <1>3, <2>2, <2>3 DEF Lookup
<1>4. CASE Fill(r)
  <2> DEFINE mine == [seqs |-> Exact(catalog, Key(r)[2], Key(r)[1]), loaded |-> FALSE]
             other == ~(Len(mine.seqs) >= LocatorThreshold) /\ Key(r) \in Cached
  <2>1. /\ entry' = [entry EXCEPT ![r] = IF other THEN cache[Key(r)] ELSE mine]
        /\ IF other THEN UNCHANGED cache ELSE Put(Key(r), mine)
        /\ Goes(r, pc[r].stage, "use")
    BY <1>4 DEF Fill
  <2>2. mine.seqs = Exact(catalog, Key(r)[2], Key(r)[1])
    OBVIOUS
  <2>3. other => Key(r) \in Cached
    OBVIOUS
  <2> HIDE DEF mine, other
  <2>4. entry'[r].seqs = Exact(catalog, Key(r)[2], Key(r)[1])
    BY <1>1, <2>1, <2>2, <2>3 DEF CacheInv
  <2>5. CacheInv'
    <3>1. CASE other
      BY <1>1, <2>1, <3>1 DEF CacheInv, Cached
    <3>2. CASE ~other
      BY <1>1, <2>1, <2>2, <3>2, Puts
    <3>3. QED
      BY <3>1, <3>2
  <2>6. QED
    BY <1>1, <1>2, <2>1, <2>4, <2>5, LookupStep
<1>5. QED
  BY <1>3, <1>4

LEMMA UseAreasStep ==
  ASSUME IInv, NEW r \in Requests, UseAreas(r)
  PROVE  CacheInv' /\ RequestInv(r)'
<1>1. /\ RequestInv(r) /\ CacheInv /\ DOMAIN baseline = Requests /\ DOMAIN pc = Requests
      /\ pc[r].stage = "areas" /\ pc[r].step = "use"
      /\ StoreAreas(r, entry[r].seqs) /\ Goes(r, "areas", "promote")
      /\ baseline' = [baseline EXCEPT ![r] = Unstructured(catalog, query[r].name, entry[r].seqs)]
      /\ UNCHANGED <<catalog, query, entry, regions, answer>>
  BY DEF UseAreas, Stands, IInv, FamilyInv
<1>2. Key(r) = <<"area", query[r].name>>
  BY <1>1 DEF Key
<1>3. entry[r].seqs = Exact(catalog, query[r].name, "area")
  BY <1>1, <1>2 DEF RequestInv, EntryInv
<1>4. CacheInv'
  <2>1. CASE entry[r].seqs = <<>>
    BY <1>1, <2>1 DEF StoreAreas, CacheInv, Cached
  <2>2. CASE entry[r].seqs # <<>>
    <3> DEFINE key == <<"area", query[r].name>>
               e == [seqs |-> entry[r].seqs, loaded |-> TRUE]
    <3>1. Put(key, e) /\ e.seqs = Exact(catalog, key[2], key[1])
      BY <1>1, <1>3, <2>2 DEF StoreAreas
    <3> HIDE DEF key, e
    <3>2. QED
      BY <1>1, <3>1, Puts
  <2>3. QED
    BY <2>1, <2>2
<1>5. pc'[r] = [stage |-> "areas", step |-> "promote"]
  BY <1>1 DEF Goes
<1>6. baseline'[r] = BaselineOf(catalog, query[r])
  BY <1>1, <1>3 DEF BaselineOf
<1>7. PlaceInv(r)' /\ EntryInv(r)' /\ RegionsInv(r)' /\ BusinessInv(r)' /\ AnswerInv(r)'
  BY <1>1, <1>5 DEF PlaceInv, RequestInv, EntryInv, RegionsInv, BusinessInv, AnswerInv, Done
<1>8. BaselineInv(r)'
  BY <1>1, <1>6 DEF BaselineInv
<1>9. QED
  BY <1>4, <1>7, <1>8 DEF RequestInv

\* A request that has answered keeps nothing that matters.
LEMMA AnswersStep ==
  ASSUME IInv, NEW r \in Requests, NEW results, Answers(r, results), catalog' = catalog,
         query' = query,
         query[r].region # NONE => results = FreshContext(catalog, query[r]),
         query[r].region = NONE =>
           /\ \/ results = BaselineOf(catalog, query[r])
              \/ \E s \in TwoOrders(catalog, query[r]) :
                   results = Promoted(catalog, BaselineOf(catalog, query[r]), s)
           /\ ~CityOrRegionFirst(catalog, query[r]) =>
                \E s \in TwoOrders(catalog, query[r]) : results = Results(catalog, query[r], s)
  PROVE  RequestInv(r)'
<1>1. /\ answer'[r] = Answered(catalog, query[r], results)
      /\ pc'[r] = [stage |-> "done", step |-> "done"]
  BY DEF Answers, Goes, IInv, FamilyInv
<1>2. /\ PlaceInv(r)' /\ EntryInv(r)' /\ RegionsInv(r)' /\ BaselineInv(r)' /\ BusinessInv(r)'
  BY <1>1 DEF PlaceInv, EntryInv, RegionsInv, BaselineInv, BusinessInv, Stages
<1>3. query[r].region # NONE =>
        answer'[r] = Answered(catalog, query[r], FreshContext(catalog, query[r]))
  BY <1>1
<1>4. query[r].region = NONE =>
        \/ answer'[r] = Plain(query[r])
        \/ \E s \in TwoOrders(catalog, query[r]) : answer'[r] = WithPlace(query[r], s)
  BY <1>1, Zenon DEF Plain, WithPlace
<1>5. query[r].region = NONE /\ ~CityOrRegionFirst(catalog, query[r]) =>
        \E s \in TwoOrders(catalog, query[r]) : answer'[r] = Alone(query[r], s)
  BY <1>1, Zenon DEF Alone
<1>6. AnswerInv(r)'
  BY <1>3, <1>4, <1>5 DEF AnswerInv, Plain, WithPlace, Alone, TwoOrders
<1>7. QED
  BY <1>2, <1>6 DEF RequestInv

LEMMA PromoteStep ==
  ASSUME IInv, NEW r \in Requests, Promote(r)
  PROVE  CacheInv' /\ RequestInv(r)'
<1> DEFINE q == query[r]
           key == <<"area", q.name>>
           snapshot == IF key \in Cached THEN cache[key] ELSE Empty
           alone == [seqs |-> Exact(catalog, q.name, "area"), loaded |-> TRUE]
<1>1. /\ RequestInv(r) /\ CacheInv /\ DOMAIN pc = Requests
      /\ pc[r].stage = "areas" /\ pc[r].step = "promote"
      /\ UNCHANGED <<catalog, cache, query, entry, regions, baseline>>
      /\ IF Kept(catalog, q.name, baseline[r], snapshot) THEN Answers(r, baseline[r])
         ELSE Goes(r, "businesses", "lookup") /\ UNCHANGED answer
  BY DEF Promote, Stands, IInv, FamilyInv
<1>2. q.region = NONE /\ baseline[r] = BaselineOf(catalog, q)
  BY <1>1 DEF RequestInv, PlaceInv, BaselineInv
<1>3. CacheInv'
  BY <1>1 DEF CacheInv, Cached
<1> HIDE DEF snapshot
<1>4. CASE Kept(catalog, q.name, baseline[r], snapshot)
  <2>1. ~CityOrRegionFirst(catalog, q) => KeptAlone(q)
    BY <1>2, <1>4, KeptEither, Zenon DEF KeptAlone
  <2>2. ~CityOrRegionFirst(catalog, q) =>
          \E s \in TwoOrders(catalog, q) : baseline[r] = Results(catalog, q, s)
    BY <1>2, <2>1, Zenon DEF Results, KeptAlone, TwoOrders
  <2>3. Answers(r, baseline[r])
    BY <1>1, <1>4
  <2>4. RequestInv(r)'
    BY <1>1, <1>2, <2>2, <2>3, AnswersStep
  <2>5. QED
    BY <1>3, <2>4
<1>5. CASE ~Kept(catalog, q.name, baseline[r], snapshot)
  <2>1. ~CityOrRegionFirst(catalog, q) => ~KeptAlone(q)
    BY <1>2, <1>5, KeptEither, Zenon DEF KeptAlone
  <2>2. pc'[r] = [stage |-> "businesses", step |-> "lookup"]
    BY <1>1, <1>5 DEF Goes
  <2>3. PlaceInv(r)' /\ EntryInv(r)' /\ RegionsInv(r)' /\ AnswerInv(r)'
    BY <1>1, <1>2, <2>2 DEF PlaceInv, Stages, EntryInv, RegionsInv, AnswerInv, Done
  <2>4. BaselineInv(r)'
    BY <1>1, <1>2 DEF BaselineInv
  <2>5. BusinessInv(r)'
    BY <1>1, <2>1 DEF BusinessInv, KeptAlone
  <2>6. QED
    BY <1>3, <2>3, <2>4, <2>5 DEF RequestInv
<1>6. QED
  BY <1>4, <1>5

LEMMA UseBusinessesStep ==
  ASSUME IInv, NEW r \in Requests, UseBusinesses(r)
  PROVE  CacheInv' /\ RequestInv(r)'
<1> DEFINE q == query[r]
           key == <<"business", q.name>>
           e == [seqs |-> entry[r].seqs, loaded |-> TRUE]
<1>1. /\ RequestInv(r) /\ CacheInv
      /\ pc[r].stage = "businesses" /\ pc[r].step = "use"
      /\ Put(key, e) /\ Answers(r, Promoted(catalog, baseline[r], Candidates(r)))
      /\ UNCHANGED <<catalog, query, entry, regions, baseline>>
  BY DEF UseBusinesses, Stands, IInv
<1>2. Key(r) = key
  BY <1>1 DEF Key
<1>3. entry[r].seqs = Exact(catalog, q.name, "business")
  BY <1>1, <1>2 DEF RequestInv, EntryInv
<1>4. CacheInv'
  <2>1. e.seqs = Exact(catalog, key[2], key[1])
    BY <1>3
  <2> HIDE DEF key, e
  <2>2. QED
    BY <1>1, <2>1, Puts
<1>5. q.region = NONE /\ baseline[r] = BaselineOf(catalog, q)
  BY <1>1 DEF RequestInv, PlaceInv, BaselineInv
<1>6. Candidates(r) \in TwoOrders(catalog, q)
  BY <1>3, Zenon DEF Candidates, TwoOrders
<1> DEFINE results == Promoted(catalog, baseline[r], Candidates(r))
<1>7. results = Promoted(catalog, BaselineOf(catalog, q), Candidates(r))
  BY <1>5
<1>8. ~CityOrRegionFirst(catalog, q) => ~KeptAlone(q)
  BY <1>1 DEF RequestInv, BusinessInv
<1>9. ~CityOrRegionFirst(catalog, q) => results = Results(catalog, q, Candidates(r))
  BY <1>7, <1>8, Zenon DEF Results, KeptAlone
<1>10. Answers(r, results)
  BY <1>1
<1> HIDE DEF results
<1>11. RequestInv(r)'
  BY <1>1, <1>5, <1>6, <1>7, <1>9, <1>10, AnswersStep
<1>12. QED
  BY <1>4, <1>11

LEMMA UseRegionsStep ==
  ASSUME IInv, NEW r \in Requests, UseRegions(r)
  PROVE  CacheInv' /\ RequestInv(r)'
<1> DEFINE q == query[r]
           ids == {i \in ToSet(entry[r].seqs) : catalog[i].subtype = "region"}
           named == Exact(catalog, LocalityName(q), "area")
<1>1. /\ RequestInv(r) /\ CacheInv /\ DOMAIN pc = Requests /\ DOMAIN regions = Requests
      /\ pc[r].stage = "regions" /\ pc[r].step = "use"
      /\ regions' = [regions EXCEPT ![r] = ids]
      /\ UNCHANGED <<catalog, cache, query, entry, baseline>>
  BY DEF UseRegions, Stands, IInv, FamilyInv
<1>2. \/ ids = {} /\ Answers(r, <<>>)
      \/ ids # {} /\ Answers(r, ContextAnswer(catalog, q, named, ids))
      \/ ids # {} /\ Goes(r, "localities", "lookup") /\ UNCHANGED answer
  BY DEF UseRegions
<1>3. Key(r) = <<"area", q.region>>
  BY <1>1 DEF Key
<1>4. entry[r].seqs = Exact(catalog, q.region, "area")
  BY <1>1, <1>3 DEF RequestInv, EntryInv
<1>5. ids = RegionIDs(catalog, q)
  BY <1>4 DEF RegionIDs
<1> HIDE DEF ids
<1>6. q.region # NONE
  BY <1>1 DEF RequestInv, PlaceInv
<1>7. CacheInv'
  BY <1>1 DEF CacheInv, Cached
<1>8. CASE ids = {} /\ Answers(r, <<>>)
  <2>1. <<>> = FreshContext(catalog, q)
    BY <1>5, <1>8 DEF FreshContext
  <2>2. RequestInv(r)'
    BY <1>1, <1>6, <1>8, <2>1, AnswersStep
  <2>3. QED
    BY <1>7, <2>2
<1>9. CASE ids # {} /\ Answers(r, ContextAnswer(catalog, q, named, ids))
  <2>1. ContextAnswer(catalog, q, named, ids) = FreshContext(catalog, q)
    BY <1>5, <1>9 DEF FreshContext
  <2>2. RequestInv(r)'
    BY <1>1, <1>6, <1>9, <2>1, AnswersStep
  <2>3. QED
    BY <1>7, <2>2
<1>10. CASE ids # {} /\ Goes(r, "localities", "lookup") /\ UNCHANGED answer
  <2>1. /\ pc'[r] = [stage |-> "localities", step |-> "lookup"]
        /\ regions'[r] = ids
    BY <1>1, <1>10 DEF Goes
  <2>2. PlaceInv(r)' /\ EntryInv(r)' /\ BaselineInv(r)' /\ BusinessInv(r)' /\ AnswerInv(r)'
    BY <1>1, <1>6, <2>1
       DEF PlaceInv, Stages, EntryInv, BaselineInv, BusinessInv, AnswerInv, Done
  <2>3. RegionsInv(r)'
    BY <1>1, <1>5, <1>10, <2>1 DEF RegionsInv
  <2>4. QED
    BY <1>7, <2>2, <2>3 DEF RequestInv
<1>11. QED
  BY <1>2, <1>8, <1>9, <1>10

LEMMA UseLocalitiesStep ==
  ASSUME IInv, NEW r \in Requests, UseLocalities(r)
  PROVE  CacheInv' /\ RequestInv(r)'
<1> DEFINE q == query[r]
           results == ContextAnswer(catalog, q, entry[r].seqs, regions[r])
<1>1. /\ RequestInv(r) /\ CacheInv
      /\ pc[r].stage = "localities" /\ pc[r].step = "use"
      /\ Answers(r, results)
      /\ UNCHANGED <<catalog, cache, query, entry, regions, baseline>>
  BY DEF UseLocalities, Stands, IInv
<1>2. Key(r) = <<"area", LocalityName(q)>>
  BY <1>1 DEF Key
<1>3. entry[r].seqs = Exact(catalog, LocalityName(q), "area")
  BY <1>1, <1>2 DEF RequestInv, EntryInv
<1>4. q.region # NONE /\ regions[r] = RegionIDs(catalog, q) /\ regions[r] # {}
  BY <1>1 DEF RequestInv, PlaceInv, RegionsInv
<1>5. results = FreshContext(catalog, q)
  BY <1>3, <1>4 DEF FreshContext
<1>6. CacheInv'
  BY <1>1 DEF CacheInv, Cached
<1> HIDE DEF results
<1>7. RequestInv(r)'
  BY <1>1, <1>4, <1>5, AnswersStep
<1>8. QED
  BY <1>6, <1>7

-----------------------------------------------------------------------------
(* The invariant.                                                          *)

LEMMA InitInv == Init => IInv
<1> SUFFICES ASSUME Init PROVE IInv
  OBVIOUS
<1>1. FamilyInv /\ CacheInv
  BY DEF Init, FamilyInv, CacheInv, Cached
<1>2. ASSUME NEW r \in Requests PROVE RequestInv(r)
  <2>1. pc[r] = [stage |-> "idle", step |-> "idle"]
    BY DEF Init
  <2>2. QED
    BY <2>1 DEF RequestInv, PlaceInv, Stages, EntryInv, RegionsInv, BaselineInv, BusinessInv,
                AnswerInv, Done
<1>3. QED
  BY <1>1, <1>2 DEF IInv

LEMMA StepInv ==
  ASSUME IInv, NEW r \in Requests, Step(r)
  PROVE  IInv'
<1>1. FamilyInv' /\ catalog' = catalog
  BY Frame DEF IInv
<1>2. CacheInv' /\ RequestInv(r)'
  BY AskStep, LookupFillStep, UseAreasStep, PromoteStep, UseBusinessesStep, UseRegionsStep,
     UseLocalitiesStep DEF Step
<1>3. ASSUME NEW o \in Requests \ {r} PROVE RequestInv(o)'
  <2>1. RequestInv(o)
    BY DEF IInv
  <2>2. /\ pc'[o] = pc[o] /\ query'[o] = query[o] /\ entry'[o] = entry[o]
        /\ regions'[o] = regions[o] /\ baseline'[o] = baseline[o] /\ answer'[o] = answer[o]
    BY Frame DEF IInv
  <2>3. QED
    BY <1>1, <2>1, <2>2, OthersKeep
<1>4. \A o \in Requests : RequestInv(o)'
  BY <1>2, <1>3
<1>5. QED
  BY <1>1, <1>2, <1>4 DEF IInv

\* What the cache holds is what the catalog has, and every request has computed
\* what it would have computed alone.
THEOREM Invariance == Spec => []IInv
<1>1. IInv /\ UNCHANGED vars => IInv'
  <2> SUFFICES ASSUME IInv, UNCHANGED vars PROVE IInv'
    OBVIOUS
  <2>1. FamilyInv' /\ CacheInv'
    BY DEF vars, IInv, FamilyInv, CacheInv, Cached
  <2>2. ASSUME NEW r \in Requests PROVE RequestInv(r)'
    <3>1. RequestInv(r)
      BY DEF IInv
    <3>2. QED
      BY <3>1, OthersKeep DEF vars
  <2>3. QED
    BY <2>1, <2>2 DEF IInv
<1>2. IInv /\ [Next]_vars => IInv'
  BY <1>1, StepInv DEF Next
<1>3. QED
  BY <1>2, InitInv, PTL DEF Spec

-----------------------------------------------------------------------------
(* What is answered.                                                       *)

\* The catalog is one a generation may hold, and what is answered was asked.
InputInv ==
  /\ catalog \in Catalogs
  /\ \A r \in Requests : pc[r].stage # "idle" => query[r] \in Queries

LEMMA InputStep ==
  ASSUME IInv, InputInv, NEW r \in Requests, Step(r)
  PROVE  InputInv'
<1>1. FamilyInv /\ PlaceInv(r)
  BY DEF IInv, RequestInv
<1>2. /\ catalog' = catalog
      /\ \A o \in Requests \ {r} : pc'[o] = pc[o] /\ query'[o] = query[o]
  BY <1>1, Frame
<1>3. CASE Ask(r)
  <2>1. PICK q \in Queries : query' = [query EXCEPT ![r] = q]
    BY <1>3 DEF Ask
  <2>2. query'[r] \in Queries
    BY <1>1, <2>1 DEF FamilyInv
  <2>3. QED
    BY <1>2, <2>2 DEF InputInv
<1>4. CASE ~Ask(r)
  <2>1. query' = query /\ pc[r].stage # "idle"
    BY <1>1, <1>4 DEF Step, Lookup, Fill, UseAreas, Promote, UseBusinesses, UseRegions,
                      UseLocalities, Stands, PlaceInv, Stages
  <2>2. QED
    BY <1>2, <2>1 DEF InputInv
<1>5. QED
  BY <1>3, <1>4

LEMMA InputIsKept == Spec => []InputInv
<1>1. Init => InputInv
  BY DEF Init, InputInv
<1>2. IInv /\ InputInv /\ [Next]_vars => InputInv'
  <2>1. InputInv /\ UNCHANGED vars => InputInv'
    BY DEF InputInv, vars
  <2>2. QED
    BY <2>1, InputStep DEF Next
<1>3. QED
  BY <1>1, <1>2, Invariance, PTL DEF Spec

\* What a request without a region made of the text, unless a city or region comes
\* first, is what the catalog gives.
LEMMA FromTheText ==
  ASSUME IInv, InputInv, NEW r \in Requests, Done(r), query[r].region = NONE,
         ~CityOrRegionFirst(catalog, query[r])
  PROVE  \E results \in TextResults(catalog, query[r]) :
           answer[r] = Answered(catalog, query[r], results)
<1> DEFINE q == query[r]
<1>1. PICK s \in TwoOrders(catalog, q) : answer[r] = Answered(catalog, q, Results(catalog, q, s))
  BY DEF IInv, RequestInv, AnswerInv, Alone
<1>2. Results(catalog, q, s) \in {WarmResults(catalog, q), ColdResults(catalog, q)}
  BY Zenon DEF TwoOrders, WarmResults, ColdResults
<1>3. ~AcrossFiles(catalog, q) => WarmResults(catalog, q) = ColdResults(catalog, q)
  BY WarmIsCold DEF InputInv
<1>4. Results(catalog, q, s) \in TextResults(catalog, q)
  BY <1>2, <1>3 DEF TextResults
<1>5. QED
  BY <1>1, <1>4

\* The answer to a query is what the catalog alone gives, whatever other requests
\* have left in the cache, unless a city or region comes first; only a business that
\* comes first and whose namesakes lie across source files has a second such answer.
THEOREM CacheDoesNotShow == Spec => []AnswersFollowTheCatalog
<1>1. IInv /\ InputInv => AnswersFollowTheCatalog
  <2> SUFFICES ASSUME IInv, InputInv, NEW r \in Requests, Done(r),
                      query[r].region = NONE => ~CityOrRegionFirst(catalog, query[r])
               PROVE  answer[r] \in {Answered(catalog, query[r], results) :
                                      results \in IF query[r].region = NONE
                                                  THEN TextResults(catalog, query[r])
                                                  ELSE {FreshContext(catalog, query[r])}}
    BY DEF AnswersFollowTheCatalog
  <2>1. CASE query[r].region = NONE
    BY <2>1, FromTheText
  <2>2. CASE query[r].region # NONE
    BY <2>2 DEF IInv, RequestInv, AnswerInv
  <2>3. QED
    BY <2>1, <2>2
<1>2. QED
  BY <1>1, Invariance, InputIsKept, PTL

\* A city or region that comes first: the cache decides between two answers, the
\* baseline and the baseline with a place promoted, and there is no third.
OneOfTwo ==
  \A r \in Requests :
    LET q == query[r] IN
    Done(r) /\ q.region = NONE /\ CityOrRegionFirst(catalog, q) =>
      answer[r] \in {Plain(q), WithPlace(q, Exact(catalog, q.name, "business"))}

THEOREM CityAnswers == Spec => []OneOfTwo
<1>1. IInv /\ InputInv => OneOfTwo
  <2> SUFFICES ASSUME IInv, InputInv, NEW r \in Requests, Done(r), query[r].region = NONE,
                      CityOrRegionFirst(catalog, query[r])
               PROVE  answer[r] \in {Plain(query[r]),
                        WithPlace(query[r], Exact(catalog, query[r].name, "business"))}
    BY DEF OneOfTwo
  <2> DEFINE q == query[r]
             base == BaselineOf(catalog, q)
             named == Exact(catalog, q.name, "business")
  <2>1. catalog \in Catalogs /\ base \in Seq(DOMAIN catalog)
    BY BaselineType DEF InputInv
  <2>2. base # <<>> /\ catalog[base[1]].kind # "business"
    BY DEF CityOrRegionFirst
  <2>3. \/ answer[r] = Plain(q)
        \/ \E s \in TwoOrders(catalog, q) : answer[r] = WithPlace(q, s)
    BY DEF IInv, RequestInv, AnswerInv
  <2>4. ASSUME NEW s \in TwoOrders(catalog, q)
        PROVE  Promoted(catalog, base, s) = Promoted(catalog, base, named)
    <3>1. /\ s \in Seq(BusinessesOf(catalog)) /\ named \in Seq(BusinessesOf(catalog))
          /\ ToSet(s) = ToSet(named)
      BY <2>1, OrdersType DEF TwoOrders
    <3>2. QED
      BY <2>1, <2>2, <3>1, OrderFree
  <2>5. \A s \in TwoOrders(catalog, q) : WithPlace(q, s) = WithPlace(q, named)
    BY <2>4, Zenon DEF WithPlace
  <2>6. QED
    BY <2>3, <2>5
<1>2. QED
  BY <1>1, Invariance, InputIsKept, PTL

\* A name with a region (and a locality) is answered from that region only: with the
\* places of the name in it, or with a street of the name within reach of the first.
THEOREM RegionIsHonoured == Spec => []ContextIsHonoured
<1>1. IInv /\ InputInv => ContextIsHonoured
  <2> SUFFICES ASSUME IInv, InputInv, NEW r \in Requests, Done(r),
                      query[r].region # NONE, query[r].bias = NONE
               PROVE  HonoursContext(catalog, query[r], answer[r])
    BY DEF ContextIsHonoured
  <2>1. answer[r] = Answered(catalog, query[r], FreshContext(catalog, query[r]))
    BY DEF IInv, RequestInv, AnswerInv
  <2>2. answer[r] = FreshContext(catalog, query[r])
    BY <2>1 DEF Answered
  <2>3. QED
    BY <2>2, ContextHonoured DEF InputInv
<1>2. QED
  BY <1>1, Invariance, InputIsKept, PTL

\* The viewport never hides a place of exactly the asked name that the text alone finds,
\* unless all the answers are of that name, a leading "the " not counted, or a nearer
\* street of it stands for it.
THEOREM ViewportIsSoft == Spec => []BiasIsSoft
<1>1. IInv /\ InputInv => BiasIsSoft
  <2> SUFFICES ASSUME IInv, InputInv, NEW r \in Requests, Done(r),
                      query[r].region = NONE, query[r].bias # NONE,
                      ~CityOrRegionFirst(catalog, query[r])
               PROVE  \E results \in TextResults(catalog, query[r]) :
                        KeepsNames(catalog, query[r], results, answer[r])
    BY DEF BiasIsSoft
  <2>1. PICK results \in TextResults(catalog, query[r]) :
          answer[r] = Answered(catalog, query[r], results)
    BY FromTheText
  <2>2. catalog \in Catalogs /\ query[r] \in Queries
    BY DEF InputInv, Done
  <2>3. \A s \in TwoOrders(catalog, query[r]) : Results(catalog, query[r], s) \in Seq(DOMAIN catalog)
    BY <2>2, OrdersType, ResultsType
  <2>4. results \in Seq(DOMAIN catalog)
    BY <2>1, <2>3 DEF TextResults, WarmResults, ColdResults, TwoOrders
  <2>5. QED
    BY <2>1, <2>2, <2>4, BiasKeeps
<1>2. QED
  BY <1>1, Invariance, InputIsKept, PTL

-----------------------------------------------------------------------------
(* The cache.                                                              *)

\* primaryCandidateCacheLimit holds.
Bounded == IsFiniteSet(Cached) /\ Cardinality(Cached) <= CacheLimit

\* Nothing that was stored is dropped, or gets other candidates.
OnlyGrows == \A key \in Cached : key \in Cached' /\ cache'[key].seqs = cache[key].seqs

\* A step leaves the cache or puts one entry in it that the catalog has.
LEMMA CacheWays ==
  ASSUME IInv, [Next]_vars
  PROVE  \/ cache' = cache
         \/ \E key, e : e.seqs = Exact(catalog, key[2], key[1]) /\ Put(key, e)
<1>1. ASSUME NEW r \in Requests, Fill(r), cache' # cache
      PROVE  \E key, e : e.seqs = Exact(catalog, key[2], key[1]) /\ Put(key, e)
  <2> DEFINE e == [seqs |-> Exact(catalog, Key(r)[2], Key(r)[1]), loaded |-> FALSE]
  <2>1. Put(Key(r), e) /\ e.seqs = Exact(catalog, Key(r)[2], Key(r)[1])
    BY <1>1 DEF Fill
  <2> HIDE DEF e
  <2>2. QED
    BY <2>1
<1>2. ASSUME NEW r \in Requests, UseAreas(r), cache' # cache
      PROVE  \E key, e : e.seqs = Exact(catalog, key[2], key[1]) /\ Put(key, e)
  <2> DEFINE key == <<"area", query[r].name>>
             e == [seqs |-> entry[r].seqs, loaded |-> TRUE]
  <2>1. Put(key, e)
    BY <1>2 DEF UseAreas, StoreAreas
  <2>2. Key(r) = key /\ entry[r].seqs = Exact(catalog, Key(r)[2], Key(r)[1])
    BY <1>2 DEF UseAreas, Stands, Key, IInv, RequestInv, EntryInv
  <2>3. e.seqs = Exact(catalog, key[2], key[1])
    BY <2>2
  <2> HIDE DEF key, e
  <2>4. QED
    BY <2>1, <2>3
<1>3. ASSUME NEW r \in Requests, UseBusinesses(r), cache' # cache
      PROVE  \E key, e : e.seqs = Exact(catalog, key[2], key[1]) /\ Put(key, e)
  <2> DEFINE key == <<"business", query[r].name>>
             e == [seqs |-> entry[r].seqs, loaded |-> TRUE]
  <2>1. Put(key, e)
    BY <1>3 DEF UseBusinesses
  <2>2. Key(r) = key /\ entry[r].seqs = Exact(catalog, Key(r)[2], Key(r)[1])
    BY <1>3 DEF UseBusinesses, Stands, Key, IInv, RequestInv, EntryInv
  <2>3. e.seqs = Exact(catalog, key[2], key[1])
    BY <2>2
  <2> HIDE DEF key, e
  <2>4. QED
    BY <2>1, <2>3
<1>4. ASSUME NEW r \in Requests,
             Ask(r) \/ Lookup(r) \/ Promote(r) \/ UseRegions(r) \/ UseLocalities(r)
      PROVE  cache' = cache
  BY <1>4 DEF Ask, Lookup, Promote, UseRegions, UseLocalities
<1>5. QED
  BY <1>1, <1>2, <1>3, <1>4 DEF Next, Step, vars

\* The cache never holds more than its limit, however many requests fill it at once.
THEOREM CacheIsBounded == Spec => []Bounded
<1>1. Init => Bounded
  <2> SUFFICES ASSUME Init PROVE Bounded
    OBVIOUS
  <2>1. Cached = {}
    BY DEF Init, Cached
  <2>2. IsFiniteSet({}) /\ Cardinality({}) = 0
    BY FS_EmptySet
  <2>3. QED
    BY <2>1, <2>2, LimitsAssumption DEF Bounded
<1>2. Bounded /\ IInv /\ [Next]_vars => Bounded'
  <2> SUFFICES ASSUME Bounded, IInv, [Next]_vars PROVE Bounded'
    OBVIOUS
  <2>1. CASE cache' = cache
    BY <2>1 DEF Bounded, Cached
  <2>2. ASSUME NEW key, NEW e, Put(key, e) PROVE Bounded'
    <3>1. CASE ~Fits(key)
      BY <2>2, <3>1 DEF Put, Bounded, Cached
    <3>2. CASE Fits(key)
      <4>1. Cached' = Cached \cup {key}
        BY <2>2, <3>2 DEF Put, With, Cached
      <4>2. IsFiniteSet(Cached) /\ Cardinality(Cached) \in Nat /\ CacheLimit \in Nat
        BY LimitsAssumption, FS_CardinalityType DEF Bounded
      <4>3. /\ IsFiniteSet(Cached \cup {key})
            /\ Cardinality(Cached \cup {key}) =
                 IF key \in Cached THEN Cardinality(Cached) ELSE Cardinality(Cached) + 1
        BY <4>2, FS_AddElement
      <4>4. Cardinality(Cached \cup {key}) <= CacheLimit
        BY <3>2, <4>2, <4>3 DEF Fits, Bounded
      <4>5. QED
        BY <4>1, <4>3, <4>4 DEF Bounded
    <3>3. QED
      BY <3>1, <3>2
  <2>3. QED
    BY <2>1, <2>2, CacheWays
<1>3. QED
  BY <1>1, <1>2, Invariance, PTL DEF Spec

\* What a request found in the cache, every later one finds there too.
THEOREM CacheOnlyGrows == Spec => [][OnlyGrows]_cache
<1>1. IInv /\ [Next]_vars => [OnlyGrows]_cache
  <2> SUFFICES ASSUME IInv, [Next]_vars, cache' # cache PROVE OnlyGrows
    OBVIOUS
  <2>1. PICK key, e : e.seqs = Exact(catalog, key[2], key[1]) /\ Put(key, e)
    BY CacheWays
  <2>2. cache' = [k \in Cached \cup {key} |-> IF k = key THEN e ELSE cache[k]]
    BY <2>1 DEF Put, With
  <2>3. CacheInv
    BY DEF IInv
  <2>4. QED
    BY <2>1, <2>2, <2>3 DEF OnlyGrows, CacheInv, Cached
<1>2. QED
  BY <1>1, Invariance, PTL DEF Spec
===============================================================================
