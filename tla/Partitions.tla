------------------------------ MODULE Partitions ------------------------------
(***************************************************************************)
(* How the generation build cuts a sort, a grouping or a window that does  *)
(* not fit in memory into partitions (duckdb/stream.go and catalog.go).    *)
(* A string is a sequence of numbers, its characters in their order.       *)
(***************************************************************************)
EXTENDS Integers, Sequences, SequencesExt

\* The order of DuckDB on strings.
Less(s, t) ==
  \/ IsStrictPrefix(s, t)
  \/ \E i \in DOMAIN s \cap DOMAIN t :
       SubSeq(s, 1, i - 1) = SubSeq(t, 1, i - 1) /\ s[i] < t[i]

Sorted(S, Before(_, _)) ==
  [i \in 1..Cardinality(S) |->
     CHOOSE x \in S : Cardinality({ y \in S : Before(y, x) }) = i - 1]

\* Rows are a sequence: equal values are counted as often as they occur.
Count(values, Test(_)) == Len(SelectSeq(values, Test))

Left(s, n) == SubSeq(s, 1, IF n < Len(s) THEN n ELSE Len(s))

\* planLexicalPartitions and planStringPartitions (allowOversizedExact).  A
\* partition `over' is one that the plan refuses.
RECURSIVE Visit(_, _, _, _)
Visit(values, limit, oversized, prefix) ==
  LET depth == Len(prefix) + 1
      under == SelectSeq(values, LAMBDA v : IsPrefix(prefix, v))
      children == Sorted({ Left(v, depth) : v \in ToSet(under) }, Less)
      Plan(child) ==
        LET rows == Count(under, LAMBDA v : Left(v, depth) = child)
            exact == Len(child) < depth
        IN IF rows <= limit \/ exact
           THEN <<[prefix |-> child, exact |-> exact, over |-> rows > limit /\ ~oversized]>>
           ELSE Visit(under, limit, oversized, child)
  IN FlattenSeq([i \in DOMAIN children |-> Plan(children[i])])

StringPlan(values, limit, oversized) == Visit(values, limit, oversized, <<>>)

Selected(value, partition) ==
  IF partition.exact THEN value = partition.prefix ELSE IsPrefix(partition.prefix, value)

\* planIntegerPartitions: bisect until a range fits.
RECURSIVE Bisect(_, _, _, _)
Bisect(values, limit, low, high) ==
  LET rows == Count(values, LAMBDA v : v \in low..high)
      mid == low + (high - low) \div 2
  IN IF rows <= limit \/ low = high
     THEN <<[low |-> low, high |-> high, over |-> rows > limit]>>
     ELSE Bisect(values, limit, low, mid) \o Bisect(values, limit, mid + 1, high)

IntegerPlan(values, limit) ==
  IF values = <<>> THEN <<>> ELSE Bisect(values, limit, Min(ToSet(values)), Max(ToSet(values)))

\* Chunks of `step' numbers from low to high.
Chunks(low, high, step) ==
  [i \in 1..((high - low) \div step + 1) |->
     <<low + (i - 1) * step,
       IF low + i * step - 1 < high THEN low + i * step - 1 ELSE high>>]

\* planPostingPartitions: a range of tokens that fits, or one token by chunks of
\* its entities (`from' 0: all of them).
PostingPlan(postings, limit) ==
  LET ranges == IntegerPlan([i \in DOMAIN postings |-> postings[i].token], limit)
      Refined(range) ==
        LET entities == { p.entity : p \in { q \in ToSet(postings) : q.token = range.low } }
            chunks == Chunks(Min(entities), Max(entities), limit)
        IN IF ~range.over THEN <<[low |-> range.low, high |-> range.high, from |-> 0, to |-> 0]>>
           ELSE [i \in DOMAIN chunks |->
                   [low |-> range.low, high |-> range.high,
                    from |-> chunks[i][1], to |-> chunks[i][2]]]
  IN FlattenSeq([i \in DOMAIN ranges |-> Refined(ranges[i])])

Planned(plan) == \A i \in DOMAIN plan : ~plan[i].over

\* The rows of one partition after the other, each sorted.
InPartitions(rows, key(_), plan, Before(_, _)) ==
  FlattenSeq([i \in DOMAIN plan |->
    Sorted({ r \in rows : Selected(key(r), plan[i]) }, Before)])
=============================================================================
