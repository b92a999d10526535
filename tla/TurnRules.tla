------------------------------ MODULE TurnRules ------------------------------
(***************************************************************************)
(* The automaton of the complex turn restrictions, as NewRouter builds it  *)
(* in memory (route.go) and as PrepareScoutTurns writes and                *)
(* OpenPreparedRouter reads it (prepared_turns.go).                        *)
(***************************************************************************)
EXTENDS Integers, Sequences, FiniteSets, SequencesExt

Ascending(S) ==
  [i \in 1..Cardinality(S) |-> CHOOSE x \in S : Cardinality({ y \in S : y < x }) = i - 1]

\* The prefixes of the prohibited paths in the order they are first met;
\* state s is the prefix at s + 1, state 0 the empty one.
KnownPrefixes(rules) ==
  LET Insert(known, prefix) == IF Contains(known, prefix) THEN known ELSE Append(known, prefix)
      InsertPath(known, path) ==
        FoldLeft(Insert, known, [n \in DOMAIN path |-> SubSeq(path, 1, n)])
  IN FoldLeft(InsertPath, << <<>> >>, rules)

\* Mutant: without failure links a mismatch starts over.
StartOver(next, fail, s, e) ==
  IF e \in DOMAIN next[s] THEN next[s][e] ELSE IF e \in DOMAIN next[0] THEN next[0][e] ELSE 0

\* Fall back along the failure links until the edge continues a prefix.
RECURSIVE Follow(_, _, _, _)
Follow(next, fail, s, e) ==
  IF e \in DOMAIN next[s] THEN next[s][e]
  ELSE IF s = 0 THEN 0 ELSE Follow(next, fail, fail[s], e)

BuildTurns(rules) ==
  LET P == KnownPrefixes(rules)
      states == 0..(Len(P) - 1)
      Number(prefix) == CHOOSE s \in states : P[s + 1] = prefix
      Continuations(s) == { p \in ToSet(P) : Len(p) = Len(P[s + 1]) + 1 /\ IsPrefix(P[s + 1], p) }
      next == [s \in states |-> [e \in { Last(p) : p \in Continuations(s) } |->
                                   Number(Append(P[s + 1], e))]]
      fail[s \in states] ==
        IF Len(P[s + 1]) < 2 THEN 0
        ELSE Follow(next, fail, fail[Number(Front(P[s + 1]))], Last(P[s + 1]))
      banned[s \in states] == P[s + 1] \in ToSet(rules) \/ (s # 0 /\ banned[fail[s]])
  IN [next |-> next, fail |-> fail, banned |-> banned]

AdvanceInMemory(turns, s, e) ==
  LET t == Follow(turns.next, turns.fail, s, e)
  IN [state |-> t, banned |-> turns.banned[t]]

-----------------------------------------------------------------------------
\* The file: one row for each state, and the transitions of all states in one
\* sequence, those of a state together and sorted by edge.
WriteTurns(turns) ==
  LET count == Cardinality(DOMAIN turns.next)
      Keys(s) == Ascending(DOMAIN turns.next[s])
      Parents(s) == { p \in DOMAIN turns.next : s \in ToSet([k \in DOMAIN Keys(p) |-> turns.next[p][Keys(p)[k]]]) }
      first[s \in DOMAIN turns.next] == IF s = 0 THEN 0 ELSE first[s - 1] + Len(Keys(s - 1))
      depth[s \in DOMAIN turns.next] == IF s = 0 THEN 0 ELSE depth[CHOOSE p \in Parents(s) : TRUE] + 1
      Row(s) == [first |-> first[s], count |-> Len(Keys(s)), fail |-> turns.fail[s],
                 depth |-> depth[s], banned |-> turns.banned[s]]
      Moves(s) == [k \in DOMAIN Keys(s) |-> [edge |-> Keys(s)[k], next |-> turns.next[s][Keys(s)[k]]]]
  IN [rows |-> [i \in 1..count |-> Row(i - 1)],
      moves |-> FlattenSeq([i \in 1..count |-> Moves(i - 1)])]

MaxDepth == 33
RowIsValid(file, s) ==
  LET row == file.rows[s + 1]
      own == (row.first + 1)..(row.first + row.count)
  IN /\ row.first = (IF s = 0 THEN 0 ELSE file.rows[s].first + file.rows[s].count)
     /\ row.first + row.count <= Len(file.moves)
     /\ row.fail < Len(file.rows) /\ row.depth <= MaxDepth
     /\ IF s = 0 THEN row.depth = 0 /\ row.fail = 0 /\ ~row.banned
        ELSE row.depth > 0 /\ file.rows[row.fail + 1].depth < row.depth
     /\ \A i \in own :
          /\ i - 1 \in own => file.moves[i - 1].edge < file.moves[i].edge
          /\ file.moves[i].next > s /\ file.moves[i].next < Len(file.rows)
          /\ file.rows[file.moves[i].next + 1].depth = row.depth + 1

TurnsAreValid(file) ==
  /\ Len(file.moves) = Len(file.rows) - 1
  /\ \A s \in 0..(Len(file.rows) - 1) : RowIsValid(file, s)
  /\ Last(file.rows).first + Last(file.rows).count = Len(file.moves)

\* Depths fall along the failure links, so the chain ends within MaxDepth steps.
RECURSIVE AdvanceInFile(_, _, _)
AdvanceInFile(file, s, e) ==
  LET row == file.rows[s + 1]
      hits == { i \in (row.first + 1)..(row.first + row.count) : file.moves[i].edge = e }
      next == file.moves[CHOOSE i \in hits : TRUE].next
  IN IF hits # {} THEN [state |-> next, banned |-> file.rows[next + 1].banned]
     ELSE IF s = 0 THEN [state |-> 0, banned |-> FALSE]
     ELSE AdvanceInFile(file, row.fail, e)
=============================================================================
