---------------------------- MODULE ServingCatalog ----------------------------
(***************************************************************************)
(* The serving catalog that catalogBuilder makes of the entities (duckdb/  *)
(* catalog.go), table after table and partition after partition, its       *)
(* validation there and in VerifyObserved (artifact.go), and how the store *)
(* reads an entity and its evidence through it (store.go).                 *)
(***************************************************************************)
EXTENDS NormalizedData

CONSTANTS
  CatalogRows,   \* catalogCatalogRows
  PostingChunk,  \* entities per chunk of postings
  HeadSize       \* results kept per short prefix, 5 in the code

ASSUME ChunkAssumption == CatalogRows \in Nat \ {0} /\ PostingChunk \in Nat \ {0} /\ HeadSize \in Nat \ {0}

VARIABLES
  locator,    \* entity_locator: id -> where its rows are
  entities,   \* search_entities, by entity_seq
  names,      \* names, by name_id
  tokens,     \* tokens, by token_id
  staged,     \* postings_stage
  chunk,      \* the next chunk of entities
  candidates, \* prefix_candidates
  postings,   \* postings, in the order of the table
  heads,      \* short_prefix_head: prefix -> entity_seqs by rank
  addresses,  \* address_lookup
  spatial     \* address_spatial

cvars == <<locator, entities, names, tokens, staged, chunk, candidates, postings, heads,
           addresses, spatial>>
vars == <<nvars, cvars>>

Init ==
  /\ NInit
  /\ locator = <<>> /\ entities = <<>> /\ names = <<>> /\ tokens = <<>> /\ staged = <<>>
  /\ chunk = 1 /\ candidates = {} /\ postings = <<>> /\ heads = <<>>
  /\ addresses = <<>> /\ spatial = <<>>

Step(here, next) == pc = here /\ pc' = next

\* Every row of a role, with the file it is in, in their order.
RowsOf(role) ==
  FlattenSeq([f \in DOMAIN sinks[role].files |->
    LET rows == Flattened(sinks[role].files[f]) IN
    [i \in DOMAIN rows |-> [file |-> f, row |-> rows[i]]]])

-----------------------------------------------------------------------------
(* Entities.                                                               *)

BuildEntities ==
  /\ Step("index", "names")
  /\ LET rows == Elements(RowsOf("entities"))
         ByID(r, s) == r.row.entity.id < s.row.entity.id
         ids == { r.row.entity.id : r \in rows }
         RowOf(id) == CHOOSE r \in rows : r.row.entity.id = id
     IN /\ locator' = [id \in ids |->
             [file |-> RowOf(id).file, group |-> RowOf(id).row.group, row |-> RowOf(id).row.row,
              kind |-> RowOf(id).row.entity.kind,
              sources |-> RowOf(id).row.sources, provenance |-> RowOf(id).row.provenance]]
        /\ entities' = FlattenSeq([b \in 1..Buckets |->
             LET here == Sorted({ r \in rows : Digit(r.row.entity.id) = b }, ByID)
             IN [i \in DOMAIN here |-> here[i].row.entity]])
  /\ UNCHANGED <<input, todo, bucket, sinks, keys, from, resolved, names, tokens, staged, chunk,
                 candidates, postings, heads, addresses, spatial>>

\* The normalized text of a field: its tokens with a blank, 0, between them.
Joined(text) ==
  FoldLeft(LAMBDA s, t : IF s = <<>> THEN t ELSE s \o <<0>> \o t, <<>>, text)

\* Distinct values of a column, numbered from 1 over the partitions of a plan.
Numbered(values) ==
  InPartitions(Elements(values), LAMBDA v : v, StringPlan(values, CatalogRows, TRUE), Less)

BuildNames ==
  /\ Step("names", "tokens")
  /\ names' = Numbered(Values(entities, LAMBDA e : Joined(e.name)))
  /\ UNCHANGED <<input, todo, bucket, sinks, keys, from, resolved, locator, entities, tokens,
                 staged, chunk, candidates, postings, heads, addresses, spatial>>

DocLen(e) == Len(e.name) + Len(e.aliases) + Len(e.address)
TotalLen == FoldLeft(LAMBDA n, e : n + DocLen(e), 0, entities)

-----------------------------------------------------------------------------
(* Tokens and postings.                                                    *)

TokenSet(e) == ToSet(e.name) \cup ToSet(e.aliases) \cup ToSet(e.address)
EntityChunks == Chunks(1, Len(entities), PostingChunk)

BuildTokens ==
  /\ Step("tokens", "postings")
  /\ tokens' = Numbered(FlattenSeq([c \in DOMAIN EntityChunks |->
       Sorted(UNION { TokenSet(entities[s]) : s \in EntityChunks[c][1]..EntityChunks[c][2] },
              Less)]))
  /\ UNCHANGED <<input, todo, bucket, sinks, keys, from, resolved, locator, entities, names,
                 staged, chunk, candidates, postings, heads, addresses, spatial>>

Frequency(text, token) == Count(text, LAMBDA t : t = token)

PostingOf(seq, id) ==
  LET e == entities[seq] IN
  [token |-> id, entity |-> seq, name |-> Frequency(e.name, tokens[id]),
   alias |-> Frequency(e.aliases, tokens[id]), address |-> Frequency(e.address, tokens[id])]

PostingsOf(seq) ==
  LET ids == Sorted({ id \in DOMAIN tokens : tokens[id] \in TokenSet(entities[seq]) }, Ascending)
  IN [i \in DOMAIN ids |-> PostingOf(seq, ids[i])]

ShortPrefixes(e) == UNION { {Left(t, 1), Left(t, 2)} : t \in TokenSet(e) }

\* The row of entity `seq' for a prefix: the frequencies of the tokens that
\* start with it, added up.
Match(seq, prefix) ==
  LET e == entities[seq]
      Sum(text) == Count(text, LAMBDA t : IsPrefix(prefix, t))
  IN [prefix |-> prefix, entity |-> seq, name |-> Joined(e.name), kind |-> e.kind,
      weight |-> 10 * Sum(e.name) + 5 * Sum(e.aliases) + Sum(e.address),
      length |-> DocLen(e)]

KindRank(kind) ==
  CASE kind = "area" -> 0 [] kind = "street" -> 1 [] kind = "business" -> 2 [] OTHER -> 3

Rank(m) ==
  <<IF m.name = m.prefix THEN 0 ELSE 1, IF IsPrefix(m.prefix, m.name) THEN 0 ELSE 1,
    KindRank(m.kind)>>

\* score(m) > score(n): w / (w + 1.2 * (0.25 + 0.75 * length / average)).
Damped(m) == TotalLen + 3 * m.length * Len(entities)
ScoresMore(m, n) == m.weight * Damped(n) > n.weight * Damped(m)

\* ORDER BY exact_rank, name_prefix_rank, kind_rank, score DESC, entity_seq.
Better(m, n) ==
  \/ Less(Rank(m), Rank(n))
  \/ /\ Rank(m) = Rank(n)
     /\ ScoresMore(m, n) \/ (~ScoresMore(n, m) /\ m.entity < n.entity)

\* Streets of one name are collapsed into the best of them.
SameResult(m, n) == m = n \/ (m.kind = "street" /\ n.kind = "street" /\ m.name = n.name)
Collapsed(matches) ==
  { m \in matches : ~\E n \in matches : SameResult(m, n) /\ Better(n, m) }

Top(matches, limit) ==
  LET sorted == Sorted(Collapsed(matches), Better)
  IN SubSeq(sorted, 1, IF Len(sorted) < limit THEN Len(sorted) ELSE limit)

\* Mutant: a chunk keeps one candidate less.
OneCandidateLess(matches) == Elements(Top(matches, HeadSize - 1))

\* What one chunk contributes to a prefix.
ChunkCandidates(matches) == Elements(Top(matches, HeadSize))

MatchesOf(seqs) ==
  UNION { { Match(s, p) : p \in ShortPrefixes(entities[s]) } : s \in { t \in seqs : ~entities[t].closed } }

OfPrefix(matches, prefix) == { m \in matches : m.prefix = prefix }

\* One chunk of postings, its coverage check, and its candidates.
GeneratePostings ==
  /\ pc = "postings" /\ chunk <= Len(EntityChunks)
  /\ LET seqs == EntityChunks[chunk][1]..EntityChunks[chunk][2]
         rows == FlattenSeq([i \in 1..Cardinality(seqs) |->
                              PostingsOf(EntityChunks[chunk][1] + i - 1)])
         matches == MatchesOf(seqs)
     IN /\ staged' = staged \o rows
        /\ candidates' = candidates \cup
             UNION { ChunkCandidates(OfPrefix(matches, p)) : p \in { m.prefix : m \in matches } }
        /\ pc' = IF \A s \in seqs : \E i \in DOMAIN rows : rows[i].entity = s
                 THEN pc ELSE "refused"
  /\ chunk' = chunk + 1
  /\ UNCHANGED <<input, todo, bucket, sinks, keys, from, resolved, locator, entities, names,
                 tokens, postings, heads, addresses, spatial>>

PostingBefore(p, q) == p.token < q.token \/ (p.token = q.token /\ p.entity < q.entity)

SortPostings ==
  /\ pc = "postings" /\ chunk > Len(EntityChunks)
  /\ pc' = "heads"
  /\ LET plan == PostingPlan(staged, CatalogRows)
         Here(p, part) == /\ p.token \in part.low..part.high
                          /\ part.from # 0 => p.entity \in part.from..part.to
     IN postings' = FlattenSeq([i \in DOMAIN plan |->
          Sorted({ p \in Elements(staged) : Here(p, plan[i]) }, PostingBefore)])
  /\ UNCHANGED <<input, todo, bucket, sinks, keys, from, resolved, locator, entities, names,
                 tokens, staged, chunk, candidates, heads, addresses, spatial>>

BuildHeads ==
  /\ Step("heads", "addresses")
  /\ LET rows == Sorted(candidates, LAMBDA m, n : Less(m.prefix, n.prefix)
                          \/ (m.prefix = n.prefix /\ m.entity < n.entity))
         prefixes == Elements(Numbered(Values(rows, LAMBDA m : m.prefix)))
         Head5(p) == Top(OfPrefix(candidates, p), HeadSize)
     IN heads' = [p \in prefixes |-> Values(Head5(p), LAMBDA m : m.entity)]
  /\ UNCHANGED <<input, todo, bucket, sinks, keys, from, resolved, locator, entities, names,
                 tokens, staged, chunk, candidates, postings, addresses, spatial>>

-----------------------------------------------------------------------------
(* Addresses.  The serving key of an address in scope is its name.         *)

AddressStage ==
  { [seq |-> s, id |-> entities[s].id, key |-> Joined(entities[s].name), cell |-> entities[s].cell]
    : s \in { t \in DOMAIN entities :
                entities[t].kind = "address" /\ entities[t].cell \in Scope } }

KeyBefore(a, b) == Less(a.key, b.key) \/ (a.key = b.key /\ a.id < b.id)
CellBefore(a, b) == a.cell < b.cell \/ (a.cell = b.cell /\ a.id < b.id)

BuildAddresses ==
  /\ pc = "addresses"
  /\ LET stage == Sorted(AddressStage, KeyBefore)
         keyed == StringPlan(Values(stage, LAMBDA a : a.key), CatalogRows, FALSE)
         cells == IntegerPlan(Values(stage, LAMBDA a : a.cell), CatalogRows)
         InCells(part) == Sorted({ a \in AddressStage : a.cell \in part.low..part.high }, CellBefore)
     IN IF ~Planned(keyed) \/ ~Planned(cells)
        THEN pc' = "refused" /\ UNCHANGED <<addresses, spatial>>
        ELSE /\ addresses' = InPartitions(AddressStage, LAMBDA a : a.key, keyed, KeyBefore)
             /\ spatial' = FlattenSeq([i \in DOMAIN cells |-> InCells(cells[i])])
             /\ pc' = "attest"
  /\ UNCHANGED <<input, todo, bucket, sinks, keys, from, resolved, locator, entities, names,
                 tokens, staged, chunk, candidates, postings, heads>>

-----------------------------------------------------------------------------
(* Acceptance.                                                             *)

EntityRows == Len(RowsOf("entities"))

\* validateAndAttest, before CHECKPOINT.
Attested ==
  /\ Cardinality(DOMAIN locator) = EntityRows /\ Len(entities) = EntityRows
  /\ { e.id : e \in Elements(entities) } = DOMAIN locator
  /\ \A e \in Elements(entities) : e.kind = locator[e.id].kind
  /\ Distinct(tokens)
  /\ \A p \in Elements(postings) :
       p.token \in DOMAIN tokens /\ p.entity \in 1..EntityRows
  /\ \A p \in DOMAIN heads :
       Len(heads[p]) <= HeadSize /\ Elements(heads[p]) \subseteq 1..EntityRows
  /\ Len(addresses) = Len(spatial)

\* The bounded path of VerifyObserved: it counts, where an older catalog joins.
Located(field(_)) ==
  MapThenSumSet(LAMBDA id : field(locator[id]), DOMAIN locator)
Verified ==
  /\ Attested
  /\ \A a \in Elements(addresses) : a.seq \in 1..EntityRows
  /\ Len(addresses) = Cardinality(AddressStage)
  /\ Located(LAMBDA l : l.sources.count) = Len(RowsOf("sources"))
  /\ Located(LAMBDA l : l.provenance.count) = Len(RowsOf("provenance"))

Accept ==
  /\ pc = "attest"
  /\ pc' = IF Verified THEN "published" ELSE "refused"
  /\ UNCHANGED <<input, todo, bucket, sinks, keys, from, resolved, cvars>>

Next ==
  \/ Normalize /\ UNCHANGED cvars
  \/ BuildEntities \/ BuildNames \/ BuildTokens \/ GeneratePostings \/ SortPostings
  \/ BuildHeads \/ BuildAddresses \/ Accept

Spec == Init /\ [][Next]_vars

-----------------------------------------------------------------------------
(* Reading a published generation.                                         *)

\* Store.Details seeks to a row of a row group of a file.
Details(id) ==
  sinks["entities"].files[locator[id].file][locator[id].group + 1][locator[id].row + 1].entity

\* readAt: a span of rows of a file; none if the file is too short.
ReadAt(role, span) ==
  LET rows == IF span.file \in DOMAIN sinks[role].files
              THEN Flattened(sinks[role].files[span.file]) ELSE <<>>
  IN IF span.start + span.count > Len(rows) THEN <<>>
     ELSE SubSeq(rows, span.start + 1, span.start + span.count)
=============================================================================
