----------------------------- MODULE LookupSearch -----------------------------
(***************************************************************************)
(* Autocomplete of internal/placesgeocoding/duckdb/search.go: requests that *)
(* run at once over one immutable catalog and share the primary-candidate   *)
(* cache.  Each lookup in the cache and each store into it is one section   *)
(* under primaryCandidateCacheMu and an action here; the catalog and the    *)
(* Parquet evidence never change, so reads of them need no step of their    *)
(* own.                                                                     *)
(*                                                                         *)
(* The catalog is the sequence of entities in stable ID order, so entity_seq*)
(* is a position in it.  Coordinates are points of a line.  What a search   *)
(* computes is a function of the catalog c and of what it is given.         *)
(***************************************************************************)
EXTENDS Orders

CONSTANTS
  Requests,
  Catalogs,         \* the catalogs a generation may hold
  Names,            \* normalized names
  Queries,          \* what may be asked
  NamePrefixes,     \* pairs: the first name is a proper prefix of the second
  Articles,         \* pairs: the second name is "the " and the first
  StreetNames,      \* names for which hasExplicitStreetSuffix holds
  CacheLimit,       \* primaryCandidateCacheLimit
  LocatorThreshold, \* primaryCandidateLocatorThreshold
  AreaThreshold,    \* contextAreaLocatorThreshold
  EvidenceLimit,    \* exactDestinationEvidenceLimit
  ResultLimit,      \* the five results of a response
  PageSize,         \* contextStreetCandidatePageSize
  EarlyAccept,      \* contextStreetEarlyAcceptMeters
  Radius,           \* contextStreetRadiusMeters
  ContextLimit,     \* viewportContextCandidateLimit
  ContextRadius,    \* viewportContextRadiusMeters
  MaxSpan,          \* the two degrees a viewport with a context may span
  NONE

ASSUME LimitsAssumption ==
  {CacheLimit, LocatorThreshold, AreaThreshold, EvidenceLimit, ResultLimit, PageSize,
   ContextLimit}
    \subseteq Nat \ {0}
ASSUME RadiusAssumption ==
  EarlyAccept \in Nat /\ Radius \in Nat /\ EarlyAccept <= Radius /\ MaxSpan \in Nat

VARIABLES
  catalog,  \* the generation's entities, never changed
  cache,    \* Store.primaryCandidateCache
  pc,       \* per request: <<what it looks up, where it is>>
  query,    \* per request: its input
  entry,    \* per request: the candidates primaryCandidates returned
  regions,  \* per context request: regionIDs
  baseline, \* per plain request: the result before promoteExactDestination
  answer    \* per request: the sequence numbers it answered with

vars == <<catalog, cache, pc, query, entry, regions, baseline, answer>>

-----------------------------------------------------------------------------
(* The catalog.                                                            *)

Kinds == <<"area", "street", "business", "address">>
Subtypes == <<"region", "locality", "county", "macrohood", "neighborhood", "other">>

\* What a place's source rows say of it; class and confidence from 0, unknown.
PlaceEvidence == [class : 0..4, confidence : 0..3, specificity : Nat, override : BOOLEAN]
NoPlace == [class |-> 0, confidence |-> 0, specificity |-> 0, override |-> FALSE]
AreaEvidence == [prominence : 0..100, city : BOOLEAN]
NoArea == [prominence |-> 0, city |-> FALSE]

Entries ==
  [kind : ToSet(Kinds), name : Names, subtype : ToSet(Subtypes), closed : BOOLEAN,
   score : 0..100, sources : Seq(PlaceEvidence \cup AreaEvidence), parents : SUBSET Nat,
   about : SUBSET Names, within : Names \cup {NONE}, mentions : SUBSET (Names \X Names),
   location : Nat, sourceShard : Nat, entityShard : Nat]
Areas(c) == {i \in DOMAIN c : c[i].kind = "area"}

ASSUME CatalogsAssumption ==
  \A c \in Catalogs :
    /\ c \in Seq(Entries)
    /\ \A i \in DOMAIN c :
         /\ c[i].sources \in Seq(IF c[i].kind = "area" THEN AreaEvidence ELSE PlaceEvidence)
         /\ c[i].parents \subseteq Areas(c)
         /\ \A j \in DOMAIN c : i < j => c[i].sourceShard <= c[j].sourceShard
ASSUME QueriesAssumption ==
  Queries \subseteq [name : Names, locality : Names \cup {NONE}, region : Names \cup {NONE},
                     bias : [center : Nat, half : Nat] \cup {NONE}]
ASSUME PrefixesAssumption == \A names \in NamePrefixes : names[1] # names[2]
ASSUME NoneAssumption == NONE \notin Nat /\ NONE \notin Queries

\* Where the rows of entity i stand among all files of a kind in the order of
\* their names: the first file, shard 0, sorts after the numbered ones.
FilePlace(c, i, shard) == IF shard = 0 THEN Len(c) + i ELSE i

At(sequence, x) == CHOOSE k \in DOMAIN sequence : sequence[k] = x

\* The first source row, by priority, that has evidence.
Evidence(e) ==
  LET none == IF e.kind = "area" THEN NoArea ELSE NoPlace
      rows == Select(e.sources, LAMBDA row : row # none)
  IN  IF rows = <<>> THEN none ELSE rows[1]

Sequences(c, Test(_)) == Select([i \in DOMAIN c |-> i], Test)

\* exactCandidateSequences, and the query of primaryCandidates.
Exact(c, name, kind) ==
  Sequences(c, LAMBDA i : /\ c[i].name = name
                          /\ c[i].kind = kind
                          /\ ~c[i].closed)

\* exactAreaTypeRank of a candidate whose evidence is loaded or not.
TypeRank(c, i, loaded) ==
  IF c[i].subtype = "locality" /\ loaded /\ Evidence(c[i]).city
  THEN 0 ELSE At(Subtypes, c[i].subtype)

\* The order of exact areas.
AreaKey(c, i) == <<TypeRank(c, i, TRUE), 100 - Evidence(c[i]).prominence, i>>

-----------------------------------------------------------------------------
(* autocompletePostings.                                                   *)

\* A leading "the " is not counted.
Called(name, other) == other = name \/ <<name, other>> \in Articles
Begins(name, other) ==
  \/ <<name, other>> \in NamePrefixes
  \/ \E n \in Names : <<name, n>> \in NamePrefixes /\ <<n, other>> \in Articles

Matches(c, name, i) ==
  Called(name, c[i].name) \/ <<name, c[i].name>> \in NamePrefixes \cup c[i].mentions

\* How the name fits: exactly, as a prefix, or only by its words.
MatchClass(c, name, i) ==
  CASE c[i].name = name -> 0
    [] <<name, c[i].name>> \in NamePrefixes -> 1
    [] OTHER -> 2

\* viewportTextMatchClass.
ViewportClass(c, name, i) ==
  CASE Called(name, c[i].name) -> 0
    [] ~Called(name, c[i].name) /\ Begins(name, c[i].name) -> 1
    [] OTHER -> 2

\* The order of the postings query; score is the BM25 score.
PostingKey(c, class, i) == <<class, At(Kinds, c[i].kind), 100 - c[i].score, i>>

\* Streets of one name are shown once.
Shown(c, scored, class, limit) ==
  LET key(i) == PostingKey(c, class[i], i)
      first(i) == \A j \in ToSet(scored) :
                    (/\ c[i].kind = "street" /\ c[j].kind = "street"
                     /\ c[i].name = c[j].name) => ~Lexically(key(j), key(i))
  IN  Truncated(Sorted(Select(scored, first), key), limit)

Postings(c, name) ==
  Shown(c, Sequences(c, LAMBDA i : Matches(c, name, i) /\ ~c[i].closed),
        [i \in DOMAIN c |-> MatchClass(c, name, i)], ResultLimit)

\* autocompleteUnstructured: the exact areas, then the postings.
Unstructured(c, name, areas) ==
  LET first == Truncated(Sorted(areas, LAMBDA i : AreaKey(c, i)), ResultLimit)
      rest == Select(Postings(c, name), LAMBDA i : i \notin ToSet(first))
  IN  Truncated(first \o rest, ResultLimit)

-----------------------------------------------------------------------------
(* promoteExactDestination.                                                *)

Place(c, i) == Evidence(c[i])
Strength(c, i) ==
  <<3 - Place(c, i).confidence, 100 - Place(c, i).specificity, 4 - Place(c, i).class>>
Stronger(c, i, j) == Lexically(Strength(c, i), Strength(c, j))

Geographic == 1
AttractionOrCultural == {3, 4}

\* placeEvidenceComparableImprovement.
Improves(c, i, j) ==
  LET known == Place(c, i).class
      now == Place(c, j).class
  IN  \/ now = 0 /\ known # 0
      \/ now # 0 /\ known = now /\ Stronger(c, i, j)
      \/ now = Geographic /\ known \in AttractionOrCultural

\* loadPlaceRankingEvidence sorts what it reads by the place of the source rows.
SourceOrder(c, candidates) ==
  Sorted(candidates, LAMBDA i : <<FilePlace(c, i, c[i].sourceShard)>>)

\* May candidate i replace the first result?  current is what the pointer into
\* the candidates reads, NONE if the first result is not among them.
Eligible(c, i, first, current) ==
  CASE c[first].kind = "area" -> Place(c, i).override
    [] c[first].kind = "business" -> current # NONE /\ Improves(c, i, current)
    [] OTHER -> Place(c, i).class # 0

\* eligible := candidates[:0] filters in place: what is kept overwrites the array
\* that current points into.  The pointer is at position `at', so it reads the
\* first result until as many candidates are kept, and the last of them from then on.
Filtered(c, candidates, first) ==
  LET at == IF first \in ToSet(candidates) THEN At(candidates, first) ELSE 0
      fits(k, current) == candidates[k] # first /\ Eligible(c, candidates[k], first, current)
      early == {k \in DOMAIN candidates : fits(k, IF at = 0 THEN NONE ELSE first)}
      last == Ascending(early)[at]
  IN  IF at = 0 \/ Cardinality(early) < at THEN Picked(candidates, early)
      ELSE Picked(candidates, {k \in early : k <= last}
                              \cup {k \in DOMAIN candidates : k > last /\ fits(k, candidates[last])})

\* placeCandidateLess: strength, then the place in the baseline, then the ID.
PlaceKey(c, i, base) ==
  LET s == Strength(c, i)
  IN  <<s[1], s[2], s[3], IF i \in ToSet(base) THEN At(base, i) ELSE Len(base) + 1, i>>

Promoted(c, base, candidates) ==
  LET eligible == Filtered(c, candidates, base[1])
      best == Sorted(eligible, LAMBDA i : PlaceKey(c, i, base))[1]
  IN  IF eligible = <<>> THEN base
      ELSE Truncated(<<best>> \o Select(base, LAMBDA i : i # best), ResultLimit)

\* The first result is not one that a place may replace.  An exact area is kept
\* when the cache has it as a city or a region.
Kept(c, name, base, snapshot) ==
  \/ base = <<>>
  \/ c[base[1]].name # name
  \/ c[base[1]].kind = "street" /\ name \in StreetNames
  \/ /\ c[base[1]].kind = "area"
     /\ base[1] \in ToSet(snapshot.seqs)
     /\ TypeRank(c, base[1], snapshot.loaded) <= 1
  \/ Len(Exact(c, name, "business")) \notin 1..EvidenceLimit

-----------------------------------------------------------------------------
(* autocompleteContext.                                                    *)

Distance(a, b) == IF a < b THEN b - a ELSE a - b

\* A defect: only an area's own parents count.
ChildOf(c, i, ancestors) == i \in ancestors \/ c[i].parents \cap ancestors # {}

\* filterAreaDescendants: who reaches one of the ancestors by areaParents.  The
\* ids seen are the least set that has the candidate and the parents of each.
Descends(c, i, ancestors) ==
  \A seen \in SUBSET Areas(c) :
    i \in seen /\ (\A j \in seen : c[j].parents \subseteq seen) => seen \cap ancestors # {}

LocalityTypes == <<"locality", "macrohood", "neighborhood">>

\* contextAreaCandidates in the order autocompleteContext sorts them.
Localities(c, candidates, regionIDs) ==
  Sorted(Select(candidates, LAMBDA i : /\ Descends(c, i, regionIDs)
                                          /\ c[i].subtype \in ToSet(LocalityTypes)),
         LAMBDA i : <<At(LocalityTypes, c[i].subtype), i>>)

\* contextStreetCandidate: the first of a page, by the place of the entity rows,
\* that is near enough, else the closest.
NearestOnPage(c, page, anchor) ==
  LET away(i) == Distance(c[i].location, anchor)
      place(i) == FilePlace(c, i, c[i].entityShard)
  IN  CHOOSE i \in page : \A j \in page \ {i} :
        IF away(i) <= EarlyAccept THEN away(j) <= EarlyAccept => place(i) < place(j)
        ELSE away(i) < away(j) \/ (away(i) = away(j) /\ place(i) < place(j))

\* contextStreet: the closest of the pages that are read, and no page is read after
\* one with a street near enough; NONE if the closest is out of reach.
ContextStreet(c, name, anchor) ==
  LET streets == Exact(c, name, "street")
      away(i) == Distance(c[i].location, anchor)
      pages == {(k - 1) \div PageSize : k \in DOMAIN streets}
      found(n) ==
        NearestOnPage(c, {streets[k] : k \in {l \in DOMAIN streets : (l - 1) \div PageSize = n}}, anchor)
      read == {n \in pages : \A m \in pages : m < n => away(found(m)) > EarlyAccept}
      closest == CHOOSE n \in read : \A m \in read \ {n} :
                   \/ away(found(n)) < away(found(m))
                   \/ away(found(n)) = away(found(m)) /\ n < m
  IN  IF streets = <<>> \/ away(found(closest)) > Radius THEN NONE ELSE found(closest)

ContextAnswer(c, q, candidates, regionIDs) ==
  LET localities == Localities(c, candidates, regionIDs)
      street == ContextStreet(c, q.name, c[localities[1]].location)
  IN  IF localities = <<>> THEN <<>>
      ELSE IF q.locality = NONE THEN Truncated(localities, ResultLimit)
      ELSE IF street = NONE THEN <<>> ELSE <<street>>

-----------------------------------------------------------------------------
(* AutocompleteWithBias.  A viewport is a stretch of the line.             *)

\* viewportSearchContext: the locality of the nearest of eight addresses, for a
\* viewport that is not too wide.
SearchContext(c, bias) ==
  LET away(i) == Distance(c[i].location, bias.center)
      nearest == Truncated(Sorted(Sequences(c, LAMBDA i : c[i].kind = "address"),
                                  LAMBDA i : <<away(i), i>>), 8)
      named == Select(nearest, LAMBDA i : /\ away(i) <= ContextRadius
                                             /\ c[i].within # NONE)
  IN  IF 2 * bias.half \notin 1..MaxSpan \/ named = <<>> THEN NONE ELSE c[named[1]].within

\* autocompletePostingsLimit of the name and the locality together.
ContextPostings(c, name, context) ==
  Shown(c, Sequences(c, LAMBDA i : /\ Matches(c, name, i) /\ context \in c[i].about
                                   /\ ~c[i].closed),
        [i \in DOMAIN c |-> 2], ContextLimit)

\* A defect: what the locality finds replaces what the text finds.
Replaced(preferred, base) == IF preferred = <<>> THEN base ELSE preferred

\* mergeViewportCandidates.
Merged(preferred, base) == preferred \o Select(base, LAMBDA i : i \notin ToSet(preferred))

\* applyViewportBias.
Biased(c, q, results) ==
  LET away(i) == Distance(c[i].location, q.bias.center)
      class(i) == IF q.region = NONE THEN ViewportClass(c, q.name, i) ELSE 2
      key(k) == <<class(results[k]), IF away(results[k]) <= q.bias.half THEN 0 ELSE 1,
                  away(results[k]), k>>
      order == Truncated(Sorted([k \in DOMAIN results |-> k], key), ResultLimit)
  IN  [k \in DOMAIN order |-> results[order[k]]]

\* The nearest street of the name takes the place of the one that stands for it.
Substituted(c, name, results, street) ==
  LET at == {k \in DOMAIN results : /\ c[results[k]].kind = "street"
                                    /\ c[results[k]].name = name}
  IN  IF street = NONE \/ at = {} THEN results
      ELSE [results EXCEPT ![CHOOSE k \in at : \A j \in at : k <= j] = street]

\* What AutocompleteWithBias makes of the unstructured results.
Answered(c, q, results) ==
  LET context == SearchContext(c, q.bias)
      merged == IF context = NONE THEN results
                ELSE Merged(ContextPostings(c, q.name, context), results)
      street == IF q.name \in StreetNames THEN ContextStreet(c, q.name, q.bias.center) ELSE NONE
      unbiased == IF q.region # NONE THEN results ELSE Substituted(c, q.name, merged, street)
  IN  IF q.bias = NONE THEN results ELSE Biased(c, q, unbiased)

-----------------------------------------------------------------------------
(* Requests.                                                               *)

Empty == [seqs |-> <<>>, loaded |-> FALSE]

LocalityName(q) == IF q.locality = NONE THEN q.name ELSE q.locality

\* The cache key of what request r looks up.
Key(r) ==
  CASE pc[r].stage = "areas" -> <<"area", query[r].name>>
    [] pc[r].stage = "businesses" -> <<"business", query[r].name>>
    [] pc[r].stage = "regions" -> <<"area", query[r].region>>
    [] pc[r].stage = "localities" -> <<"area", LocalityName(query[r])>>

Cached == DOMAIN cache
With(key, e) == [k \in Cached \cup {key} |-> IF k = key THEN e ELSE cache[k]]
Fits(key) == key \in Cached \/ Cardinality(Cached) < CacheLimit

\* cachePrimaryCandidates.
Put(key, e) == cache' = IF Fits(key) THEN With(key, e) ELSE cache

Stands(r, stage, step) == pc[r].stage = stage /\ pc[r].step = step
Goes(r, stage, step) == pc' = [pc EXCEPT ![r] = [stage |-> stage, step |-> step]]
Answers(r, results) ==
  /\ answer' = [answer EXCEPT ![r] = Answered(catalog, query[r], results)]
  /\ Goes(r, "done", "done")

Init ==
  /\ catalog \in Catalogs
  /\ cache = [key \in {} |-> Empty]
  /\ pc = [r \in Requests |-> [stage |-> "idle", step |-> "idle"]]
  /\ query = [r \in Requests |-> NONE]
  /\ entry = [r \in Requests |-> Empty]
  /\ regions = [r \in Requests |-> {}]
  /\ baseline = [r \in Requests |-> <<>>]
  /\ answer = [r \in Requests |-> NONE]

\* A request comes in; a place in a named region goes to autocompleteContext.
Ask(r) ==
  /\ pc[r].stage = "idle"
  /\ \E q \in Queries :
       /\ query' = [query EXCEPT ![r] = q]
       /\ Goes(r, IF q.region = NONE THEN "areas" ELSE "regions", "lookup")
  /\ UNCHANGED <<catalog, cache, entry, regions, baseline, answer>>

\* primaryCandidates up to RUnlock.
Lookup(r) ==
  /\ pc[r].step = "lookup"
  /\ \/ /\ Key(r) \in Cached
        /\ entry' = [entry EXCEPT ![r] = cache[Key(r)]]
        /\ Goes(r, pc[r].stage, "use")
     \/ /\ Key(r) \notin Cached
        /\ Goes(r, pc[r].stage, "fill")
        /\ UNCHANGED entry
  /\ UNCHANGED <<catalog, cache, query, regions, baseline, answer>>

\* The rest of primaryCandidates.  Common names are read by locator and stored
\* over whatever is there; otherwise what another request stored wins.
Fill(r) ==
  /\ pc[r].step = "fill"
  /\ LET mine == [seqs |-> Exact(catalog, Key(r)[2], Key(r)[1]), loaded |-> FALSE]
         crowded == Len(mine.seqs) >= LocatorThreshold
         other == ~crowded /\ Key(r) \in Cached
     IN  /\ entry' = [entry EXCEPT ![r] = IF other THEN cache[Key(r)] ELSE mine]
         /\ IF other THEN UNCHANGED cache ELSE Put(Key(r), mine)
  /\ Goes(r, pc[r].stage, "use")
  /\ UNCHANGED <<catalog, query, regions, baseline, answer>>

\* autocompleteUnstructured: the areas' evidence is read and stored with them.
StoreAreas(r, areas) ==
  IF areas = <<>> THEN UNCHANGED cache
  ELSE Put(<<"area", query[r].name>>, [seqs |-> areas, loaded |-> TRUE])

UseAreas(r) ==
  /\ Stands(r, "areas", "use")
  /\ StoreAreas(r, entry[r].seqs)
  /\ baseline' = [baseline EXCEPT ![r] = Unstructured(catalog, query[r].name, entry[r].seqs)]
  /\ Goes(r, "areas", "promote")
  /\ UNCHANGED <<catalog, query, entry, regions, answer>>

\* promoteExactDestination up to the businesses; primaryCandidateSnapshot reads
\* the cache again.
Promote(r) ==
  /\ Stands(r, "areas", "promote")
  /\ LET key == <<"area", query[r].name>>
         snapshot == IF key \in Cached THEN cache[key] ELSE Empty
     IN  IF Kept(catalog, query[r].name, baseline[r], snapshot)
         THEN Answers(r, baseline[r])
         ELSE Goes(r, "businesses", "lookup") /\ UNCHANGED answer
  /\ UNCHANGED <<catalog, cache, query, entry, regions, baseline>>

\* The candidates with their evidence: as the cache has them, or read and sorted.
Candidates(r) ==
  IF entry[r].loaded THEN entry[r].seqs ELSE SourceOrder(catalog, entry[r].seqs)

\* A defect: the candidates filtered in place are stored, not a copy made before.
UseBusinessesShared(r) ==
  /\ Stands(r, "businesses", "use")
  /\ Put(<<"business", query[r].name>>,
         [seqs |-> Filtered(catalog, Candidates(r), baseline[r][1]), loaded |-> TRUE])
  /\ Answers(r, Promoted(catalog, baseline[r], Candidates(r)))
  /\ UNCHANGED <<catalog, query, entry, regions, baseline>>

\* The rest of promoteExactDestination: a copy in sequence order is stored.
UseBusinesses(r) ==
  /\ Stands(r, "businesses", "use")
  /\ Put(<<"business", query[r].name>>, [seqs |-> entry[r].seqs, loaded |-> TRUE])
  /\ Answers(r, Promoted(catalog, baseline[r], Candidates(r)))
  /\ UNCHANGED <<catalog, query, entry, regions, baseline>>

\* autocompleteContext: the regions of the name; the localities of a common name
\* are read by locator and not stored.
UseRegions(r) ==
  /\ Stands(r, "regions", "use")
  /\ LET ids == {i \in ToSet(entry[r].seqs) : catalog[i].subtype = "region"}
         named == Exact(catalog, LocalityName(query[r]), "area")
     IN  /\ regions' = [regions EXCEPT ![r] = ids]
         /\ \/ ids = {} /\ Answers(r, <<>>)
            \/ /\ ids # {} /\ Len(named) > AreaThreshold
               /\ Answers(r, ContextAnswer(catalog, query[r], named, ids))
            \/ /\ ids # {} /\ Len(named) <= AreaThreshold
               /\ Goes(r, "localities", "lookup")
               /\ UNCHANGED answer
  /\ UNCHANGED <<catalog, cache, query, entry, baseline>>

UseLocalities(r) ==
  /\ Stands(r, "localities", "use")
  /\ Answers(r, ContextAnswer(catalog, query[r], entry[r].seqs, regions[r]))
  /\ UNCHANGED <<catalog, cache, query, entry, regions, baseline>>

Step(r) ==
  \/ Ask(r) \/ Lookup(r) \/ Fill(r) \/ UseAreas(r) \/ Promote(r)
  \/ UseBusinesses(r) \/ UseRegions(r) \/ UseLocalities(r)

Next == \E r \in Requests : Step(r)
Spec == Init /\ [][Next]_vars

-----------------------------------------------------------------------------
(* Properties.                                                             *)

Done(r) == pc[r].stage = "done"

\* What a boundless cache would lead to, by the order of the candidates.
BaselineOf(c, q) == Unstructured(c, q.name, Exact(c, q.name, "area"))
Results(c, q, candidates) ==
  LET base == BaselineOf(c, q)
      areas == [seqs |-> Exact(c, q.name, "area"), loaded |-> TRUE]
  IN  IF Kept(c, q.name, base, areas) THEN base ELSE Promoted(c, base, candidates)

WarmResults(c, q) == Results(c, q, Exact(c, q.name, "business"))
ColdResults(c, q) == Results(c, q, SourceOrder(c, Exact(c, q.name, "business")))

\* A business comes first, and the source rows of the businesses of the name lie
\* in the first source file and in later ones.
AcrossFiles(c, q) ==
  LET base == BaselineOf(c, q)
      shards == {c[i].sourceShard : i \in ToSet(Exact(c, q.name, "business"))}
  IN  /\ base # <<>> /\ c[base[1]].kind = "business"
      /\ 0 \in shards /\ shards # {0}

\* What a request without a region may find.
TextResults(c, q) ==
  {ColdResults(c, q)} \cup (IF AcrossFiles(c, q) THEN {WarmResults(c, q)} ELSE {})

\* The same of a request with a region.
RegionIDs(c, q) == {i \in ToSet(Exact(c, q.region, "area")) : c[i].subtype = "region"}
FreshContext(c, q) ==
  IF RegionIDs(c, q) = {} THEN <<>>
  ELSE ContextAnswer(c, q, Exact(c, LocalityName(q), "area"), RegionIDs(c, q))

\* The first result is a city or a region of exactly this name.
CityOrRegionFirst(c, q) ==
  LET base == BaselineOf(c, q)
  IN  /\ base # <<>>
      /\ c[base[1]].name = q.name
      /\ c[base[1]].kind = "area"
      /\ TypeRank(c, base[1], TRUE) <= 1

\* What other requests left in the cache, when it was full and who stored first do
\* not show: an answer is what the catalog alone gives.  For a name whose businesses
\* lie across source files it is one of two such answers, that of candidates sorted
\* by file, when their evidence had to be read, and that of candidates in sequence
\* order, when the cache had it.  Cities and regions are left out: CityPrecedence
\* shows why.
AnswersFollowTheCatalog ==
  \A r \in Requests :
    LET q == query[r] IN
    Done(r) /\ (q.region = NONE => ~CityOrRegionFirst(catalog, q)) =>
      answer[r] \in {Answered(catalog, q, results) :
                      results \in IF q.region = NONE THEN TextResults(catalog, q)
                                  ELSE {FreshContext(catalog, q)}}

\* The areas within the regions: the smallest set that has them and every area
\* with a parent in it.
Within(c, ids) ==
  LET closed == {S \in SUBSET Areas(c) :
                   ids \subseteq S /\ \A i \in Areas(c) : c[i].parents \cap S # {} => i \in S}
  IN  {i \in Areas(c) : \A S \in closed : i \in S}

\* The places a name with a region can mean, the first of them, and the streets of
\* the name within reach of one.
Places(c, q) ==
  {i \in ToSet(Exact(c, LocalityName(q), "area")) :
     i \in Within(c, RegionIDs(c, q)) /\ c[i].subtype \in ToSet(LocalityTypes)}
FirstPlace(c, q, p) ==
  /\ p \in Places(c, q)
  /\ \A o \in Places(c, q) :
       \/ At(LocalityTypes, c[p].subtype) < At(LocalityTypes, c[o].subtype)
       \/ c[p].subtype = c[o].subtype /\ p <= o
Apart(c, i, p) == Distance(c[i].location, c[p].location)
Reachable(c, q, p) == {i \in ToSet(Exact(c, q.name, "street")) : Apart(c, i, p) <= Radius}

HonoursContext(c, q, found) ==
  IF q.locality = NONE
  THEN /\ ToSet(found) \subseteq Places(c, q)
       /\ Len(found) = IF Cardinality(Places(c, q)) < ResultLimit
                       THEN Cardinality(Places(c, q)) ELSE ResultLimit
  ELSE IF found = <<>> THEN \A p \in Places(c, q) : FirstPlace(c, q, p) => Reachable(c, q, p) = {}
  ELSE /\ Len(found) = 1
       /\ \E p \in Places(c, q) :
            /\ FirstPlace(c, q, p) /\ found[1] \in Reachable(c, q, p)
            /\ \/ Apart(c, found[1], p) <= EarlyAccept
               \/ \A j \in Reachable(c, q, p) : Apart(c, found[1], p) <= Apart(c, j, p)

\* A name with a region (and a locality) is answered from that region only, cold
\* or warm: a place in the region of that name, and a street only within reach of
\* the first such place, with no closer one passed over unless it is near enough.
\* Nothing is answered only when there is no such place or street.
ContextIsHonoured ==
  \A r \in Requests :
    Done(r) /\ query[r].region # NONE /\ query[r].bias = NONE =>
      HonoursContext(catalog, query[r], answer[r])

\* Those of exactly the asked name, with or without "the ".
OfName(c, q, found) == {i \in ToSet(found) : Called(q.name, c[i].name)}
KeepsNames(c, q, results, found) ==
  \A i \in OfName(c, q, results) :
    \/ i \in ToSet(found)
    \/ Len(found) = ResultLimit /\ ToSet(found) = OfName(c, q, found)
    \/ /\ c[i].kind = "street"
       /\ \E j \in ToSet(found) : c[j].kind = "street" /\ c[j].name = c[i].name

\* The viewport moves results and never hides one: a place of exactly the asked
\* name that the text alone finds is still answered, unless all five answers are
\* of that name; a street may give way to a nearer one of its name.  A leading
\* "the " does not count, so that "the n" may take the place of "n".
BiasIsSoft ==
  \A r \in Requests :
    (/\ Done(r) /\ query[r].region = NONE /\ query[r].bias # NONE
     /\ ~CityOrRegionFirst(catalog, query[r])) =>
      \E results \in TextResults(catalog, query[r]) :
        KeepsNames(catalog, query[r], results, answer[r])

\* "Exact city/region precedence ... preserved" (docs/log/0064): the city or region
\* that comes first stays first.
CityPrecedence ==
  \A r \in Requests :
    (/\ Done(r) /\ query[r].region = NONE /\ query[r].bias = NONE
     /\ CityOrRegionFirst(catalog, query[r])) =>
      answer[r][1] = BaselineOf(catalog, query[r])[1]
=============================================================================
