---------------------------- MODULE MCLookupSearch ----------------------------
(* Small catalogs for LookupSearch: every order of a few kinds of place that   *)
(* share the name "n", businesses of it across source files, and small         *)
(* catalogs with regions, cycles of parents, streets and addresses for the     *)
(* queries with a context or a viewport.                                       *)
EXTENDS LookupSearch

Entity(kind, name, subtype, sources) ==
  [kind |-> kind, name |-> name, subtype |-> subtype, closed |-> FALSE, score |-> 0,
   sources |-> sources, parents |-> {}, about |-> {}, within |-> NONE,
   mentions |-> {}, location |-> 0, sourceShard |-> 0, entityShard |-> 0]

City == Entity("area", "n", "locality", <<NoArea, [prominence |-> 1, city |-> TRUE]>>)
Town == Entity("area", "n", "locality", <<[prominence |-> 2, city |-> FALSE]>>)
County == Entity("area", "n", "county", <<[prominence |-> 3, city |-> FALSE]>>)
Shop == Entity("business", "n", "other", <<NoPlace>>)
Business(class, confidence, override) ==
  Entity("business", "n", "other",
         <<[class |-> class, confidence |-> confidence, specificity |-> 1, override |-> override]>>)
Ride == Business(3, 2, FALSE)
Museum == Business(4, 3, FALSE)
Park == Business(1, 2, FALSE)
Stadium == Business(3, 3, TRUE)
Road == Entity("street", "n", "other", <<>>)
Closed == [Museum EXCEPT !.closed = TRUE]

\* A place every catalog has, asked for to fill the cache.
Other == [Shop EXCEPT !.name = "m"]

Named == {City, Town, County, Shop, Ride, Museum, Stadium, Road, Closed}
PlainCatalogs == {<<a, b, c, Other>> : a \in {City, Town, Shop, Ride, Road},
                                       b \in Named, c \in Named \ {City, Road, Closed}}

\* Three businesses over one, two or three source files, and four of them, more
\* than evidence is read of.
Sharded(c, shards) == [i \in DOMAIN c |-> [c[i] EXCEPT !.sourceShard = shards[i]]]
ShardedCatalogs ==
  { Sharded(<<a, b, c, Other>>, shards) :
      a \in {Park, Ride}, b \in {Ride, Museum, Shop}, c \in {Park, Museum},
      shards \in {<<0, 0, 1, 1>>, <<0, 1, 1, 1>>, <<0, 1, 2, 2>>, <<1, 1, 2, 2>>} }
  \cup {Sharded(<<Park, Ride, Museum, Museum, Other>>, <<0, 0, 0, 1, 1>>)}

Region(parents) == [Entity("area", "r", "region", <<>>) EXCEPT !.parents = parents]
Locality(name, subtype, parents, x) ==
  [Entity("area", name, subtype, <<>>) EXCEPT !.parents = parents, !.location = x]
Street(x) == [Entity("street", "s", "other", <<>>) EXCEPT !.location = x]
Address(x, within) ==
  [Entity("address", "a", "other", <<>>) EXCEPT !.location = x, !.within = within]
Cafe(x) == [Entity("business", "s cafe", "other", <<NoPlace>>) EXCEPT !.location = x, !.about = {"l r"}]

\* The same entity, found in a later file.
Later(e) == [e EXCEPT !.entityShard = 1]

\* A locality under region 1 directly or by a cycle of parents, another of its name
\* elsewhere, and streets on two pages at several distances from them.
ContextCatalogs ==
  { << Region({}), Locality("l", sub, {p}, 10), second,
       Locality("x", "county", {z, 4}, 0), Street(10 + d1), Street(15), Street(10 + d2),
       Cafe(40), Cafe(41), Cafe(42), Address(40, NONE), Address(41, "l r") >> :
      sub \in {"locality", "neighborhood"}, p \in {1, 4}, z \in {1, 3},
      second \in {Locality("l", "locality", {4}, 0), Locality("l", "neighborhood", {}, 0),
                  Locality("k", "locality", {4}, 0)},
      d1 \in {9, 2}, d2 \in {4, 0} }

\* Streets of the name inside and outside the locality of the viewport: both are
\* found, and the nearest takes the place of the first.
StreetCatalogs ==
  { << Region({}), Locality("l", "locality", {1}, 10), near, far,
       [Business(3, 2, FALSE) EXCEPT !.name = "s"], Address(40, NONE), Address(41, "l r") >> :
      near \in {Street(41), [Street(41) EXCEPT !.about = {"l r"}]},
      far \in {Street(45), [Street(45) EXCEPT !.about = {"l r"}], Street(60)} }
  \cup { << Region({}), Locality("l", "locality", {1}, 10), Street(10 + d1), Later(Street(10 + d2)),
            Later(Street(10 + d3)), Later(Address(41, "l r")) >> :
            d1 \in {1, 3}, d2 \in {0, 3}, d3 \in {0, 1} }

\* Places of the name with and without "the ", near the viewport and away from it.
The(e) == [e EXCEPT !.name = "the s", !.about = {"l r"}]
Sight(class, x) == [Business(class, 2, FALSE) EXCEPT !.name = "s", !.location = x]
TheCatalogs ==
  { << a, b, The(Sight(3, 40)), d, Address(40, "l r") >> :
      a \in {Sight(3, 60), The(Sight(3, 41)), Street(60)}, b \in {Sight(4, 41), The(Sight(4, 42)), Cafe(43)},
      d \in {The(Sight(3, 43)), Cafe(60), The(Street(43))} }

MCCatalogs ==
  PlainCatalogs \cup ShardedCatalogs \cup ContextCatalogs \cup StreetCatalogs \cup TheCatalogs

Query(name, locality, region, bias) ==
  [name |-> name, locality |-> locality, region |-> region, bias |-> bias]
At40 == [center |-> 40, half |-> 5]
Wide40 == [center |-> 40, half |-> 15]
PlainQueries == {Query("n", NONE, NONE, NONE), Query("m", NONE, NONE, NONE)}
MCQueries ==
  PlainQueries \cup
  { Query("n", NONE, NONE, At40), Query("s", NONE, NONE, At40), Query("s", NONE, NONE, Wide40),
    Query("l", NONE, "r", NONE), Query("l", NONE, "z", NONE), Query("s", "l", "r", NONE), Query("s", "l", "r", At40) }

\* What is worth asking of a catalog, and the specification bounded to it.
AskedOf(c) ==
  IF c \in PlainCatalogs \cup ShardedCatalogs THEN {q \in MCQueries : q.name \in {"n", "m"}}
  ELSE {q \in MCQueries : q.name \notin {"n", "m"}}
MCNext == Next /\ \A r \in Requests : query'[r] # NONE => query'[r] \in AskedOf(catalog)
MCSpec == Init /\ [][MCNext]_vars
MCSymmetry == Permutations(Requests)
MCNamePrefixes == {<<"s", "s cafe">>}
MCArticles == {<<"s", "the s">>}
MCNames == {"n", "m", "r", "z", "l", "k", "x", "s", "s cafe", "the s", "a", "l r"}
MCStreetNames == {"s"}
=============================================================================
