--------------------------- MODULE MCGenerationData ---------------------------
(* Small bundles.  The first family is about identity, priority, relationships *)
(* and rejections, the second about names, streets, addresses and prefixes.    *)
EXTENDS GenerationData

A == <<1>>  AB == <<1, 2>>  ABC == <<1, 2, 3>>  B == <<2>>  C == <<3>>

MCKeys == {<<1>>, <<1, 1>>, <<2>>, <<2, 1>>, <<3>>, <<4>>}
MCPublicID ==
  (<<1>> :> 5) @@ (<<1, 1>> :> 2) @@ (<<2>> :> 0) @@ (<<2, 1>> :> 6) @@ (<<3>> :> 1) @@ (<<4>> :> 7)
MCKeyHash == [k \in MCKeys |-> IF Len(k) = 2 \/ k = <<3>> THEN 1 ELSE 2]
MCScope == 1..4

Record(key, kind, priority, name, location) ==
  [key |-> key, kind |-> kind, priority |-> priority, name |-> name, address |-> <<>>,
   aliases |-> <<>>, location |-> location, closed |-> "unset", complete |-> TRUE]

-----------------------------------------------------------------------------
Shop == [Record(<<1>>, "business", 2, <<A>>, 1) EXCEPT !.address = <<B>>, !.closed = "no"]

\* Another source of the same shop, or another place.
SecondSources ==
  { [Record(<<1, 1>>, kind, priority, name, location) EXCEPT !.closed = "yes", !.aliases = <<C>>]
    : kind \in {"business", "street"}, priority \in {2, 3}, name \in {<<>>, <<B>>},
      location \in {0, 2} }
House == Record(<<2>>, "address", 1, <<AB>>, 3)
Town == Record(<<3>>, "area", 1, <<C>>, 4)
Region == Record(<<4>>, "area", 1, <<B>>, 4)

Identity(source, target) == [source |-> source, target |-> target]
Identities ==
  { <<>>, <<Identity(<<1, 1>>, <<1>>)>>,
    <<Identity(<<1, 1>>, <<2, 1>>), Identity(<<1>>, <<2, 1>>)>>,
    <<Identity(<<1, 1>>, <<1>>), Identity(<<1>>, <<2>>)>>, <<Identity(<<4>>, <<>>)>> }

Relationship(from_, to, kind, evidence) ==
  [from |-> from_, to |-> to, kind |-> kind, evidence |-> evidence]
Relationships ==
  { <<>>,
    <<Relationship(<<1>>, <<2>>, "address", 2), Relationship(<<1, 1>>, <<2>>, "address", 1),
      Relationship(<<3>>, <<4>>, "parent_area", 1), Relationship(<<4>>, <<3>>, "parent_area", 1)>>,
    <<Relationship(<<1>>, <<3>>, "address", 1)>>,
    <<Relationship(<<1>>, <<1, 1>>, "near", 1)>>,
    <<Relationship(<<3>>, <<2, 1>>, "near", 1)>> }

Rejection(key, reason) == [key |-> key, reason |-> reason]
Rejections ==
  { <<>>, <<Rejection(<<2, 1>>, 1), Rejection(<<2, 1>>, 2)>>, <<Rejection(<<3>>, 1)>>,
    [i \in 1..4 |-> Rejection(<<2, 1>>, i)] }

NormalizationInputs ==
  { [records |-> <<Town, second, Region, House, Shop>>, identities |-> i, relationships |-> r,
     rejections |-> <<>>] : second \in SecondSources, i \in Identities, r \in Relationships }
  \cup
  { [records |-> <<Town, House>>, identities |-> i, relationships |-> <<>>, rejections |-> r]
    : i \in { j \in Identities : Len(j) < 2 }, r \in Rejections }
  \cup
  { [records |-> rs, identities |-> <<>>, relationships |-> <<>>, rejections |-> <<>>]
    : rs \in { <<>>, <<Town, Town>>, <<[Town EXCEPT !.complete = FALSE]>> } }

-----------------------------------------------------------------------------
Names == { <<A>>, <<AB, AB>>, <<A, ABC>>, <<ABC>> }

CatalogInputs ==
  { [records |-> <<Record(<<2>>, "street", 1, <<AB>>, 1),
                   Record(<<1, 1>>, kinds[1], 1, names2[1], cells[1]),
                   Record(<<1>>, "street", 1, <<AB>>, 2),
                   Record(<<3>>, kinds[2], 1, names2[2], cells[2]),
                   [Record(<<4>>, kinds[3], 1, <<ABC>>, cells[3])
                      EXCEPT !.aliases = <<A, AB>>, !.address = names2[1],
                             !.closed = IF kinds[1] = "area" THEN "yes" ELSE "unset"]>>,
     identities |-> <<>>, relationships |-> <<>>, rejections |-> <<>>]
    : kinds \in { <<"area", "business", "business">>, <<"address", "address", "address">>,
                  <<"street", "business", "address">> },
      names2 \in Names \X Names,
      cells \in { <<1, 3, 4>>, <<4, 3, 3>>, <<2, 2, 2>>, <<1, 9, 2>> } }

MCInputs == NormalizationInputs \cup CatalogInputs
=============================================================================
