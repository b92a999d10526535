---------------------------- MODULE GenerationData ----------------------------
(***************************************************************************)
(* What a published generation promises of its data, against definitions   *)
(* that know no bucket, shard, partition or chunk: importer.Resolve, which *)
(* resolves a whole bundle in memory, and the queries of schema-sharded,   *)
(* postings and prefixes.sql, which the partitioned builder replaced.      *)
(***************************************************************************)
EXTENDS ServingCatalog

-----------------------------------------------------------------------------
(* importer.Resolve on the bundle.                                         *)

Records == Elements(input.records)
IDs == { EntityID(input, r.key) : r \in Records }
GroupRecords(id) == { r \in Records : EntityID(input, r.key) = id }

\* The most important record of a set; of equals the one with the least key.
Leading(records) ==
  LET top == { r \in records : \A s \in records : s.priority <= r.priority }
  IN CHOOSE r \in top : \A s \in top \ {r} : Less(r.key, s.key)

Bearers(id, attribute) == { r \in GroupRecords(id) : Has(r, attribute) }
AttributesOf(id) == { a \in Elements(Attributes) : Bearers(id, a) # {} }

ReferenceEntity(id) ==
  LET Leader(a) == Leading(Bearers(id, a))
      known == AttributesOf(id)
  IN [id |-> id, kind |-> (CHOOSE r \in GroupRecords(id) : TRUE).kind,
      name |-> Leader("name").name,
      address |-> IF "address" \in known THEN Leader("address").address ELSE <<>>,
      aliases |-> IF "aliases" \in known THEN Leader("aliases").aliases ELSE <<>>,
      closed |-> "closed" \in known /\ Leader("closed").closed = "yes",
      cell |-> Leader("location").location]

ReferenceSources(id) == { [id |-> id, key |-> r.key] : r \in GroupRecords(id) }
ReferenceProvenance(id) ==
  { [id |-> id, attribute |-> a, key |-> Leading(Bearers(id, a)).key] : a \in AttributesOf(id) }

IDOf(key) == EntityID(input, key)
KindOfKey(key) == KindOf(input, key)
ReferenceTriples ==
  { [from |-> IDOf(r.from), to |-> IDOf(r.to), kind |-> r.kind]
    : r \in Elements(input.relationships) }
EvidenceFor(triple) ==
  { r.evidence : r \in { s \in Elements(input.relationships) :
      [from |-> IDOf(s.from), to |-> IDOf(s.to), kind |-> s.kind] = triple } }

ResolvesEntities ==
  \A id \in IDs :
    /\ \A r, s \in GroupRecords(id) : r.kind = s.kind
    /\ \A r \in GroupRecords(id) : r.complete
    /\ {"name", "location"} \subseteq AttributesOf(id)

ResolvesRelationships ==
  \A r \in Elements(input.relationships) :
    /\ {r.from, r.to} \subseteq KeySet(input.records)
    /\ IDOf(r.from) # IDOf(r.to)
    /\ r.kind = "address" => KindOfKey(r.from) = "business" /\ KindOfKey(r.to) = "address"
    /\ r.kind = "parent_area" => KindOfKey(r.from) = "area" /\ KindOfKey(r.to) = "area"

\* What a partition may not hold even alone.
Crowded ==
  LET addressed == { id \in IDs : /\ (CHOOSE r \in GroupRecords(id) : TRUE).kind = "address"
                                  /\ ReferenceEntity(id).cell \in Scope }
  IN \/ \E r \in Elements(input.rejections) :
          Count(input.rejections, LAMBDA s : s.key = r.key) > StageRows
     \/ \E id \in addressed :
          \/ Cardinality({ i \in addressed : ReferenceEntity(i).name = ReferenceEntity(id).name })
               > CatalogRows
          \/ Cardinality({ i \in addressed : ReferenceEntity(i).cell = ReferenceEntity(id).cell })
               > CatalogRows

Bag(rows) == Cardinality(Elements(rows)) = Len(rows)
Contents(role) == [i \in DOMAIN RowsOf(role) |-> RowsOf(role)[i].row]
FileEntities == [i \in DOMAIN RowsOf("entities") |-> RowsOf("entities")[i].row.entity]

\* A published generation holds what importer.Resolve makes of the same bundle:
\* each entity with the attributes of its most important records, each source,
\* each provenance and each relationship once, with evidence of one of its
\* duplicates; and every rejection.  A build is refused only for an input that
\* validation or Resolve refuses, or that no partition can hold (stream.go, whose
\* bucketed steps replaced importer.Resolve).
StreamingAgreesWithResolve ==
  /\ pc = "published" =>
       /\ ResolvesEntities /\ ResolvesRelationships
       /\ Bag(FileEntities) /\ Elements(FileEntities) = { ReferenceEntity(id) : id \in IDs }
       /\ Bag(Contents("sources"))
       /\ Elements(Contents("sources")) = UNION { ReferenceSources(id) : id \in IDs }
       /\ Bag(Contents("provenance"))
       /\ Elements(Contents("provenance")) = UNION { ReferenceProvenance(id) : id \in IDs }
       /\ Len(Contents("relationships")) = Cardinality(ReferenceTriples)
       /\ { r.triple : r \in Elements(Contents("relationships")) } = ReferenceTriples
       /\ \A r \in Elements(Contents("relationships")) : r.evidence \in EvidenceFor(r.triple)
       /\ Bag(Contents("rejections"))
       /\ Elements(Contents("rejections")) = Elements(input.rejections)
       /\ CanonicalIdentities = Sorted(Elements(input.identities), IdentityBefore)
  /\ pc = "refused" =>
       ~ValidStage(input) \/ ~ResolvesEntities \/ ~ResolvesRelationships \/ Crowded

-----------------------------------------------------------------------------
(* Evidence.                                                               *)

\* Every id of a published generation reads back as itself: the row group and row
\* its locator names hold its entity, and its two spans hold exactly its sources
\* and its provenance, however the files were rotated (writeGroup; Store.Details,
\* Store.Evidence).
EvidenceIsExact ==
  pc = "published" =>
    \A id \in IDs :
      /\ Details(id) = ReferenceEntity(id)
      /\ Elements(ReadAt("sources", locator[id].sources)) = ReferenceSources(id)
      /\ Elements(ReadAt("provenance", locator[id].provenance)) = ReferenceProvenance(id)

-----------------------------------------------------------------------------
(* The catalog.                                                            *)

Ordered(seq, Before(_, _)) == \A i \in 1..(Len(seq) - 1) : Before(seq[i], seq[i + 1])
AllSeqs == 1..Len(entities)

CatalogEntities ==
  /\ Elements(entities) = { ReferenceEntity(id) : id \in IDs }
  /\ Ordered(entities, LAMBDA e, f : e.id < f.id)

CatalogWords ==
  /\ Elements(names) = { Joined(e.name) : e \in Elements(entities) } /\ Ordered(names, Less)
  /\ Elements(tokens) = UNION { TokenSet(e) : e \in Elements(entities) } /\ Ordered(tokens, Less)

CatalogPostings ==
  /\ Elements(postings) = UNION { Elements(PostingsOf(s)) : s \in AllSeqs }
  /\ Ordered(postings, PostingBefore)

\* prefixes.sql: the best over all entities at once.
CatalogHeads ==
  LET matches == MatchesOf(AllSeqs) IN
  /\ DOMAIN heads = { m.prefix : m \in matches }
  /\ \A p \in DOMAIN heads :
       heads[p] = Values(Top(OfPrefix(matches, p), HeadSize), LAMBDA m : m.entity)

CatalogAddresses ==
  /\ Elements(addresses) = AddressStage /\ Ordered(addresses, KeyBefore)
  /\ Elements(spatial) = AddressStage /\ Ordered(spatial, CellBefore)

\* The tables of a published catalog are the ones the unpartitioned queries make,
\* in the same order: no partition, chunk or bisection loses, repeats or misplaces
\* a row, and the five best of the chunks' five best are the five best of all
\* (catalog.go against schema-sharded.sql, postings.sql and prefixes.sql).
CatalogIsExact ==
  pc = "published" =>
    CatalogEntities /\ CatalogWords /\ CatalogPostings /\ CatalogHeads /\ CatalogAddresses
=============================================================================
