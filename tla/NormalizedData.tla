---------------------------- MODULE NormalizedData ----------------------------
(***************************************************************************)
(* What normalization makes of a staged input (duckdb/stream.go from       *)
(* validateStage on): records are grouped by public identity and resolved, *)
(* bucket after bucket, into sharded Parquet files whose locators the      *)
(* serving catalog keeps; relationships are resolved by hash buckets; the  *)
(* rejections are written by lexical partitions.                           *)
(*                                                                         *)
(* A source key is a string (see Partitions).  Of an attribute the model   *)
(* keeps what tells it apart: a text is a sequence of tokens, a place is   *)
(* its address cell, 0 if there is none; `closed' may be unset, and a set   *)
(* "no" wins as any value does.                                            *)
(***************************************************************************)
EXTENDS Partitions

CONSTANTS
  Inputs,        \* staged inputs
  Keys,          \* source keys and identity anchors
  PublicID,      \* anchor -> public id, a number below Buckets * Width
  KeyHash,       \* key -> its bucket among hash buckets 1..Buckets
  Buckets,       \* 16 in the code: hash buckets and leading digits
  Width,         \* ids per leading digit
  RowGroup,      \* maxRowsPerRowGroup
  ShardRows,     \* targetParquetShardBytes, as flushed rows
  StageRows,     \* normalizationStageRows
  Scope          \* cells within the scope of the build

ASSUME SizesAssumption ==
  /\ Buckets \in Nat \ {0} /\ Width \in Nat \ {0} /\ RowGroup \in Nat \ {0}
  /\ ShardRows \in Nat \ {0} /\ StageRows \in Nat \ {0}
ASSUME HashAssumption ==
  /\ IsInjective(PublicID) /\ \A k \in Keys : PublicID[k] \in 0..(Buckets * Width - 1)
  /\ \A k \in Keys : KeyHash[k] \in 1..Buckets

VARIABLES
  input,      \* the staged input: records, identities, relationships, rejections
  pc,         \* the next step of the build
  todo,       \* ids whose group is still to be written, in the order of the query
  bucket,     \* the hash bucket that relationships are resolved in
  sinks,      \* per role: its Parquet files
  keys, from, resolved  \* the relationship tables

nvars == <<input, pc, todo, bucket, sinks, keys, from, resolved>>

Elements(seq) == ToSet(seq)
KeySet(records) == { r.key : r \in Elements(records) }

-----------------------------------------------------------------------------
(* parquetSink: row groups are flushed when they are full; a file that has *)
(* reached its size is closed when the next group of rows is prepared.     *)

NewSink == [files |-> <<>>, groups |-> <<>>, buffer |-> <<>>, pending |-> FALSE]

Flattened(groups) == FlattenSeq(groups)
LocalRows(sink) == Len(Flattened(sink.groups)) + Len(sink.buffer)
FileName(sink) == Len(sink.files) + 1

Flush(sink) ==
  IF sink.buffer = <<>> THEN sink
  ELSE [sink EXCEPT !.groups = Append(@, sink.buffer), !.buffer = <<>>,
          !.pending = @ \/ Len(Flattened(sink.groups)) + Len(sink.buffer) >= ShardRows]

CloseFile(sink) ==
  LET flushed == Flush(sink) IN [NewSink EXCEPT !.files = Append(sink.files, flushed.groups)]

PrepareGroup(sink) == IF sink.pending /\ LocalRows(sink) > 0 THEN CloseFile(sink) ELSE sink

AddRow(sink, row) ==
  LET added == [sink EXCEPT !.buffer = Append(@, row)] IN
  IF Len(added.buffer) = RowGroup THEN Flush(added) ELSE added

AddGroup(sink, rows) == FoldLeft(AddRow, PrepareGroup(sink), rows)

\* Mutant: a span is taken before its sink is prepared.
SpanUnprepared(sink) == sink
SpanPrepared(sink) == PrepareGroup(sink)

\* Where the next group of n rows goes.
Span(sink, n) == [file |-> FileName(sink), start |-> LocalRows(sink), count |-> n]

-----------------------------------------------------------------------------
(* validateStage.                                                          *)

Distinct(seq) == \A i, j \in DOMAIN seq : i # j => seq[i] # seq[j]
Values(rows, field(_)) == [i \in DOMAIN rows |-> field(rows[i])]

PairHash(rejection) == 1 + ((KeyHash[rejection.key] + rejection.reason) % Buckets)

ValidStage(in) ==
  LET recordKeys == Values(in.records, LAMBDA r : r.key)
      rejectionKeys == Values(in.rejections, LAMBDA r : r.key)
  IN /\ in.records # <<>>
     /\ \A i \in Elements(in.identities) : i.target # <<>>
     /\ \A i, j \in Elements(in.identities) : i.target = j.source => j.target = i.target
     /\ \A r \in Elements(in.rejections) : r.key # <<>> /\ r.reason # 0
     /\ Distinct(Values(in.identities, LAMBDA i : i.source))
     /\ Distinct(recordKeys) /\ Distinct(in.rejections)
     /\ \A k \in Elements(rejectionKeys) : k \notin Elements(recordKeys)
     /\ \A b \in 1..Buckets :
          /\ Count(recordKeys, LAMBDA k : KeyHash[k] = b) <= StageRows
          /\ Count(in.rejections, LAMBDA r : PairHash(r) = b) <= StageRows

-----------------------------------------------------------------------------
(* Identity groups.                                                        *)

Anchor(in, key) ==
  LET mapped == { i.target : i \in { j \in Elements(in.identities) : j.source = key } }
  IN IF mapped = {} THEN key ELSE CHOOSE t \in mapped : TRUE

EntityID(in, key) == PublicID[Anchor(in, key)]
Digit(id) == id \div Width + 1
KindOf(in, key) == (CHOOSE r \in Elements(in.records) : r.key = key).kind

\* Mutant: the least important record comes first.
LastResort(r, s) == r.priority < s.priority \/ (r.priority = s.priority /\ Less(r.key, s.key))
Precedes(r, s) == r.priority > s.priority \/ (r.priority = s.priority /\ Less(r.key, s.key))

GroupOf(in, id) ==
  Sorted({ r \in Elements(in.records) : EntityID(in, r.key) = id }, Precedes)

Ascending(x, y) == x < y

\* The ids in the order in which readBucket meets them.
QueryOrder(in) ==
  FlattenSeq([b \in 1..Buckets |->
    Sorted({ id \in { EntityID(in, k) : k \in KeySet(in.records) } : Digit(id) = b }, Ascending)])

Attributes == <<"address", "aliases", "closed", "location", "name">>
Has(record, attribute) ==
  CASE attribute = "name" -> record.name # <<>>
    [] attribute = "address" -> record.address # <<>>
    [] attribute = "aliases" -> record.aliases # <<>>
    [] attribute = "closed" -> record.closed # "unset"
    [] attribute = "location" -> record.location # 0

\* The record that wins an attribute: the first of the group that has it.
Candidates(group, attribute) == SelectSeq(group, LAMBDA r : Has(r, attribute))
Won(group, attribute) == Candidates(group, attribute) # <<>>
Winner(group, attribute) == Head(Candidates(group, attribute))

ResolvesGroup(group) ==
  /\ \A i \in DOMAIN group : group[i].complete /\ group[i].kind = group[1].kind
  /\ Won(group, "name") /\ Won(group, "location")

ResolveEntityGroup(id, group) ==
  LET won == SelectSeq(Attributes, LAMBDA a : Won(group, a))
      Text(attribute) ==
        IF ~Won(group, attribute) THEN <<>> ELSE
        LET r == Winner(group, attribute) IN
        CASE attribute = "name" -> r.name [] attribute = "address" -> r.address
          [] OTHER -> r.aliases
  IN [entity |-> [id |-> id, kind |-> group[1].kind, name |-> Text("name"),
                  address |-> Text("address"), aliases |-> Text("aliases"),
                  closed |-> Won(group, "closed") /\ Winner(group, "closed").closed = "yes",
                  cell |-> Winner(group, "location").location],
      sources |-> [i \in DOMAIN group |-> [id |-> id, key |-> group[i].key]],
      provenance |-> [i \in DOMAIN won |->
                        [id |-> id, attribute |-> won[i], key |-> Winner(group, won[i]).key]]]

-----------------------------------------------------------------------------
Roles == {"entities", "sources", "provenance", "relationships", "rejections"}

NInit ==
  /\ input \in Inputs
  /\ pc = "validate"
  /\ todo = <<>> /\ bucket = 1
  /\ sinks = [r \in Roles |-> NewSink]
  /\ keys = {} /\ from = <<>> /\ resolved = <<>>

Refuse ==
  /\ pc' = "refused"
  /\ UNCHANGED <<input, todo, bucket, sinks, keys, from, resolved>>

Validate ==
  /\ pc = "validate"
  /\ IF ValidStage(input)
     THEN /\ pc' = "entities" /\ todo' = QueryOrder(input)
          /\ UNCHANGED <<input, bucket, sinks, keys, from, resolved>>
     ELSE Refuse

\* writeGroup: one entity with its sources and provenance; its row carries the
\* spans of the two.
WriteGroup ==
  /\ pc = "entities" /\ todo # <<>>
  /\ LET group == GroupOf(input, Head(todo))
         made == ResolveEntityGroup(Head(todo), group)
         sources == SpanPrepared(sinks["sources"])
         provenance == SpanPrepared(sinks["provenance"])
         entities == PrepareGroup(sinks["entities"])
         row == [entity |-> made.entity,
                 group |-> LocalRows(entities) \div RowGroup,
                 row |-> LocalRows(entities) % RowGroup,
                 sources |-> Span(sources, Len(made.sources)),
                 provenance |-> Span(provenance, Len(made.provenance))]
     IN IF ~ResolvesGroup(group) THEN Refuse ELSE
        /\ sinks' = [sinks EXCEPT
             !["sources"] = AddGroup(sources, made.sources),
             !["provenance"] = AddGroup(provenance, made.provenance),
             !["entities"] = AddGroup(entities, <<row>>)]
        /\ todo' = Tail(todo)
        /\ UNCHANGED <<input, pc, bucket, keys, from, resolved>>

Closed(roles) == [r \in Roles |-> IF r \in roles THEN CloseFile(sinks[r]) ELSE sinks[r]]

FinishEntities ==
  /\ pc = "entities" /\ todo = <<>>
  /\ sinks' = Closed({"entities", "sources", "provenance"})
  /\ pc' = "endpoints"
  /\ UNCHANGED <<input, todo, bucket, keys, from, resolved>>

-----------------------------------------------------------------------------
(* Relationships.                                                          *)

Endpoints(in, b) ==
  { k \in UNION { {r.from, r.to} : r \in Elements(in.relationships) } : KeyHash[k] = b }

\* After the last bucket `next' follows.
NextBucket(next) ==
  IF bucket < Buckets THEN bucket' = bucket + 1 /\ UNCHANGED pc
  ELSE bucket' = 1 /\ pc' = next

ResolveEndpoints ==
  /\ pc = "endpoints"
  /\ LET endpoints == Endpoints(input, bucket)
         mapped == { k \in endpoints : k \in KeySet(input.records) }
     IN IF mapped # endpoints THEN Refuse ELSE
        /\ keys' = keys \cup { [key |-> k, id |-> EntityID(input, k), kind |-> KindOf(input, k)]
                               : k \in mapped }
        /\ NextBucket("from")
        /\ UNCHANGED <<input, todo, sinks, from, resolved>>

Lookup(key) == CHOOSE k \in keys : k.key = key

ResolveSources ==
  /\ pc = "from"
  /\ LET rows == SelectSeq(input.relationships, LAMBDA r : KeyHash[r.from] = bucket)
         found == [i \in DOMAIN rows |->
           [from |-> Lookup(rows[i].from).id, fromKind |-> Lookup(rows[i].from).kind,
            to |-> rows[i].to, kind |-> rows[i].kind, evidence |-> rows[i].evidence]]
     IN IF bucket = Buckets /\ Len(from) + Len(found) # Len(input.relationships) THEN Refuse ELSE
        /\ from' = from \o found
        /\ NextBucket("to")
        /\ UNCHANGED <<input, todo, sinks, keys, resolved>>

ResolveTargets ==
  /\ pc = "to"
  /\ LET rows == SelectSeq(from, LAMBDA r : KeyHash[r.to] = bucket)
         found == [i \in DOMAIN rows |->
           [from |-> rows[i].from, fromKind |-> rows[i].fromKind, to |-> Lookup(rows[i].to).id,
            toKind |-> Lookup(rows[i].to).kind, kind |-> rows[i].kind,
            evidence |-> rows[i].evidence]]
     IN IF bucket = Buckets /\ Len(resolved) + Len(found) # Len(input.relationships)
        THEN Refuse ELSE
        /\ resolved' = resolved \o found
        /\ IF bucket < Buckets THEN UNCHANGED <<keys, from>> ELSE keys' = {} /\ from' = <<>>
        /\ NextBucket("relationships")
        /\ UNCHANGED <<input, todo, sinks>>

Triple(r) == [from |-> r.from, to |-> r.to, kind |-> r.kind]
TripleBefore(r, s) ==
  \/ r.from < s.from
  \/ r.from = s.from /\ r.to < s.to
  \/ r.from = s.from /\ r.to = s.to /\ r.kind = "address" /\ s.kind = "parent_area"

LawfulKinds(r) ==
  /\ r.from # r.to
  /\ r.kind = "address" => r.fromKind = "business" /\ r.toKind = "address"
  /\ r.kind = "parent_area" => r.fromKind = "area" /\ r.toKind = "area"

\* GROUP BY from, to, kind with the least evidence, a digit of `from' at a time.
AggregateRelationships ==
  /\ pc = "relationships"
  /\ LET here == { r \in Elements(resolved) : Digit(r.from) = bucket }
         triples == Sorted({ Triple(r) : r \in here }, TripleBefore)
         rows == [i \in DOMAIN triples |->
           [triple |-> triples[i],
            evidence |-> Min({ r.evidence : r \in { s \in here : Triple(s) = triples[i] } })]]
         added == FoldLeft(LAMBDA sink, row : AddGroup(sink, <<row>>), sinks["relationships"], rows)
     IN IF \E r \in here : ~LawfulKinds(r) THEN Refuse ELSE
        /\ sinks' = [sinks EXCEPT !["relationships"] =
                       IF bucket < Buckets THEN added ELSE CloseFile(added)]
        /\ IF bucket < Buckets THEN UNCHANGED resolved ELSE resolved' = <<>>
        /\ NextBucket("rejections")
        /\ UNCHANGED <<input, todo, keys, from>>

RejectionBefore(r, s) == Less(r.key, s.key) \/ (r.key = s.key /\ r.reason < s.reason)
RejectionPlan ==
  StringPlan(Values(input.rejections, LAMBDA r : r.key), StageRows, FALSE)

IdentityBefore(i, j) == Less(i.source, j.source)
IdentityPlan == StringPlan(Values(input.identities, LAMBDA i : i.source), StageRows, FALSE)

\* canonicalIdentities, for metadata.parquet.
CanonicalIdentities ==
  InPartitions(Elements(input.identities), LAMBDA i : i.source, IdentityPlan, IdentityBefore)

WriteRejections ==
  /\ pc = "rejections"
  /\ IF ~Planned(RejectionPlan) \/ ~Planned(IdentityPlan) THEN Refuse ELSE
     /\ sinks' = [sinks EXCEPT !["rejections"] = CloseFile(
          FoldLeft(LAMBDA sink, row : AddGroup(sink, <<row>>), @,
            InPartitions(Elements(input.rejections), LAMBDA r : r.key,
                         RejectionPlan, RejectionBefore)))]
     /\ pc' = "index"
     /\ UNCHANGED <<input, todo, bucket, keys, from, resolved>>

Normalize ==
  \/ Validate \/ WriteGroup \/ FinishEntities \/ ResolveEndpoints \/ ResolveSources
  \/ ResolveTargets \/ AggregateRelationships \/ WriteRejections
=============================================================================
