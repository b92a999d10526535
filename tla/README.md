# A TLA+ verification of openmaps

This directory holds models of openmaps' concurrent and crash-prone parts and of
the algorithms its answers rest on (lookup ranking, the build of a generation,
route search), the TLC runs that check them on small instances, and TLAPS proofs
of safety for every instance. Paths are relative to the repository (`src/`).

To check one run: `tlc -config RoutingService.cfg MCRoutingService.tla`.
To check a proof: `tlapm RoutingServiceProofs.tla`. `PROJECT.json` maps every
definition to the lines it models and lists runs, mutants, hazards and theorems.

## 1. The system

One process, `cmd/server`, answers map, lookup (places, geocoding) and routing
requests over *immutable generations* of data built by batch commands. Updates
are made by writing a small selection file; the server notices and moves to the
new generation while requests go on.

    places-geocoding-{import,refresh} --lock, rename--> lookup-selection.json
                                                             | re-read per request
    HTTP --> api handlers --> duckdb.LiveHandler ------------+--> DuckDB store
         \-> RoutingAdmission --> routing.Service (readers, leases) --> prepared graph
                                        ^ Replace
             watchRoutingSelection -----+--- once a second: routing selection file

| component | state it keeps | operations | what is hard | what makes it correct |
|---|---|---|---|---|
| Routing service (`internal/routing/service.go`) | published snapshot, token channel, reader channel and WaitGroup per snapshot, `replacement` and `mu` | OpenService, Acquire, Lease.Close, Replace, Close, Status, RecordSelectionError | leases end without `mu`; load, swap and retirement beside requests; failures at each reader | readers have one owner and stay open under a lease; tokens and readers agree; at most two snapshots open |
| Routing side of the server (`cmd/server/main.go`, `routing_selection.go`, `internal/api/admission.go`, `routing_scout.go`) | admission slots, the watcher's `last`, the context, the list of closers | RoutingAdmission, computeScoutRoute, watchRoutingSelection, serve, cleanup | two nested budgets; cancellation in the middle of Replace; order of closers | admitted requests find a reader; health agrees with the file; nothing outlives serve |
| Lookup live handler (`duckdb/selection.go`) | store, current reference, lastError, `mu` (RWMutex), `reloadMu` | serveHTTP, Routes, Status, reload, Close | swap waits for readers while readers queue behind it; TryLock losers | a response comes from one open store; no leak; error tells the truth; no deadlock |
| Lookup selection file (`duckdb/selection.go`, `cmd/places-geocoding-refresh`, `-import`, `importer/artifacts.go`) | selection file, `.lock` file, review report | init, compare, review, activate, rollback, import | several commands, kills, power loss, stale lock, sync failure | one writer; acknowledged changes stay; each change builds on the last |
| Route search (`internal/routing/route.go`, `forced.go`, `potential.go`, `landmark_query.go`) | labels, best label per state, queue, goal, bounds | Route, RouteAccelerated | pruning by bounds with turn restrictions, partial first and last edges, forced continuations, limits and cancellation | the route is a cheapest legal one; reported bounds are true |
| Graph reader and page cache (`reader.go`, `pages.go`) | LRU list of pages and recycled buffers | page, evict, decode | borrowed views of recycled buffers | a view is not overwritten while in use; the budget holds |
| Preparation and publications (`prepared.go`, `prepared_turns.go`, `reverse_support.go`, `landmarks.go`, `landmark_extension.go`) | directories, receipts, resumable state | prepare, extend, publish | what is computed must bound every search from below; crash between files and receipt | prepared turns are the graph's; landmark costs never overstate; a receipt names what is there |
| Prepared stream sink (`importer/streaming.go`) | queue, done channel, first error | submit, worker, Close | cancellation against queued batches | all or an error |
| Generation build and checkpoints (`duckdb/stream.go`, `catalog.go`, `normalized_checkpoint.go`, `cmd/places-geocoding-prepare`) | staging database, `.building` directories, two checkpoints, Parquet shards, catalog tables | build, checkpoint, resume, catalog-only build | death at each step, two processes; boundaries of buckets, shards, partitions and chunks | a published directory is complete and of its manifest; the partitioned result is the unpartitioned one |
| Lookup queries (`duckdb/search.go`, `store.go`) | the shared candidate cache; an immutable catalog | Autocomplete, AutocompleteWithBias | requests racing for a cache that can be full, paging, ranking | answers follow from the catalog, whatever the cache has; contexts are honoured; a viewport hides no place of the asked name |
| Scout acquisition (`importer/scout/acquire.go`) | partial files, receipts, provider generation | Fetch, download, verify | provider changes under the download, retries, crash | a receipt only for verified bytes of one generation |
| Process supervisor (`supervisor/run.go`) | child group, peak samples | Run | exit, cancel, sample failure and budget race | the reported reason is true; nothing survives |
| HTTP parsing, provider importers, SQLite/OpenSearch variants, qualification tools | none shared | pure reads, string processing, batch transforms | data, not control | out of scope (section 8) |

The components meet in four places: the **lease** (a request binds to a
generation and its files may not be closed before it ends), the **selection
files** (written by commands, read by the server without a lock and replaced
atomically), **admission around the lease**, and the **shutdown order** of
`main.go`. A fifth meeting is by data: what the build writes the store reads back
through locators, and what the preparation writes the route search takes for
lower bounds and turn rules. The models concentrate on these.

## 2. Modules

| module | models | extends or instances |
|---|---|---|
| `LeasedGenerations` | the abstract promise: load completely, publish, lease, retire only what is neither current nor leased | |
| `RoutingService` | `routing.Service` | instances `LeasedGenerations` |
| `RoutingServer` | the routing half of `cmd/server` | extends `RoutingService` |
| `LiveHandler` | `duckdb.LiveHandler` | instances `LeasedGenerations` |
| `SelectionFile` | the lookup selection file and the commands that write it | |
| `PreparedSink` | `PrepareStreaming` and `asyncPreparedSink` | |
| `GenerationBuild` | `places-geocoding-prepare`: directories, checkpoints, resume | |
| `Partitions` | lexical and integer partitions, chunks | |
| `NormalizedData` | normalization: validation, resolution, shards, relationships, rejections | extends `Partitions` |
| `ServingCatalog` | `catalogBuilder` and the store's reads through locators | extends `NormalizedData` |
| `GenerationData` | the reference: `importer.Resolve` and the unpartitioned queries | extends `ServingCatalog` |
| `Orders` | sorting and selecting, defined by what comes before what | |
| `LookupSearch` | Autocomplete over the shared candidate cache | extends `Orders` |
| `TurnRules` | the automaton of complex restrictions, in memory and as a file | |
| `RoadGraph` | graph records, profile, snapping choice, departures, the audit | extends `TurnRules` |
| `RoutePreparation` | potential, reverse support, landmark vectors, opened routers | extends `RoadGraph` |
| `PathVerifier` | the repository's own offline path check | extends `RoadGraph` |
| `RouteSearch` | one route query, plain or accelerated | extends `RoutePreparation`, `PathVerifier` |
| `MC*` | small instances: symmetry sets and sample content | the module of that name |
| `*Proofs` | TLAPS proofs about the module of that name | that module |

Definitions marked `Mutant:` stand before the action they falsify. They are
plausible slips in the code at that place (a dropped check, a missing reset, a
swapped order). Putting one in place of its action makes the property listed
with it in `PROJECT.json` fail, which shows that the property looks at that code.

### RoutingService

| code | model |
|---|---|
| `slots` channel | `slots`, the number of tokens in it |
| `snapshot.readers`, `.available`, `.leases` | `open[s]`, `available[s]`, `leases[s]` (the set of requests the WaitGroup counts) |
| `replacement` mutex | `replacement`, its holder, with `next`/`count` for a load and `retiring` for a `close()` |
| `mu` | the request between the two receives of `Acquire`; every other section under `mu` is a single action, because nothing in it blocks |
| reader and metadata fingerprint | `print[s][i]`, `metadata[s]` |
| `Acquire` | `TakeSlot`, `TakeReader` |
| `Lease.Close` (three statements, no `mu`) | `ReturnReader`, `EndLease`, `ReturnSlot` |
| `Replace` | `BeginReplace`, one `LoadReader` per worker, `FailLoad` or `Abandon` or `Publish`, then `CloseReader`... `FinishRetiring` |
| `Close` | `BeginClose`, `CloseReader`..., `FinishRetiring` |

A mutex or channel operation that would block is a disabled action, so "never
blocks" is the statement that the guard holds (`SendsNeverBlock`). Calls that
return an error without changing anything are stuttering steps. The identity
of a snapshot is a memory cell, reused once nothing refers to it: three cells
give unboundedly many replacements. What a reader decodes is abstracted to the
fingerprint of the files it opened, which the code compares between readers.
A failure to close a previous reader is only an error value that the caller
prints (it is logged as "rejected; old snapshot retained" although the new one
is published); it changes no state and is not in the model.

### RoutingServer

Each action is a step of the service, of its surroundings, or of both.
`admitted` is RoutingAdmission's channel, `stage` where a request is around its
lease, `last`, `watching` and `directory` the watcher, `phase` the main
goroutine: `serving`, `draining` (http.Server.Shutdown), `joining` (the last
closer, which waits for the watcher), `closing` (`router.Close`), `exited`.
`seen` is a history variable (what the last tick read). The watcher's tick reads
the file, asks Status and records a diagnostic in one action: no other goroutine
changes what it compares before the watcher is joined. A failed listener leaves
connections open (`accepting`), as `serve` does.

### LiveHandler

`reloadMu` is its owner; `mu` is `writer`/`readers`/`blocked` with Go's RWMutex
discipline (a waiting Lock holds new readers back, Unlock admits them). A request
that wins TryLock goes through `ReadSelection`, `Compare` (equal: nothing to do),
`OpenCandidate` or `RejectCandidate`, `Swap`, `RetireOld`, `BeginRecord`,
`Record`; then, like a loser, through `EnterRLock`, `Serve`, `Finish`. Opening the
candidate and announcing the write lock are one action: nothing but this
goroutine acts on either in between. Stores are named by the generation they
were opened from. `verifiable` changes arbitrarily, so verification can fail or
succeed at any time, also for a generation that failed before.

### SelectionFile

A process is one run of a command; for an activation, the compare, review and
activate runs of one operator. The lock file is created with O_EXCL (`Lock`) and
removed by name (`Release`); `file` is what a reader sees, `durable` what a power
loss may leave: a rename adds to it, a sync of the directory (`SyncDirectory`)
reduces it to the file. `content` is what each directory verifies as at the
moment. Version numbers are not in the JSON; they name publications. `Kill`
and `LosePower` can strike between any two steps. `RemoveStaleLock` is the
operator's removal when no command runs, as the error message asks. That a
*removed* lock file reappears after a power loss is not modelled.

### PreparedSink

| code | model |
|---|---|
| `outputMu` and the two shared batches | `pending`; an append, and the taking of a full batch, are one action |
| `auxStager`'s buffers, the preparation database | `auxRows` (told apart by table), `auxBatch[r]` on its way, `table` |
| reader goroutines | `reader[r]`: `idle` at `range jobs`, `read`, `stage`, `append`, `gone` |
| the main goroutine | `main`: `open`, `send`, `join` per input; `flush`; the two joins; `pending`; `close`, `wait`, `returned` |
| `submit` in progress | `toSubmit[p]`, the batches a goroutine still has to hand over |
| channel `queue`, `done` | `queue`, `closed`; `done` is "every writer is gone" |
| worker goroutines | `writer[w]`, `writing[w]` |

A row has a *shape*: what it yields when read, where it is staged, what it yields
in the joins. Shapes are constants, so parsing, scope tests and the SQL are
abstracted to their outcome on the complete tables; the order in which a join
lists rows is arbitrary. A write is all or nothing (a batch is far below the
appender's own flush threshold). A successful append or query is placed at its
last look at the context. The audit's counters and the progress goroutine have
no influence on control.

### GenerationBuild

A job is one run of `places-geocoding-prepare`; jobs share the parent directory,
so also the paths of both checkpoints. `pc[j]` is the next system call that other
jobs can see: the stat of the output, the two `Mkdir`s, the writing of rows, the
marker and the rename that publishes the input checkpoint; on a resume the adoption
of the marker, the reset of derived tables, the removal of the spill; then each
CREATE TABLE, the normalized checkpoint (reserve, link, rename), the catalog, the
rename of the generation and the removal of the checkpoint, which unlinks two
files one after the other. `Fail` runs the deferred cleanup, `Crash` does not;
`lock` is DuckDB's lock of the database and `orphans` the jobs whose open database
was unlinked under them. A stage is a record of manifest, identity, rows and tables.
`RemoveLeftover` is the operator who removes an inspected `.building` directory.
Assumption `Compatible`: a path is not staged for one manifest while a build of another
one uses it (the code compares the identity once and opens the path again). Two
resumes may name one path; the identity in the marker sorts them out.

### NormalizedData, ServingCatalog, GenerationData

One action per step of `buildStaged...` and of `catalogBuilder` that leaves
something behind: a group of records of one public identity, one hash bucket of
relationships, one chunk of postings. Strings are short sequences of numbers, so
that "a" before "ab" before "b" and the exact partition of a key that is the prefix
of others are real; public identities and hashes are given functions. `parquetSink`
is modelled with row groups, rotation at a size, and spans; a locator is file, row
group and row. `GenerationData` restates what must come out without buckets, shards
and partitions, from `importer.Resolve` and from the SQL that the partitioned builder
replaced (`schema-sharded.sql`, `postings.sql`, `prefixes.sql`). One constant
`Buckets` stands for the code's 16 hash buckets and its 64 and 16 leading digits.

### LookupSearch

The catalog is a sequence in stable ID order; names are model strings with a given
prefix and mention relation; coordinates are points of a line. A request is where
it stands around the cache: `Lookup` and each store are sections under
`primaryCandidateCacheMu`, everything between two of them reads immutable data and
is part of the next action. `Filtered` keeps the aliasing of `candidates[:0]`, and
`Candidates` the order it works on: candidates whose evidence has to be read are sorted
by the names of the source files (`SourceOrder`), those the cache has with evidence come
in sequence order. Shard 0 is `source-records.parquet`, whose name sorts after
`source-records-00001.parquet` and all later ones (`FilePlace`), so that the two orders
differ for a name whose businesses lie in shard 0 and in others. The articles of names
("the X" for X) are pairs given by a constant, as are the prefixes.
BM25 scores are a field of the entity. What the code sorts or searches for in a loop is
defined by its result (an element's place is one after those that come before it, the
ids seen are the least closed set), in forms that a proof can use. The assumptions on
the constants are types, that the limits are positive, that no name is a proper prefix
of itself, that shards are filled in sequence order (`duckdb/stream.go:115`), and that an
area's parents are areas (both ends of a `parent_area`
relationship are divisions, `importer/streaming.go:978`). What reads the catalog takes it as its first
parameter, so that the proofs can use that it never changes.

### Route search

`RoadGraph` is a record of nodes, edges, rules and nearby edges; an ID outside its
domain is in an absent tile. Positions are decimetres on a line, fractions halves of
an edge, costs whole seconds. `TurnRules` builds the automaton as `buildRouter`
does, with failure links, writes it as rows and moves, validates the file as
`OpenPreparedRouter` does, and follows it either way. `RoutePreparation` computes the potential
(as a fraction), the reverse support bits, both enumerations of incoming edges and
the landmark vectors, whose costs are rounded down to a multiple of `Quantum` as
the code rounds to float32. `RouteSearch` opens a router, snaps, starts, settles one
label per action and draws. `search` has the labels, the best label of each state,
the queue and the goal; `Expand` is the loop over departures, `ForcedContinuation`
is `forced.go`. `optimum` is a history variable: the least cost over an enumeration
of legal walks from the records alone. `PathVerifier` is `verify.go`, which the
repository keeps apart from the search on purpose; the property uses it likewise.
The assumption `RoadsAssumption` is the repository's audit: only audited graphs are published.
The audit admits shapes that end up to a metre from their nodes; a shape therefore has
ends of its own, and the areas `levels`, `jagged` and `torn` have joints .1 to .6 m wide.

## 3. Runs

| run | instance | distinct states | shows |
|---|---|---|---|
| `routing_service` | 2 requests, 2 controllers, 2 cells, 2 workers, 2 fingerprints | 44,480 | ownership of readers and tokens, what a response names, release at Close, the refinement, and that Replace and unpublished files come to an end |
| `live_handler` | 2 requests, 2 generations | 12,720 | served generations are open, health is honest, the refinement, requests are answered, a stable selection is adopted |
| `routing_server` | 2 requests, 2 cells, 2 directories, 1 worker, 1 fingerprint | 121,600 | admitted requests find a reader, availability until shutdown, health follows the file, an exit leaves nothing, shutdown completes, the selection is followed |
| `selection_file` | 3 processes, 2 directories, 2 contents | 1,255,385 | one writer, a lock is left only by a crash, acknowledged changes survive, each change builds on the file |
| `selection_review` (violation) | the same | | finding 1 |
| `routing_empty_selection` (violation) | as `routing_server` | | finding 2 |
| `prepared_sink` | 2 readers, 2 writers, 2 inputs of 4 assets, 8 rows, batches of 2 | 250,844 | success is complete, nothing is submitted twice, nothing outlives the call, it always returns |
| `generation_build` | 2 jobs, 2 outputs, 2 manifests, 2 builds, 8 command lines, 4 starts, 2 faults | 715,674 | what is published is whole, a resume gets through, only crashes leave litter, a checkpoint outlives a failure |
| `generation_data` | 607 bundles of two to four source rows | 8,129 | the partitioned build agrees with `importer.Resolve`, evidence is exact, the catalog finds exactly what the unpartitioned queries find |
| `lookup_search` | 2 requests, all orders of 3 entities, catalogs with contexts and with two source shards, a cache of 2 names | 186,850 | answers follow from the catalog (where the order of candidates matters, one of two), contexts are honoured, a viewport hides no place of the asked name |
| `lookup_city_precedence` (violation) | the same | | finding 3 |
| `route_search` | 9 areas, every pair of chosen places, plain and accelerated | 79,599 | the route is cheapest, legal by an independent check, drawn where its shapes meet, and reported bounds are true |

Deadlock is checked in the runs of processes that never end. It is off where the
system stops: a build that used up its commands, a generation that is published,
requests that are answered. There the liveness or the shape of the end states says more.

Bounds and why they are enough. *Requests*: two with two
workers let one hold a reader of the old snapshot and one of the new; in the server
two with one worker let one be refused (the proofs cover every number). *Controllers*:
the server has two (watcher and main). *Cells*: current and next; they are reused.
*Workers*: two is the least at which a load can fail half way and readers can
disagree. *Generations* of LiveHandler: two, reused, so that a reload can find
that what it read is no longer what the file says. *Processes*: one
that died holding the lock, one writing, one refused. *Rows*: enough for a full
batch of every output, a partly filled one at the end, and a queue (capacity 4)
that fills. *Readers and assets*: an input with fewer assets than readers and one
with more. *Jobs* of GenerationBuild: two at once, four starts and two faults
(`MaxStarts`, `MaxFaults`): a build that dies, a resume that fails, and one more; the
build and its resume keep a normalized checkpoint, so that a resume also meets the
reserve, link and rename steps.
*Bundles*: every combination of a few rows around one boundary, with row groups,
shards, partitions and chunks of two or three, so each of them rotates, splits and
overflows. *Lookup*: three entities of one name in every order against limits of
two and three, in one shard and in two; four businesses of a name for the limit on
evidence; a cache of two keys that fills. *Routes*: every pair of the chosen
places (both ends and the middle of an edge) of nine areas with up to eight nodes,
built around one difficulty each: overlapping restrictions, a chain with one-way stretches,
hierarchy levels with a shortcut and a blocked node, duplicate edges with one opposite, a tile
that is missing, every reason not to use a road, two ways that meet, and shapes that end apart
at a junction, by just as much as drawing allows and by more. Label limits
are 2, 4 and 40 (never reached), walks of the reference have at most nine edges (`MaxWalk`),
more than any cheapest walk there needs; `MaxForced` is the code's 64. There are no bounds on
the number of replacements, reloads, faults, signals or file changes: state
spaces are finite because identities are reused. `SelectionFile` counts
versions, and each process publishes at most once. Symmetry is used only where no
liveness is checked.

Fairness, and why the code justifies it. Request steps are weakly fair: a route
runs under a 30 s context, leases are closed in defers, a response has a 35 s
write timeout. Steps that wait for a `sync.Mutex` are strongly fair: its
starvation mode hands the mutex to a waiter after 1 ms. The watcher's and the main
goroutine's steps (`WatcherStep`, `MainStep`) are strongly fair for that reason, and
`WatcherStops` because `select` chooses among ready cases at random.
Shutdown has a timeout, hence `EndDrain` may happen with requests in flight.
The goroutines of a preparation are weakly fair: reads, appends, queries and
writes return, with success or an error. Nothing makes requests arrive, files change, signals come or processes be
killed; `SelectionIsAdopted` says "if requests keep coming".

## 4. Findings

1. `selection_review`. `docs/refresh.md:111` says activation refuses a changed
   current selection. The check against the reviewed baseline is made before
   the lock file is created (`cmd/places-geocoding-refresh/main.go:157-168`), and
   under the lock only "already active" is asked. A publication in between is
   displaced unreviewed (it stays as `previous`, so a rollback can find it).
2. `routing_empty_selection`. The watcher starts with `last = ""` and skips a
   tick whose bytes equal `last` (`cmd/server/routing_selection.go:45`). A
   selection file that is empty when the server starts is never reported; one
   that is emptied later is. `RecordSelectionError` is documented to expose
   failed selection files.
3. `lookup_city_precedence`. `docs/log/0064-national-landmark-ranking.md:79` says
   exact city and region precedence is preserved. `promoteExactDestination` asks only
   the shared cache whether the first area is a city (`duckdb/search.go:486`). The
   cache holds 256 names and is never evicted, so after that many distinct queries no
   further city is protected from a monument or stadium of its name; a racing cold request can
   leave candidates without evidence with the same effect.

Observed while modelling, without a run of their own:

- `search.go:523`: `eligible := candidates[:0]` reuses the array that `current` points
  into; after the first eligible candidate, later ones are compared with it instead of the
  first result, so a better place can be dropped (docs/log/0064:82).
- The same filter makes the answer depend on the order of the candidates, and a cold request
  has another order than a warm one (`search.go:626`, `:694`): with F geographic and first,
  A an attraction and B a stronger cultural place in shard 1, a cold request promotes B, a
  warm one A. `AnswersFollowTheCatalog` therefore allows both answers, for such names only.
- `search.go:195` gives "the X" the class of X: with a viewport, five nearby "the X" cut off
  an exact X. `BiasIsSoft` counts both as the asked name.
- The audit admits shapes that end 1 m from their nodes (`audit.go:297`); drawing refuses a
  joint of more than .5 m (`route.go:749`, `verify.go:147`). In an admitted graph the cheapest
  route can so be refused ("not contiguous"), and no other is tried. A route can start or end
  where another shape of the junction does, away from its snap, where `verify.go:150` allows
  .1 m. `RouteIsLegal` allows each by no more than the gap between shapes of one junction.
- `search.go:145` puts the nearest street in the place of the first one of that name, also
  when it stands there already further down (the locality's street and the nation's are
  merged by ID, `:134`): the same street is answered twice, `<<3, 3, 5>>` in a catalog of
  `StreetCatalogs`. Without the substitution, two streets of one name are.
  docs/log/0038:26 says duplicate labels within one response are suppressed.
- `verify.go:48` refuses the correct empty route between two snaps on the same node by
  different edges ("unexplained empty path"); `RouteIsLegal` exempts it (`Coincident`).
- On a partial sample the accelerated search reports an absent tile as soon as a label leads
  there, the plain one only when it settles it: the two can differ.
- `LowerBoundSeconds` can exceed the cost of the route at the last pop; `BoundsAreHonest`
  says what does hold.
- `turns.bin` is created exclusively before its receipt, `reverse-support.bin` linked before its:
  a failure in between makes each later preparation of that directory fail (vectors are handled, `landmarks.go:454`).
- `docs/places-geocoding-national.md:213` advises to rerun the same command with `-resume`;
  with `-normalized-checkpoint` it is refused, after the whole normalization, because that path exists.
- The same document (line 172) says a normalized checkpoint is published after its physical row
  counts pass; nothing checks them before the rename.
- A catalog-only build ignores `-audit`; a resumed build removes the spill directory while it does
  not hold the database lock; the streaming build keeps the least evidence of duplicate
  relationships where the in-memory one keeps the first, and checks chains and empty anchors over all
  identities where that one looks at those in use.

## 5. Proofs

Everything below is proved for all values of the constants, under the named
assumptions of the modules: finitely many requests, at least one worker, NONE
distinct from everything, two controllers in the server. Every proof starts from
an inductive invariant that TLC had checked first.

`RoutingServiceProofs`. None of the safety properties is inductive. That a token
is backed by a reader follows from two counts: tokens plus requests inside the
service are `Workers` (`SlotCount`), and in every snapshot that is published or
still leased, readers on offer plus readers leased are `Workers` (`ReaderCount`).
A request returns its reader before its token, so the readers out on the current
snapshot are never more than the tokens out. `ControlInv` names the only
snapshots that can be open, `WholeInv` and `LoadInv` what is open of them,
`OwnerInv` that leased readers are distinct. From `IInv` follow all seven safety
properties, and the refinement of `LeasedGenerations` step by step.

`RoutingServerProofs`. Every server step is a step of the service or leaves it
unchanged (`ServerUsesTheService`), so `IInv` holds in the server. Nested budgets
then give `AdmittedIsNeverBusy`: requests inside the service are admitted, at
most `Workers` are admitted, so an admitted request outside the service leaves a
token (`TokenForTheAdmitted`). `ControllerInv` says who holds `replacement` in
which phase, `WatchInv` and `HealthInv` how the diagnostic follows the watcher.

`LiveHandlerProofs`. `OwnerInv` and `WriterInv` tie both locks to the one process
that can be between acquiring and releasing them; `ReaderInv` gives exclusion;
`OpenInv` says which stores are open at each of its stops. The refinement maps
`closed` to "nothing live" and the store a request uses to its lease.

`SelectionFileProofs`. `DraftInv` says that a writer's draft is the file, its
successor, or what the file has become; `DurableInv` that whatever a power loss can
leave is at least as new as the last acknowledged change. The action property
`ChangesBuildOnTheFile` follows because only `Rename` publishes.

`PreparedSinkProofs`. `ControlInv` ties every goroutine to the place of the main
goroutine: main submits only after the last phase, readers run only while main
sends or joins, the queue is closed after both. Hence `NothingOutlivesPrepare`
for every manifest and number of goroutines; `StageInv` is what typing needs.

Success is complete by a conservation argument. Unless something went wrong (`Trouble`), the items of a row are `Held` in some buffer,
batch, queue or the sink from the moment it is read (`DirectInv`) or joined (`JoinInv`),
and a row to join is `Staged` from the moment a reader passes it (`StagedInv`). The
trouble itself is not lost on the way to the result (`WatchInv`), and when the call
returns nil every place but the sink is empty (`EmptyInv`).

That nothing is submitted twice (`NothingTwice`) needs the other direction: an item has
a place only once its origin is spent. What a row yields when it is read is nowhere
before (`UnreadInv`), nor is what a join yields before the join comes to the row
(`UnjoinedInv`); two goroutines never read the same asset (`ReadingInv`); different rows
yield different items, and a reading other items than a join (`ItemsDiffer`). So what a
step adds to a place was in none, what it moves leaves its old place, and the places
stay pairwise disjoint (`PlaceInv`).

`GenerationBuildProofs`. What is published is followed back along its data: the
generation has what its job read (`DataInv`), the job read a complete stage of its own
manifest (`InputInv`), and what is under the checkpoint's name stays of that manifest
while a job uses the name, although other jobs remove it and rename another one there
(`StageInv`). The last step needs `PathInv`: of two jobs at one path only resuming ones
can differ in manifest, because a fresh build starts where no other build is
(`Compatible`), and a resume takes only a marker of its own identity. `PlaceInv` ties a
job's directory to its next step, `LockInv` says that an open database which is not
behind the name any more has been unlinked. `CheckpointsAreKept` and
`FailuresAreCleanedUp` follow from the same invariant, and so does that nothing
published is replaced (`PublicationsAreFinal`).

`ResumesGetThrough` is about a resume that no other job runs beside (`LoneInv`).
`ResumedInv` says what it meets at each step: the stage it adopted until the reset, then
all rows and exactly the derived tables of its own finished steps (`Made`), and free
paths once it has looked at them. Two facts about everybody hold it up: whoever has the
database open is at a step that has it open (`OpenInv`), so no dead or finished job
holds the lock; and a marked checkpoint has all the rows it counts unless a published
output declares its manifest (`MarkerInv`), because the marker follows the last batch
and only a publication's removal takes rows away. Every refusal the code can make is
then excluded but those that the property names (`Refusals`).

`LookupSearchProofs`. What one request stores is what another would compute: the
candidates under a key of the cache are those the catalog has (`CacheInv`), so are those
a request works with (`EntryInv`), and what it has computed when it comes to the next
stage is what a request alone would have (`RegionsInv`, `BaselineInv`, `BusinessInv`).
Two things can differ. Whether the areas' evidence was loaded: nothing but the rank of a
city or region depends on it (`KeptEither`). And whether the businesses' was: then they are
in sequence order, else in that of the files. The two are the same order unless shard 0 and
later ones have businesses of the name (`SameOrder`), and unless a business comes first the
order is of no effect, because the filter has nothing to alias and keys end in the ID
(`OrderFree`). `CacheDoesNotShow` is the property that TLC checks;
`CityAnswers` says that the answer where a city or region comes first is one of the two that
finding 3 tells apart; `CacheIsBounded` and `CacheOnlyGrows` say that the cache never passes its
limit and never loses an entry.

The other two properties are about what a search computes of the catalog, for every
catalog. Positions are sorted by keys of integers; the order of keys is strict and
total (`LexTotal`, `LexTransitive`, `PrecedeOrder`), so the place of an element is a
bijection (`InOrderFacts`) and sorting and selecting keep exactly the elements they
should (`SortedFacts`, `PickedFacts`). `RegionIsHonoured`: the localities that reach a
region by their parents are those in the least set closed under children
(`DescendsWithin`, by complementing the set on either side), the first of them is
unique, and the street found page by page is near enough or the closest of all, because
pages are only skipped behind one that is near enough (`StreetFacts`). `ViewportIsSoft`: of
exactly the asked name is the first class of the viewport's order, so such a result is
cut off only behind five others of the class (`BiasedFacts`; "the X" is in it too), merging hides nothing
(`MergedFacts`), and a substituted street has the name of the one it replaces.

`LeasedGenerationsProofs`. In the abstract protocol a leased generation is open.
With the two refinements this is the promise of both implementations.

Only model-checked: all liveness properties (`ReplacementReturns`,
`UnpublishedFilesAreClosed`, `ShutdownCompletes`, `SelectionIsFollowed`,
`RequestsAreAnswered`, `SelectionIsAdopted`, `AlwaysReturns`), which need fairness
and ENABLED; and six invariants whose modules define recursive operators and whose proofs
would be inductions over data. `StreamingAgreesWithResolve`, `EvidenceIsExact` and
`CatalogIsExact` compare what two recursive computations make of the same rows
(partition plans, merges). `RouteIsOptimal` and `BoundsAreHonest` rest on the
admissibility of the landmark bounds (Dijkstra's algorithm over the graph) and compare
with walks of at most `MaxWalk` edges, which are all the walks that matter in the areas
of the run but not in every graph; `RouteIsLegal` rests on the failure links of the restriction
automaton and on chains of labels.

## 6. Known simplifications

- Between the swap and the recording of its outcome (`duckdb/selection.go:209`)
  Status can pair the new generation with the error of an earlier reload. The
  model has this window; `HealthIsHonest` speaks of the states outside it.
- `activate` reads the report twice (decode, hash). The model takes one value.
- The server model has the routing service and its watcher; that live.Close runs after
  router.Close (`cmd/server/main.go:97`, `:118`) is not in it.
- Memory, latency and the memory limits of the process are not modelled.
- Route search: heuristics are rounded down to whole seconds; the record, heuristic and page
  caches, `recordPageReuse`, the caps on restrictions, and closures of more than eight
  nodes are left out, and a settled node that improves cannot occur with costs that are not negative.
  "No permitted direction" cannot be reached through Route, only through RouteSnaps.
- Generation data: names are nonempty after normalization (`importer/streaming.go:841`
  refuses others); the checksums in a manifest are not modelled, and bounded verification
  only where the older path joins it.

## 7. Plan

1. `Publications`: the directory protocols of prepared routing data
   (`prepared_turns.go:97`, `reverse_support.go:130`, `landmarks.go:172-304`,
   `landmark_extension.go:244`) with crashes and two publishers, against one abstract
   "publish once" specification that `GenerationBuild` also implements.
2. `Acquisition`: `Fetch`, download, partial files and receipts with crashes,
   retries and a provider that changes generation (`acquire.go:486-646`).
3. `Supervisor`: `Run` with its process group (`run.go:141`, `:176`); `PageCache`
   (`pages.go:66-134`).
4. Proofs: every safety property but those of the generation's data and of route search is
   proved. These need their recursive operators (partition plans, failure links, walks)
   as functions or in closed form first, as was done for the sorts of `LookupSearch`.

## 8. Not modelled

Spherical geometry, projection onto polylines and floating-point costs (integers on a
line stand for them), tile decoding and the page cache (bytes and aliasing), text
normalization and BM25, Details, Reverse and structured geocoding (reads of immutable
data), provider importers and exporters (sequential transforms), acquisition and the
supervisor (planned), request parsing and response formatting (strings), benchmark
alternatives and measuring tools (not part of the served system), the browser client.
`PROJECT.json` gives the reason for each.
