----------------------------- MODULE PreparedSink -----------------------------
(***************************************************************************)
(* PrepareStreaming and asyncPreparedSink of internal/importer/streaming.go:*)
(* one phase per input, in which readers decode the input's assets, collect *)
(* records and rejections in shared batches and stage rows for the joins;   *)
(* then the joins over the staged rows; and writers that take the batches   *)
(* from a bounded queue.  Any source row, staged append, query or write can *)
(* fail, and the caller can cancel at any moment.                           *)
(*                                                                         *)
(* A row is a position in an asset.  What becomes of it is its shape: the   *)
(* output it yields when it is read (none for a division), the table it is  *)
(* staged in, and the outputs it yields in the joins.  The two mutexes      *)
(* (outputMu and auxStager.mu) are held for one append each, so a section   *)
(* under them is part of one action.                                        *)
(***************************************************************************)
EXTENDS Naturals, Sequences, FiniteSets

CONSTANTS
  Inputs,     \* Manifest.Inputs: per input the sequence of its assets
  Content,    \* per asset the sequence of the shapes of its rows
  Readers,    \* Streaming.SourceWorkers
  Writers,    \* min(SourceWorkers, DatabaseThreads)
  BatchRows,  \* Streaming.BatchRows
  MAIN        \* the goroutine that called PrepareStreaming

Outputs == {"records", "relationships", "rejections"}
Tables == {"none", "divisions", "link_addresses", "link_businesses"}
Shapes == [direct : SUBSET {"records", "rejections"}, table : Tables,
           joined : SUBSET Outputs]

Assets == DOMAIN Content
Rows == UNION {{<<a, i>> : i \in DOMAIN Content[a]} : a \in Assets}
Shape(row) == Content[row[1]][row[2]]
DirectItems(row) == {<<output, row>> : output \in Shape(row).direct}
JoinedItems(row) == {<<output, row>> : output \in Shape(row).joined}
Items == Outputs \X Rows

\* What a complete preparation hands to the sink.
AllItems == UNION {DirectItems(row) \cup JoinedItems(row) : row \in Rows}

Procs == Readers \cup {MAIN}
Capacity == IF Cardinality(Writers) > 1 THEN 2 * Cardinality(Writers) ELSE 2

ASSUME ProcsAssumption ==
  /\ MAIN \notin Readers
  /\ IsFiniteSet(Readers) /\ Readers # {}
  /\ IsFiniteSet(Writers) /\ Writers # {}

ASSUME BatchAssumption == BatchRows \in Nat \ {0}

\* Every asset belongs to one input, and an input has assets.
ASSUME InputsAssumption ==
  /\ Inputs \in Seq(Seq(Assets)) /\ Inputs # <<>>
  /\ \A k \in DOMAIN Inputs : Inputs[k] # <<>>
  /\ \A a \in Assets : \E k \in DOMAIN Inputs : \E j \in DOMAIN Inputs[k] : Inputs[k][j] = a
  /\ \A k, l \in DOMAIN Inputs : \A i \in DOMAIN Inputs[k], j \in DOMAIN Inputs[l] :
       Inputs[k][i] = Inputs[l][j] => k = l /\ i = j

\* A row yields one output at most when it is read, and in the joins only what
\* its table gives: an address link yields relationships, a division anything.
ASSUME ContentAssumption ==
  /\ Content \in [Assets -> Seq(Shapes)]
  /\ IsFiniteSet(Rows)
  /\ \A row \in Rows :
       /\ Cardinality(Shape(row).direct) <= 1
       /\ Shape(row).table = "none" => Shape(row).joined = {}
       /\ Shape(row).table = "divisions" => Shape(row).direct = {}
       /\ Shape(row).table \in {"link_addresses", "link_businesses"} =>
            Shape(row).joined \subseteq {"relationships"}

VARIABLES
  ctxDone,         \* the caller's context is cancelled
  phaseCancelled,  \* cancelPhase was called
  firstErr,        \* firstErr of the phase is set
  failed,          \* PrepareStreaming is returning an error
  main,            \* where the main goroutine is
  input, next,     \* the phase, and the next asset to send
  reader,          \* per reader: where it is
  asset, row,      \* per reader: the asset it reads, the next row of it
  pending,         \* records and rejections collected under outputMu
  auxRows,         \* rows in auxStager's three buffers
  auxBatch,        \* per reader: rows it took from a buffer to append
  table,           \* rows in the preparation database
  joinLeft,        \* rows of the running join still to emit
  joinBuf,         \* what the join has collected
  toSubmit,        \* per producer: the batches it is submitting, in order
  queue, closed,   \* asyncPreparedSink.queue
  cancelled,       \* asyncPreparedSink.cancel was called
  sinkErr,         \* asyncPreparedSink.err is set
  writer, writing, \* per writer: where it is, the batch it writes
  written,         \* what the sink has
  result           \* what PrepareStreaming returned

phaseVars == <<phaseCancelled, firstErr>>
control == <<main, input, next, failed>>
readerVars == <<reader, asset, row>>
auxVars == <<auxRows, auxBatch, table>>
joinVars == <<joinLeft, joinBuf>>
queueVars == <<queue, closed>>
sinkVars == <<cancelled, sinkErr, writer, writing, written>>
vars == <<ctxDone, phaseVars, control, readerVars, pending, auxVars, joinVars, toSubmit,
          queueVars, sinkVars, result>>

Init ==
  /\ ctxDone = FALSE /\ phaseCancelled = FALSE /\ firstErr = FALSE /\ failed = FALSE
  /\ main = "open" /\ input = 1 /\ next = 1
  /\ reader = [r \in Readers |-> "gone"]
  /\ asset = [r \in Readers |-> Inputs[1][1]] /\ row = [r \in Readers |-> 1]
  /\ pending = {} /\ auxRows = {} /\ auxBatch = [r \in Readers |-> {}] /\ table = {}
  /\ joinLeft = {} /\ joinBuf = {}
  /\ toSubmit = [p \in Procs |-> <<>>]
  /\ queue = <<>> /\ closed = FALSE
  /\ cancelled = FALSE /\ sinkErr = FALSE
  /\ writer = [w \in Writers |-> "idle"] /\ writing = [w \in Writers |-> {}]
  /\ written = {} /\ result = "none"

-----------------------------------------------------------------------------
(* Batches.                                                                *)

Of(output, items) == {item \in items : item[1] = output}

\* len(batch) == BatchRows.
Full(rows) == Cardinality(rows) = BatchRows

\* Mutant: a batch is taken and its rows stay in the buffer.
RestKept(buffer, batch) == buffer

\* What a buffer holds once a batch was taken from it.
Rest(buffer, batch) == buffer \ batch

\* An empty batch is not submitted.
Batch(items) == IF items = {} THEN <<>> ELSE <<items>>

\* The order of emitDivisions' flush.
Batches(items) ==
  Batch(Of("records", items)) \o Batch(Of("relationships", items))
    \o Batch(Of("rejections", items))

SinkDone == ctxDone \/ cancelled
PhaseDone == ctxDone \/ phaseCancelled

-----------------------------------------------------------------------------
(* Failures: a reader's ends the phase, main's ends the preparation.       *)

\* Mutant: the failure is noted but the phase is not cancelled.
FailWithoutCancel(r) ==
  /\ firstErr' = TRUE
  /\ reader' = [reader EXCEPT ![r] = "gone"]
  /\ UNCHANGED <<phaseCancelled, asset, row>>

\* fail(workerErr), and the reader returns.
Fail(r) ==
  /\ firstErr' = TRUE
  /\ phaseCancelled' = TRUE
  /\ reader' = [reader EXCEPT ![r] = "gone"]
  /\ UNCHANGED <<asset, row>>

\* An early return: the deferred Close is what is left to do.
GiveUp == main' = "close" /\ failed' = TRUE /\ UNCHANGED <<input, next>>

Cancel ==
  /\ ~ctxDone /\ result = "none"
  /\ ctxDone' = TRUE
  /\ UNCHANGED <<phaseVars, control, readerVars, pending, auxVars, joinVars, toSubmit,
                 queueVars, sinkVars, result>>

-----------------------------------------------------------------------------
(* submit: send, unless the workers are gone or the context is done.       *)

SubmitBatch(p) ==
  /\ toSubmit[p] # <<>>
  /\ Len(queue) < Capacity
  /\ queue' = Append(queue, Head(toSubmit[p]))
  /\ toSubmit' = [toSubmit EXCEPT ![p] = Tail(@)]
  /\ UNCHANGED <<ctxDone, phaseVars, control, readerVars, pending, auxVars, joinVars,
                 closed, sinkVars, result>>

FailSubmit(p) ==
  /\ toSubmit[p] # <<>>
  /\ SinkDone \/ \A w \in Writers : writer[w] = "gone"
  /\ toSubmit' = [toSubmit EXCEPT ![p] = <<>>]
  /\ IF p = MAIN THEN GiveUp /\ UNCHANGED <<phaseVars, readerVars>>
                 ELSE Fail(p) /\ UNCHANGED control
  /\ UNCHANGED <<ctxDone, pending, auxVars, joinVars, queueVars, sinkVars, result>>

-----------------------------------------------------------------------------
(* A reader: processAsset for each asset it receives.                      *)

\* The rendezvous on jobs.
SendAsset(r) ==
  /\ main = "send" /\ next <= Len(Inputs[input])
  /\ reader[r] = "idle"
  /\ reader' = [reader EXCEPT ![r] = "read"]
  /\ asset' = [asset EXCEPT ![r] = Inputs[input][next]]
  /\ row' = [row EXCEPT ![r] = 1]
  /\ next' = next + 1
  /\ UNCHANGED <<ctxDone, phaseVars, main, input, failed, pending, auxVars, joinVars,
                 toSubmit, queueVars, sinkVars, result>>

Reading(r) == reader[r] = "read" /\ toSubmit[r] = <<>>
Current(r) == <<asset[r], row[r]>>
HasRow(r) == row[r] \in DOMAIN Content[asset[r]]

\* streamFeature up to addRecord or addRejection: a division does neither.
AddRow(r) ==
  /\ Reading(r) /\ HasRow(r)
  /\ LET items == DirectItems(Current(r))
         added == pending \cup items
         full == UNION {Of(item[1], added) : item \in items}
     IN IF Full(full)
        THEN pending' = Rest(added, full) /\ toSubmit' = [toSubmit EXCEPT ![r] = <<full>>]
        ELSE pending' = added /\ UNCHANGED toSubmit
  /\ IF Shape(Current(r)).table = "none"
     THEN row' = [row EXCEPT ![r] = @ + 1] /\ UNCHANGED reader
     ELSE reader' = [reader EXCEPT ![r] = "stage"] /\ UNCHANGED row
  /\ UNCHANGED <<ctxDone, phaseVars, control, asset, auxVars, joinVars, queueVars,
                 sinkVars, result>>

\* addDivision, addAddress or addBusiness.
StageRow(r) ==
  /\ reader[r] = "stage" /\ toSubmit[r] = <<>>
  /\ LET added == auxRows \cup {Current(r)}
         full == {staged \in added : Shape(staged).table = Shape(Current(r)).table}
     IN IF Full(full)
        THEN auxRows' = Rest(added, full) /\ auxBatch' = [auxBatch EXCEPT ![r] = full]
        ELSE auxRows' = added /\ UNCHANGED auxBatch
  /\ reader' = [reader EXCEPT ![r] = "append"]
  /\ row' = [row EXCEPT ![r] = @ + 1]
  /\ UNCHANGED <<ctxDone, phaseVars, control, asset, pending, table, joinVars, toSubmit,
                 queueVars, sinkVars, result>>

\* appendAuxBatch: nothing to do for an empty batch, all rows or an error otherwise.
AppendRows(r) ==
  /\ reader[r] = "append"
  /\ auxBatch[r] = {} \/ ~ctxDone
  /\ table' = table \cup auxBatch[r]
  /\ auxBatch' = [auxBatch EXCEPT ![r] = {}]
  /\ reader' = [reader EXCEPT ![r] = "read"]
  /\ UNCHANGED <<ctxDone, phaseVars, control, asset, row, pending, auxRows, joinVars,
                 toSubmit, queueVars, sinkVars, result>>

\* A file that does not open, a read or row that fails, a phase that is over
\* (seen between reads of 128 rows), or a batch that cannot be staged.
FailAsset(r) ==
  /\ Reading(r) \/ (reader[r] = "append" /\ auxBatch[r] # {})
  /\ auxBatch' = [auxBatch EXCEPT ![r] = {}]
  /\ Fail(r)
  /\ UNCHANGED <<ctxDone, control, pending, auxRows, table, joinVars, toSubmit, queueVars,
                 sinkVars, result>>

FinishAsset(r) ==
  /\ Reading(r) /\ ~HasRow(r)
  /\ reader' = [reader EXCEPT ![r] = "idle"]
  /\ UNCHANGED <<ctxDone, phaseVars, control, asset, row, pending, auxVars, joinVars,
                 toSubmit, queueVars, sinkVars, result>>

\* jobs is closed.
LeavePhase(r) ==
  /\ reader[r] = "idle" /\ main = "join"
  /\ reader' = [reader EXCEPT ![r] = "gone"]
  /\ UNCHANGED <<ctxDone, phaseVars, control, asset, row, pending, auxVars, joinVars,
                 toSubmit, queueVars, sinkVars, result>>

-----------------------------------------------------------------------------
(* The main goroutine.                                                     *)

\* A phase starts: the assets are opened under a fresh phaseCtx, and
\* min(SourceWorkers, len(assets)) readers start.
OpenPhase ==
  /\ main = "open" /\ ~ctxDone
  /\ \E S \in SUBSET Readers :
       /\ \/ S = Readers /\ Cardinality(Readers) <= Len(Inputs[input])
          \/ Cardinality(S) = Len(Inputs[input]) /\ Cardinality(S) < Cardinality(Readers)
       /\ reader' = [r \in Readers |-> IF r \in S THEN "idle" ELSE "gone"]
  /\ phaseCancelled' = FALSE /\ firstErr' = FALSE
  /\ next' = 1 /\ main' = "send"
  /\ UNCHANGED <<ctxDone, input, failed, asset, row, pending, auxVars, joinVars, toSubmit,
                 queueVars, sinkVars, result>>

\* A checksum, an asset or the preparation database is not as expected.
FailOpen ==
  /\ main = "open"
  /\ GiveUp
  /\ UNCHANGED <<ctxDone, phaseVars, readerVars, pending, auxVars, joinVars, toSubmit,
                 queueVars, sinkVars, result>>

\* close(jobs), after the last asset or when phaseCtx is done.
StopSending ==
  /\ main = "send"
  /\ next > Len(Inputs[input]) \/ PhaseDone
  /\ main' = "join"
  /\ UNCHANGED <<ctxDone, phaseVars, input, next, failed, readerVars, pending, auxVars,
                 joinVars, toSubmit, queueVars, sinkVars, result>>

\* Mutant: an error is returned without waiting for the readers.
EndPhaseAtOnce ==
  /\ main = "join"
  /\ firstErr \/ \A r \in Readers : reader[r] = "gone"
  /\ IF firstErr THEN GiveUp
     ELSE /\ main' = IF input < Len(Inputs) THEN "open" ELSE "flush"
          /\ input' = IF input < Len(Inputs) THEN input + 1 ELSE input
          /\ UNCHANGED <<next, failed>>
  /\ UNCHANGED <<ctxDone, phaseVars, readerVars, pending, auxVars, joinVars, toSubmit,
                 queueVars, sinkVars, result>>

\* work.Wait, and firstErr after it.
EndPhase ==
  /\ main = "join"
  /\ \A r \in Readers : reader[r] = "gone"
  /\ IF firstErr THEN GiveUp
     ELSE /\ main' = IF input < Len(Inputs) THEN "open" ELSE "flush"
          /\ input' = IF input < Len(Inputs) THEN input + 1 ELSE input
          /\ UNCHANGED <<next, failed>>
  /\ UNCHANGED <<ctxDone, phaseVars, readerVars, pending, auxVars, joinVars, toSubmit,
                 queueVars, sinkVars, result>>

\* aux.flush: the three partly filled buffers.
FlushRows ==
  /\ main = "flush"
  /\ auxRows = {} \/ ~ctxDone
  /\ table' = table \cup auxRows
  /\ auxRows' = {}
  /\ main' = "divisions"
  /\ UNCHANGED <<ctxDone, phaseVars, input, next, failed, readerVars, pending, auxBatch,
                 joinVars, toSubmit, queueVars, sinkVars, result>>

\* The two joins, in order: what each reads and what comes after it.
JoinOf(stage) == IF stage = "divisions" THEN {"divisions"}
                 ELSE {"link_addresses", "link_businesses"}
AfterJoin(stage) == IF stage = "emit divisions" THEN "links" ELSE "pending"

\* The query of emitDivisions or emitAddressLinks.
QueryJoin ==
  /\ main \in {"divisions", "links"} /\ toSubmit[MAIN] = <<>> /\ ~ctxDone
  /\ joinLeft' = {staged \in table : Shape(staged).table \in JoinOf(main)}
  /\ main' = IF main = "divisions" THEN "emit divisions" ELSE "emit links"
  /\ UNCHANGED <<ctxDone, phaseVars, input, next, failed, readerVars, pending, auxVars,
                 joinBuf, toSubmit, queueVars, sinkVars, result>>

Emitting == main \in {"emit divisions", "emit links"} /\ toSubmit[MAIN] = <<>>

\* One row of the result; a full batch flushes all three.
EmitRow ==
  /\ Emitting
  /\ \E staged \in joinLeft :
       LET added == joinBuf \cup JoinedItems(staged) IN
       /\ joinLeft' = joinLeft \ {staged}
       /\ IF \E output \in Outputs : Full(Of(output, added))
          THEN joinBuf' = Rest(added, added) /\ toSubmit' = [toSubmit EXCEPT ![MAIN] = Batches(added)]
          ELSE joinBuf' = added /\ UNCHANGED toSubmit
  /\ UNCHANGED <<ctxDone, phaseVars, control, readerVars, pending, auxVars, queueVars,
                 sinkVars, result>>

\* The last flush of a join.
EndJoin ==
  /\ Emitting /\ joinLeft = {}
  /\ joinBuf' = Rest(joinBuf, joinBuf)
  /\ toSubmit' = [toSubmit EXCEPT ![MAIN] = Batches(joinBuf)]
  /\ main' = AfterJoin(main)
  /\ UNCHANGED <<ctxDone, phaseVars, input, next, failed, readerVars, pending, auxVars,
                 joinLeft, queueVars, sinkVars, result>>

\* flushRecords and flushRejections.
FlushPending ==
  /\ main = "pending" /\ toSubmit[MAIN] = <<>>
  /\ toSubmit' = [toSubmit EXCEPT ![MAIN] = Batches(pending)]
  /\ pending' = {}
  /\ main' = "close"
  /\ UNCHANGED <<ctxDone, phaseVars, input, next, failed, readerVars, auxVars, joinVars,
                 queueVars, sinkVars, result>>

\* An append of the last rows, a query or a row of its result fails.
FailJoin ==
  /\ \/ main = "flush" /\ auxRows # {}
     \/ main \in {"divisions", "links", "emit divisions", "emit links"}
        /\ toSubmit[MAIN] = <<>>
  /\ GiveUp
  /\ UNCHANGED <<ctxDone, phaseVars, readerVars, pending, auxVars, joinVars, toSubmit,
                 queueVars, sinkVars, result>>

\* asyncPreparedSink.Close, called at the end or deferred.
CloseQueue ==
  /\ main = "close" /\ toSubmit[MAIN] = <<>>
  /\ closed' = TRUE
  /\ main' = "wait"
  /\ UNCHANGED <<ctxDone, phaseVars, input, next, failed, readerVars, pending, auxVars,
                 joinVars, toSubmit, queue, sinkVars, result>>

\* Mutant: the caller's context is not looked at after Close.
ReturnCloseResult ==
  /\ main = "wait" /\ \A w \in Writers : writer[w] = "gone"
  /\ cancelled' = TRUE
  /\ main' = "returned"
  /\ result' = IF failed \/ sinkErr THEN "error" ELSE "nil"
  /\ UNCHANGED <<ctxDone, phaseVars, input, next, failed, readerVars, pending, auxVars,
                 joinVars, toSubmit, queueVars, sinkErr, writer, writing, written>>

\* Close returns once done is closed; then `return audit, ctx.Err()`.
Return ==
  /\ main = "wait" /\ \A w \in Writers : writer[w] = "gone"
  /\ cancelled' = TRUE
  /\ main' = "returned"
  /\ result' = IF failed \/ sinkErr \/ ctxDone THEN "error" ELSE "nil"
  /\ UNCHANGED <<ctxDone, phaseVars, input, next, failed, readerVars, pending, auxVars,
                 joinVars, toSubmit, queueVars, sinkErr, writer, writing, written>>

-----------------------------------------------------------------------------
(* A writer: asyncPreparedSink.run.                                        *)

\* A batch received after cancellation is dropped.
TakeBatch(w) ==
  /\ writer[w] = "idle" /\ queue # <<>>
  /\ queue' = Tail(queue)
  /\ IF SinkDone
     THEN writer' = [writer EXCEPT ![w] = "gone"] /\ UNCHANGED writing
     ELSE /\ writer' = [writer EXCEPT ![w] = "writing"]
          /\ writing' = [writing EXCEPT ![w] = Head(queue)]
  /\ UNCHANGED <<ctxDone, phaseVars, control, readerVars, pending, auxVars, joinVars,
                 toSubmit, closed, cancelled, sinkErr, written, result>>

\* WriteRecords, WriteRelationships or WriteRejections of the DuckDB sink.
Write(w) ==
  /\ writer[w] = "writing"
  /\ written' = written \cup writing[w]
  /\ writing' = [writing EXCEPT ![w] = {}]
  /\ writer' = [writer EXCEPT ![w] = "idle"]
  /\ UNCHANGED <<ctxDone, phaseVars, control, readerVars, pending, auxVars, joinVars,
                 toSubmit, queueVars, cancelled, sinkErr, result>>

\* The first error is kept and cancels; the writer is gone either way.
FailWrite(w) ==
  /\ writer[w] = "writing"
  /\ sinkErr' = TRUE
  /\ cancelled' = TRUE
  /\ writing' = [writing EXCEPT ![w] = {}]
  /\ writer' = [writer EXCEPT ![w] = "gone"]
  /\ UNCHANGED <<ctxDone, phaseVars, control, readerVars, pending, auxVars, joinVars,
                 toSubmit, queueVars, written, result>>

\* The queue is closed and drained.
LeaveQueue(w) ==
  /\ writer[w] = "idle" /\ queue = <<>> /\ closed
  /\ writer' = [writer EXCEPT ![w] = "gone"]
  /\ UNCHANGED <<ctxDone, phaseVars, control, readerVars, pending, auxVars, joinVars,
                 toSubmit, queueVars, cancelled, sinkErr, writing, written, result>>

-----------------------------------------------------------------------------
ReaderStep(r) ==
  \/ SendAsset(r) \/ AddRow(r) \/ StageRow(r) \/ AppendRows(r) \/ FailAsset(r)
  \/ FinishAsset(r) \/ LeavePhase(r)

SubmitStep(p) == SubmitBatch(p) \/ FailSubmit(p)

MainStep ==
  \/ OpenPhase \/ FailOpen \/ StopSending \/ EndPhase \/ FlushRows \/ QueryJoin
  \/ EmitRow \/ EndJoin \/ FlushPending \/ FailJoin \/ CloseQueue \/ Return

WriterStep(w) == TakeBatch(w) \/ Write(w) \/ FailWrite(w) \/ LeaveQueue(w)

Returned == main = "returned" /\ UNCHANGED vars

Next ==
  \/ Cancel
  \/ \E r \in Readers : ReaderStep(r)
  \/ \E p \in Procs : SubmitStep(p)
  \/ MainStep
  \/ \E w \in Writers : WriterStep(w)
  \/ Returned

Spec == Init /\ [][Next]_vars

\* Reads, appends, queries and writes return; a goroutine that can go on does.
Fairness ==
  /\ \A r \in Readers : WF_vars(ReaderStep(r))
  /\ \A p \in Procs : WF_vars(SubmitStep(p))
  /\ WF_vars(MainStep)
  /\ \A w \in Writers : WF_vars(WriterStep(w))

LiveSpec == Spec /\ Fairness

-----------------------------------------------------------------------------
(* Type invariant.                                                         *)

TypeOK ==
  /\ {ctxDone, phaseCancelled, firstErr, failed, closed, cancelled, sinkErr} \subseteq BOOLEAN
  /\ main \in {"open", "send", "join", "flush", "divisions", "emit divisions", "links",
               "emit links", "pending", "close", "wait", "returned"}
  /\ input \in DOMAIN Inputs /\ next \in Nat /\ next > 0
  /\ reader \in [Readers -> {"gone", "idle", "read", "stage", "append"}]
  /\ asset \in [Readers -> Assets] /\ row \in [Readers -> Nat]
  /\ pending \subseteq Items /\ auxRows \subseteq Rows /\ table \subseteq Rows
  /\ auxBatch \in [Readers -> SUBSET Rows]
  /\ joinLeft \subseteq Rows /\ joinBuf \subseteq Items
  /\ toSubmit \in [Procs -> Seq(SUBSET Items)]
  /\ queue \in Seq(SUBSET Items) /\ Len(queue) <= Capacity
  /\ writer \in [Writers -> {"idle", "writing", "gone"}]
  /\ writing \in [Writers -> SUBSET Items]
  /\ written \subseteq Items
  /\ result \in {"none", "nil", "error"}

-----------------------------------------------------------------------------
(* Safety.                                                                 *)

\* PrepareStreaming returns nil only if every row's outputs, those read and
\* those joined, are written: a batch dropped by a cancelled writer, a failed
\* write or a row never read makes it an error.
SuccessIsComplete == result = "nil" => written = AllItems

\* The batches in flight, by where they are.
Batched ==
  [place \in ({"queue"} \X DOMAIN queue) \cup ({"writer"} \X Writers)
               \cup ({"submit"} \X UNION {{p} \X DOMAIN toSubmit[p] : p \in Procs}) |->
     CASE place[1] = "queue" -> queue[place[2]]
       [] place[1] = "writer" -> writing[place[2]]
       [] place[1] = "submit" -> toSubmit[place[2][1]][place[2][2]]]

\* An output is in one place: two readers never take the same row of a shared
\* batch, a flushed batch is not flushed again, nothing is written twice.
ItemsInOnePlace ==
  /\ \A q1, q2 \in DOMAIN Batched : q1 # q2 => Batched[q1] \cap Batched[q2] = {}
  /\ \A q \in DOMAIN Batched : Batched[q] \cap (pending \cup joinBuf \cup written) = {}
  /\ pending \cap joinBuf = {} /\ written \cap (pending \cup joinBuf) = {}

\* Nobody sends on the closed queue or uses the database that is being closed,
\* and no goroutine outlives the call.
NothingOutlivesPrepare ==
  /\ closed => /\ \A r \in Readers : reader[r] = "gone"
               /\ \A p \in Procs : toSubmit[p] = <<>>
  /\ main \in {"close", "wait", "returned"} => \A r \in Readers : reader[r] = "gone"
  /\ result # "none" => \A w \in Writers : writer[w] = "gone"

-----------------------------------------------------------------------------
(* Liveness.                                                               *)

\* PrepareStreaming returns, whatever fails, whoever cancels, and however many
\* batches wait behind a full queue.
AlwaysReturns == <>(result # "none")
===============================================================================
