-------------------------- MODULE PreparedSinkProofs --------------------------
(***************************************************************************)
(* Proofs about PreparedSink for every manifest, content, number of readers *)
(* and writers, and batch size.                                             *)
(*                                                                         *)
(* That nobody sends on the closed queue is not inductive: it follows from  *)
(* where the main goroutine is.  Main submits only after the last phase,    *)
(* readers run only while main sends assets or waits for them, and the      *)
(* queue is closed after both.  ControlInv says so.                         *)
(*                                                                         *)
(* That a preparation which returns nil has written everything is a        *)
(* conservation argument.  Unless something went wrong (Trouble), what a    *)
(* row yields is Held somewhere from the moment the row is read (DirectInv) *)
(* or joined (JoinInv), and a row to join is staged somewhere from the      *)
(* moment a reader passes it (StagedInv).  What is held moves towards the   *)
(* sink only, and at the end the sink is all there is.                      *)
(*                                                                         *)
(* That nothing is written twice needs the same in the other direction:     *)
(* what a row yields is nowhere before the row is read (UnreadInv) or       *)
(* joined (UnjoinedInv), for no two readers read one asset (ReadingInv) and *)
(* no two rows yield the same (ItemsDiffer).  So what is added to a place   *)
(* is new, and a step moves batches whole from place to place (PlaceInv).   *)
(***************************************************************************)
EXTENDS PreparedSink, FiniteSetTheorems, TLAPS

\* Which goroutines can be active at each stop of main.
ControlInv ==
  /\ main \notin {"send", "join"} => \A r \in Readers : reader[r] = "gone"
  /\ \A r \in Readers : reader[r] \notin {"read", "stage"} => toSubmit[r] = <<>>
  /\ main \in {"open", "send", "join", "flush", "divisions", "wait", "returned"} =>
       toSubmit[MAIN] = <<>>
  /\ closed => main \in {"wait", "returned"}
  /\ result # "none" => main = "returned"
  /\ main = "returned" => \A w \in Writers : writer[w] = "gone"

\* A row that waits to be staged is a row of the source.
StageInv == \A r \in Readers : reader[r] = "stage" => HasRow(r)

IInv == TypeOK /\ StageInv /\ ControlInv

-----------------------------------------------------------------------------
(* Types.                                                                  *)

\* What the provers need to know of sequences.
LEMMA SeqFacts ==
  ASSUME NEW S, NEW s \in Seq(S)
  PROVE  /\ Len(s) \in Nat /\ DOMAIN s = 1..Len(s)
         /\ <<>> \in Seq(S) /\ Len(<<>>) = 0
         /\ \A x \in S : <<x>> \in Seq(S)
         /\ \A x \in S : Append(s, x) \in Seq(S) /\ Len(Append(s, x)) = Len(s) + 1
         /\ s # <<>> => /\ 1 \in DOMAIN s
                        /\ Head(s) \in S /\ Tail(s) \in Seq(S)
                        /\ Len(Tail(s)) = Len(s) - 1
OBVIOUS

\* The row a reader is at is a row of the source.
LEMMA CurrentIsRow ==
  ASSUME TypeOK, NEW r \in Readers, HasRow(r)
  PROVE  Current(r) \in Rows
<1>1. asset[r] \in Assets
  BY DEF TypeOK
<1>2. Current(r) \in {<<asset[r], i>> : i \in DOMAIN Content[asset[r]]}
  BY DEF HasRow, Current
<1>3. QED
  BY <1>1, <1>2 DEF Rows

\* What a row yields is an item.
LEMMA RowsYieldItems ==
  ASSUME NEW source \in Rows
  PROVE  /\ DirectItems(source) \subseteq Items
         /\ JoinedItems(source) \subseteq Items
<1>1. PICK a \in Assets : \E i \in DOMAIN Content[a] : source = <<a, i>>
  BY DEF Rows
<1>2. PICK i \in DOMAIN Content[a] : source = <<a, i>>
  BY <1>1
<1>3. Content[a] \in Seq(Shapes)
  BY ContentAssumption
<1>4. Content[a][i] \in Shapes
  BY <1>2, <1>3
<1>5. Shape(source) = Content[a][i]
  BY <1>2 DEF Shape
<1>6. /\ Shape(source).direct \subseteq {"records", "rejections"}
      /\ Shape(source).joined \subseteq Outputs
  BY <1>4, <1>5 DEF Shapes
<1>7. QED
  BY <1>6 DEF DirectItems, JoinedItems, Items, Outputs

\* Batches of items are sequences of sets of items.
LEMMA BatchesType ==
  ASSUME NEW items \in SUBSET Items
  PROVE  Batches(items) \in Seq(SUBSET Items)
<1>1. ASSUME NEW part \in SUBSET Items
      PROVE  Batch(part) \in Seq(SUBSET Items)
  <2>1. CASE part = {}
    BY <2>1 DEF Batch
  <2>2. CASE part # {}
    <3>1. <<part>> \in Seq(SUBSET Items)
      OBVIOUS
    <3>2. QED
      BY <2>2, <3>1 DEF Batch
  <2>3. QED
    BY <2>1, <2>2
<1>2. \A output : Of(output, items) \in SUBSET Items
  BY DEF Of
<1>3. QED
  BY <1>1, <1>2 DEF Batches

\* Every asset an input names is an asset.
LEMMA InputsAreAssets ==
  ASSUME NEW k \in DOMAIN Inputs, NEW j \in DOMAIN Inputs[k]
  PROVE  Inputs[k][j] \in Assets
<1>1. Inputs[k] \in Seq(Assets)
  BY InputsAssumption
<1>2. QED
  BY <1>1

\* The shape of the manifest's inputs.
LEMMA InputsFacts ==
  /\ Len(Inputs) \in Nat /\ DOMAIN Inputs = 1..Len(Inputs)
  /\ \A k \in DOMAIN Inputs : Inputs[k] \in Seq(Assets) /\ Inputs[k] # <<>>
<1>1. Inputs \in Seq(Seq(Assets))
  BY InputsAssumption
<1>2. QED
  BY <1>1, InputsAssumption, SeqFacts

\* The queue has room for a positive number of batches.
LEMMA CapacityType == Capacity \in Nat /\ Capacity > 0
BY ProcsAssumption, FS_CardinalityType DEF Capacity

\* The initial state has the types.
LEMMA InitType == Init => TypeOK
<1> SUFFICES ASSUME Init PROVE TypeOK
  OBVIOUS
<1>1. 1 \in DOMAIN Inputs /\ 1 \in DOMAIN Inputs[1]
  <2>1. Inputs \in Seq(Seq(Assets)) /\ Inputs # <<>>
    BY InputsAssumption
  <2>2. 1 \in DOMAIN Inputs
    BY <2>1
  <2>3. Inputs[1] \in Seq(Assets) /\ Inputs[1] # <<>>
    BY <2>1, <2>2, InputsAssumption
  <2>4. QED
    BY <2>2, <2>3, SeqFacts
<1>2. Inputs[1][1] \in Assets
  BY <1>1, InputsAreAssets
<1>3. <<>> \in Seq(SUBSET Items) /\ Len(<<>>) <= Capacity
  BY CapacityType
<1>4. /\ toSubmit \in [Procs -> Seq(SUBSET Items)]
      /\ queue \in Seq(SUBSET Items) /\ Len(queue) <= Capacity
  BY <1>3 DEF Init
<1>5. QED
  <2>1. /\ asset \in [Readers -> Assets]
        /\ {ctxDone, phaseCancelled, firstErr, failed, closed, cancelled, sinkErr}
             \subseteq BOOLEAN
    BY <1>2 DEF Init
  <2>2. QED
    BY <1>1, <1>4, <2>1 DEF Init, TypeOK

\* Every step keeps the types.
LEMMA NextType == TypeOK /\ StageInv /\ [Next]_vars => TypeOK'
<1> SUFFICES ASSUME TypeOK, StageInv, [Next]_vars PROVE TypeOK'
  OBVIOUS
<1>1. CASE Cancel
  BY <1>1 DEF TypeOK, Cancel, control, phaseVars, readerVars, auxVars, joinVars, queueVars, sinkVars
<1>2. ASSUME NEW p \in Procs, SubmitBatch(p) PROVE TypeOK'
  <2>1. /\ Head(toSubmit[p]) \in SUBSET Items
        /\ Tail(toSubmit[p]) \in Seq(SUBSET Items)
    <3>1. toSubmit[p] \in Seq(SUBSET Items) /\ toSubmit[p] # <<>>
      BY <1>2 DEF TypeOK, SubmitBatch
    <3>2. QED
      BY <3>1, SeqFacts
  <2>2. toSubmit' \in [Procs -> Seq(SUBSET Items)]
    BY <1>2, <2>1 DEF TypeOK, SubmitBatch
  <2>3. queue' \in Seq(SUBSET Items) /\ Len(queue') <= Capacity
    <3>1. /\ queue \in Seq(SUBSET Items) /\ Len(queue) < Capacity
          /\ queue' = Append(queue, Head(toSubmit[p]))
      BY <1>2 DEF TypeOK, SubmitBatch
    <3>2. /\ Len(queue) \in Nat /\ queue' \in Seq(SUBSET Items)
          /\ Len(queue') = Len(queue) + 1
      BY <2>1, <3>1, SeqFacts
    <3>3. QED
      BY <3>1, <3>2, CapacityType
  <2>4. QED
    BY <1>2, <2>2, <2>3
       DEF TypeOK, SubmitBatch, control, phaseVars, readerVars, auxVars, joinVars, sinkVars
<1>3. ASSUME NEW p \in Procs, FailSubmit(p) PROVE TypeOK'
  <2>1. <<>> \in Seq(SUBSET Items)
    BY SeqFacts
  <2>2. toSubmit' \in [Procs -> Seq(SUBSET Items)]
    BY <1>3, <2>1 DEF TypeOK, FailSubmit
  <2>3. CASE p = MAIN
    BY <1>3, <2>2, <2>3
       DEF TypeOK, FailSubmit, GiveUp, phaseVars, readerVars, auxVars, joinVars, queueVars, sinkVars
  <2>4. CASE p # MAIN
    BY <1>3, <2>2, <2>4
       DEF TypeOK, FailSubmit, Fail, control, auxVars, joinVars, queueVars, sinkVars
  <2>5. QED
    BY <2>3, <2>4
<1>4. ASSUME NEW r \in Readers, ReaderStep(r) PROVE TypeOK'
  <2>1. CASE SendAsset(r)
    <3>1. Len(Inputs[input]) \in Nat /\ DOMAIN Inputs[input] = 1..Len(Inputs[input])
      <4>1. Inputs[input] \in Seq(Assets)
        BY InputsFacts DEF TypeOK
      <4>2. QED
        BY <4>1, SeqFacts
    <3>2. Inputs[input][next] \in Assets
      <4>1. input \in DOMAIN Inputs /\ next \in Nat /\ next > 0 /\ next <= Len(Inputs[input])
        BY <2>1 DEF TypeOK, SendAsset
      <4>2. next \in DOMAIN Inputs[input]
        BY <3>1, <4>1
      <4>3. QED
        BY <4>1, <4>2, InputsAreAssets
    <3>3. QED
      BY <2>1, <3>2 DEF TypeOK, SendAsset, phaseVars, auxVars, joinVars, queueVars, sinkVars
  <2>2. CASE AddRow(r)
    <3> DEFINE items == DirectItems(Current(r))
               added == pending \cup items
               full == UNION {Of(item[1], added) : item \in items}
    <3>1. items \subseteq Items
      BY <2>2, CurrentIsRow, RowsYieldItems DEF TypeOK, AddRow
    <3>2. added \subseteq Items
      BY <3>1 DEF TypeOK
    <3>3. full \subseteq added
      BY DEF TypeOK, Of
    <3>4. <<full>> \in Seq(SUBSET Items)
      <4>1. full \in SUBSET Items
        BY <3>2, <3>3
      <4>2. queue \in Seq(SUBSET Items)
        BY DEF TypeOK
      <4>3. QED
        BY <4>1, <4>2, SeqFacts
    <3>5. pending' \subseteq Items
      BY <2>2, <3>2, <3>3 DEF TypeOK, AddRow, Rest
    <3>6. toSubmit' \in [Procs -> Seq(SUBSET Items)]
      BY <2>2, <3>4 DEF TypeOK, AddRow
    <3>7. row' \in [Readers -> Nat]
      <4>1. row[r] \in Nat
        BY DEF TypeOK
      <4>2. row[r] + 1 \in Nat
        BY <4>1
      <4>3. QED
        BY <2>2, <4>2 DEF TypeOK, AddRow
    <3>8. reader' \in [Readers -> {"gone", "idle", "read", "stage", "append"}]
      BY <2>2 DEF TypeOK, AddRow
    <3>9. QED
      BY <2>2, <3>5, <3>6, <3>7, <3>8
         DEF TypeOK, AddRow, control, phaseVars, auxVars, joinVars, queueVars, sinkVars
  <2>3. CASE StageRow(r)
    <3> DEFINE added == auxRows \cup {Current(r)}
               full == {staged \in added : Shape(staged).table = Shape(Current(r)).table}
    <3>1. Current(r) \in Rows
      BY <2>3, CurrentIsRow DEF TypeOK, StageRow, StageInv
    <3>2. added \subseteq Rows /\ full \subseteq added
      BY <3>1 DEF TypeOK
    <3>3. auxRows' \subseteq Rows /\ auxBatch' \in [Readers -> SUBSET Rows]
      BY <2>3, <3>2 DEF TypeOK, StageRow, Rest
    <3>4. row' \in [Readers -> Nat]
      <4>1. row[r] \in Nat
        BY DEF TypeOK
      <4>2. row[r] + 1 \in Nat
        BY <4>1
      <4>3. QED
        BY <2>3, <4>2 DEF TypeOK, StageRow
    <3>5. reader' \in [Readers -> {"gone", "idle", "read", "stage", "append"}]
      BY <2>3 DEF TypeOK, StageRow
    <3>6. QED
      BY <2>3, <3>3, <3>4, <3>5
         DEF TypeOK, StageRow, control, phaseVars, joinVars, queueVars, sinkVars
  <2>4. CASE AppendRows(r)
    BY <2>4 DEF TypeOK, AppendRows, control, phaseVars, joinVars, queueVars, sinkVars
  <2>5. CASE FailAsset(r)
    BY <2>5 DEF TypeOK, FailAsset, Fail, control, joinVars, queueVars, sinkVars
  <2>6. CASE FinishAsset(r)
    BY <2>6 DEF TypeOK, FinishAsset, control, phaseVars, auxVars, joinVars, queueVars, sinkVars
  <2>7. CASE LeavePhase(r)
    BY <2>7 DEF TypeOK, LeavePhase, control, phaseVars, auxVars, joinVars, queueVars, sinkVars
  <2>8. QED
    BY <1>4, <2>1, <2>2, <2>3, <2>4, <2>5, <2>6, <2>7 DEF ReaderStep
<1>5. CASE OpenPhase
  <2>1. PICK S \in SUBSET Readers :
          reader' = [r \in Readers |-> IF r \in S THEN "idle" ELSE "gone"]
    BY <1>5 DEF OpenPhase
  <2>2. reader' \in [Readers -> {"gone", "idle", "read", "stage", "append"}]
    BY <2>1
  <2>3. /\ phaseCancelled' = FALSE /\ firstErr' = FALSE /\ next' = 1 /\ main' = "send"
        /\ UNCHANGED <<ctxDone, input, failed, asset, row, pending, auxVars, joinVars,
                       toSubmit, queueVars, sinkVars, result>>
    BY <1>5 DEF OpenPhase
  <2>4. next' \in Nat /\ next' > 0 /\ Len(queue') <= Capacity
    <3>1. next' = 1 /\ queue' = queue
      BY <2>3 DEF queueVars
    <3>2. Len(queue) <= Capacity
      BY DEF TypeOK
    <3>3. QED
      BY <3>1, <3>2
  <2>5. QED
    BY <2>2, <2>3, <2>4 DEF TypeOK, auxVars, joinVars, queueVars, sinkVars
<1>6. CASE FailOpen
  BY <1>6 DEF TypeOK, FailOpen, GiveUp, phaseVars, readerVars, auxVars, joinVars, queueVars, sinkVars
<1>7. CASE StopSending
  BY <1>7 DEF TypeOK, StopSending, phaseVars, readerVars, auxVars, joinVars, queueVars, sinkVars
<1>8. CASE EndPhase
  <2>1. input' \in DOMAIN Inputs
    <3>1. DOMAIN Inputs = 1..Len(Inputs) /\ Len(Inputs) \in Nat
      BY InputsFacts
    <3>2. QED
      BY <1>8, <3>1 DEF TypeOK, EndPhase, GiveUp
  <2>2. QED
    BY <1>8, <2>1
       DEF TypeOK, EndPhase, GiveUp, phaseVars, readerVars, auxVars, joinVars, queueVars, sinkVars
<1>9. CASE FlushRows
  BY <1>9 DEF TypeOK, FlushRows, phaseVars, readerVars, joinVars, queueVars, sinkVars
<1>10. CASE QueryJoin
  BY <1>10 DEF TypeOK, QueryJoin, phaseVars, readerVars, auxVars, queueVars, sinkVars
<1>11. CASE EmitRow
  <2>1. PICK staged \in joinLeft :
          LET added == joinBuf \cup JoinedItems(staged) IN
          /\ joinLeft' = joinLeft \ {staged}
          /\ IF \E output \in Outputs : Full(Of(output, added))
             THEN joinBuf' = Rest(added, added)
                  /\ toSubmit' = [toSubmit EXCEPT ![MAIN] = Batches(added)]
             ELSE joinBuf' = added /\ UNCHANGED toSubmit
    BY <1>11 DEF TypeOK, EmitRow
  <2> DEFINE added == joinBuf \cup JoinedItems(staged)
  <2>2. added \in SUBSET Items
    BY RowsYieldItems DEF TypeOK
  <2>3. Batches(added) \in Seq(SUBSET Items)
    BY <2>2, BatchesType
  <2>4. /\ joinBuf' \subseteq Items
        /\ toSubmit' \in [Procs -> Seq(SUBSET Items)]
    BY <2>1, <2>2, <2>3 DEF TypeOK, Rest
  <2>5. QED
    BY <1>11, <2>1, <2>4
       DEF TypeOK, EmitRow, control, phaseVars, readerVars, auxVars, queueVars, sinkVars
<1>12. CASE EndJoin
  <2>1. Batches(joinBuf) \in Seq(SUBSET Items)
    BY BatchesType DEF TypeOK
  <2>2. toSubmit' \in [Procs -> Seq(SUBSET Items)]
    BY <1>12, <2>1 DEF TypeOK, EndJoin
  <2>3. QED
    BY <1>12, <2>2
       DEF TypeOK, EndJoin, Rest, AfterJoin, phaseVars, readerVars, auxVars, queueVars, sinkVars
<1>13. CASE FlushPending
  <2>1. Batches(pending) \in Seq(SUBSET Items)
    BY BatchesType DEF TypeOK
  <2>2. toSubmit' \in [Procs -> Seq(SUBSET Items)]
    BY <1>13, <2>1 DEF TypeOK, FlushPending
  <2>3. QED
    BY <1>13, <2>2
       DEF TypeOK, FlushPending, phaseVars, readerVars, auxVars, joinVars, queueVars, sinkVars
<1>14. CASE FailJoin
  BY <1>14 DEF TypeOK, FailJoin, GiveUp, phaseVars, readerVars, auxVars, joinVars, queueVars, sinkVars
<1>15. CASE CloseQueue
  BY <1>15 DEF TypeOK, CloseQueue, phaseVars, readerVars, auxVars, joinVars, sinkVars
<1>16. CASE Return
  BY <1>16 DEF TypeOK, Return, phaseVars, readerVars, auxVars, joinVars, queueVars
<1>17. ASSUME NEW w \in Writers, WriterStep(w) PROVE TypeOK'
  <2>1. CASE TakeBatch(w)
    <3>1. /\ Head(queue) \in SUBSET Items
          /\ Tail(queue) \in Seq(SUBSET Items) /\ Len(Tail(queue)) <= Capacity
      <4>1. queue \in Seq(SUBSET Items) /\ queue # <<>> /\ Len(queue) <= Capacity
        BY <2>1 DEF TypeOK, TakeBatch
      <4>2. QED
        BY <4>1, SeqFacts, CapacityType
    <3>2. writing' \in [Writers -> SUBSET Items]
      BY <2>1, <3>1 DEF TypeOK, TakeBatch
    <3>3. writer' \in [Writers -> {"idle", "writing", "gone"}]
      BY <2>1 DEF TypeOK, TakeBatch
    <3>4. QED
      BY <2>1, <3>1, <3>2, <3>3
         DEF TypeOK, TakeBatch, control, phaseVars, readerVars, auxVars, joinVars
  <2>2. CASE Write(w)
    BY <2>2 DEF TypeOK, Write, control, phaseVars, readerVars, auxVars, joinVars, queueVars
  <2>3. CASE FailWrite(w)
    BY <2>3 DEF TypeOK, FailWrite, control, phaseVars, readerVars, auxVars, joinVars, queueVars
  <2>4. CASE LeaveQueue(w)
    BY <2>4 DEF TypeOK, LeaveQueue, control, phaseVars, readerVars, auxVars, joinVars, queueVars
  <2>5. QED
    BY <1>17, <2>1, <2>2, <2>3, <2>4 DEF WriterStep
<1>18. CASE UNCHANGED vars
  BY <1>18 DEF TypeOK, vars, control, phaseVars, readerVars, auxVars, joinVars, queueVars, sinkVars
<1>19. QED
  BY <1>1, <1>2, <1>3, <1>4, <1>5, <1>6, <1>7, <1>8, <1>9, <1>10, <1>11, <1>12, <1>13,
     <1>14, <1>15, <1>16, <1>17, <1>18 DEF Next, SubmitStep, MainStep, Returned

\* A reader stages the row it has just read, and moves on only after that.
LEMMA NextStage == TypeOK /\ StageInv /\ [Next]_vars => StageInv'
<1> SUFFICES ASSUME TypeOK, StageInv, [Next]_vars PROVE StageInv'
  OBVIOUS
<1> USE DEF TypeOK, StageInv, HasRow
<1>1. ASSUME NEW p \in Procs, FailSubmit(p) PROVE StageInv'
  BY <1>1 DEF FailSubmit, Fail, readerVars
<1>2. ASSUME NEW r \in Readers, ReaderStep(r) PROVE StageInv'
  <2>1. CASE SendAsset(r)
    BY <2>1 DEF SendAsset
  <2>2. CASE AddRow(r)
    <3>1. CASE Shape(Current(r)).table = "none"
      <4>1. /\ reader' = reader /\ asset' = asset
            /\ \A q \in Readers \ {r} : row'[q] = row[q]
            /\ reader[r] = "read"
        BY <2>2, <3>1 DEF AddRow, Reading
      <4>2. QED
        BY <4>1
    <3>2. CASE Shape(Current(r)).table # "none"
      <4>1. /\ row' = row /\ asset' = asset /\ HasRow(r)
            /\ \A q \in Readers \ {r} : reader'[q] = reader[q]
        BY <2>2, <3>2 DEF AddRow
      <4>2. QED
        BY <4>1
    <3>3. QED
      BY <3>1, <3>2
  <2>3. CASE StageRow(r)
    BY <2>3 DEF StageRow
  <2>4. CASE AppendRows(r)
    BY <2>4 DEF AppendRows
  <2>5. CASE FailAsset(r)
    BY <2>5 DEF FailAsset, Fail
  <2>6. CASE FinishAsset(r)
    BY <2>6 DEF FinishAsset
  <2>7. CASE LeavePhase(r)
    BY <2>7 DEF LeavePhase
  <2>8. QED
    BY <1>2, <2>1, <2>2, <2>3, <2>4, <2>5, <2>6, <2>7 DEF ReaderStep
<1>3. CASE OpenPhase
  BY <1>3 DEF OpenPhase
<1>4. CASE UNCHANGED readerVars
  BY <1>4 DEF readerVars
<1>5. QED
  <2>1. ASSUME NEW p \in Procs, SubmitBatch(p) PROVE UNCHANGED readerVars
    BY <2>1 DEF SubmitBatch
  <2>2. ASSUME NEW w \in Writers, WriterStep(w) PROVE UNCHANGED readerVars
    BY <2>2 DEF WriterStep, TakeBatch, Write, FailWrite, LeaveQueue
  <2>3. ASSUME MainStep, ~OpenPhase PROVE UNCHANGED readerVars
    BY <2>3 DEF MainStep, FailOpen, StopSending, EndPhase, FlushRows, QueryJoin, EmitRow,
                EndJoin, FlushPending, FailJoin, CloseQueue, Return
  <2>4. Cancel \/ UNCHANGED vars => UNCHANGED readerVars
    BY DEF Cancel, vars
  <2>5. QED
    BY <1>1, <1>2, <1>3, <1>4, <2>1, <2>2, <2>3, <2>4 DEF Next, SubmitStep, Returned

-----------------------------------------------------------------------------
(* Control.                                                                *)

LEMMA InitControl == Init => StageInv /\ ControlInv
BY DEF Init, StageInv, ControlInv, Procs

LEMMA NextControl == TypeOK /\ ControlInv /\ [Next]_vars => ControlInv'
<1> SUFFICES ASSUME TypeOK, ControlInv, [Next]_vars PROVE ControlInv'
  OBVIOUS
<1> USE DEF ControlInv
<1>1. toSubmit \in [Procs -> Seq(SUBSET Items)] /\ reader \in [Readers ->
        {"gone", "idle", "read", "stage", "append"}]
  BY DEF TypeOK
<1>2. MAIN \notin Readers /\ MAIN \in Procs /\ Readers \subseteq Procs
  BY ProcsAssumption DEF Procs
<1>3. writer \in [Writers -> {"idle", "writing", "gone"}]
  BY DEF TypeOK
<1>4. CASE Cancel
  BY <1>4 DEF Cancel, control, readerVars, queueVars, sinkVars
<1>5. ASSUME NEW p \in Procs, SubmitBatch(p) PROVE ControlInv'
  BY <1>1, <1>2, <1>5 DEF SubmitBatch, control, readerVars, sinkVars
<1>6. ASSUME NEW p \in Procs, FailSubmit(p) PROVE ControlInv'
  <2>1. CASE p = MAIN
    BY <1>1, <1>2, <1>6, <2>1 DEF FailSubmit, GiveUp, readerVars, queueVars, sinkVars
  <2>2. CASE p # MAIN
    <3>1. p \in Readers /\ reader[p] \in {"read", "stage"}
      BY <1>6, <2>2 DEF FailSubmit, Procs
    <3>2. QED
      BY <1>1, <1>2, <1>6, <2>2, <3>1 DEF FailSubmit, Fail, control, queueVars, sinkVars
  <2>3. QED
    BY <2>1, <2>2
<1>7. ASSUME NEW r \in Readers, ReaderStep(r) PROVE ControlInv'
  <2>1. CASE SendAsset(r)
    BY <1>1, <1>2, <2>1 DEF SendAsset, queueVars, sinkVars
  <2>2. CASE AddRow(r)
    BY <1>1, <1>2, <2>2 DEF AddRow, Reading, control, queueVars, sinkVars
  <2>3. CASE StageRow(r)
    BY <1>1, <1>2, <2>3 DEF StageRow, control, queueVars, sinkVars
  <2>4. CASE AppendRows(r)
    BY <1>1, <1>2, <2>4 DEF AppendRows, control, queueVars, sinkVars
  <2>5. CASE FailAsset(r)
    BY <1>1, <1>2, <2>5 DEF FailAsset, Fail, Reading, control, queueVars, sinkVars
  <2>6. CASE FinishAsset(r)
    BY <1>1, <1>2, <2>6 DEF FinishAsset, Reading, control, queueVars, sinkVars
  <2>7. CASE LeavePhase(r)
    BY <1>1, <1>2, <2>7 DEF LeavePhase, control, queueVars, sinkVars
  <2>8. QED
    BY <1>7, <2>1, <2>2, <2>3, <2>4, <2>5, <2>6, <2>7 DEF ReaderStep
<1>8. CASE MainStep
  <2>1. CASE OpenPhase
    BY <1>1, <1>2, <2>1 DEF OpenPhase, queueVars, sinkVars
  <2>2. CASE FailOpen
    BY <2>2 DEF FailOpen, GiveUp, readerVars, queueVars, sinkVars
  <2>3. CASE StopSending
    BY <2>3 DEF StopSending, readerVars, queueVars, sinkVars
  <2>4. CASE EndPhase
    BY <2>4 DEF EndPhase, GiveUp, readerVars, queueVars, sinkVars
  <2>5. CASE FlushRows
    BY <2>5 DEF FlushRows, readerVars, queueVars, sinkVars
  <2>6. CASE QueryJoin
    BY <2>6 DEF QueryJoin, readerVars, queueVars, sinkVars
  <2>7. CASE EmitRow
    <3>1. /\ main \in {"emit divisions", "emit links"}
          /\ \A p \in Procs \ {MAIN} : toSubmit'[p] = toSubmit[p]
          /\ UNCHANGED <<control, readerVars, queueVars, sinkVars, result>>
      BY <1>1, <2>7 DEF EmitRow, Emitting
    <3>2. QED
      BY <1>2, <3>1 DEF control, readerVars, queueVars, sinkVars
  <2>8. CASE EndJoin
    BY <1>1, <1>2, <2>8 DEF EndJoin, Emitting, AfterJoin, readerVars, queueVars, sinkVars
  <2>9. CASE FlushPending
    BY <1>1, <1>2, <2>9 DEF FlushPending, readerVars, queueVars, sinkVars
  <2>10. CASE FailJoin
    BY <2>10 DEF FailJoin, GiveUp, readerVars, queueVars, sinkVars
  <2>11. CASE CloseQueue
    BY <2>11 DEF CloseQueue, readerVars, sinkVars
  <2>12. CASE Return
    BY <2>12 DEF Return, readerVars, queueVars
  <2>13. QED
    BY <1>8, <2>1, <2>2, <2>3, <2>4, <2>5, <2>6, <2>7, <2>8, <2>9, <2>10, <2>11, <2>12
       DEF MainStep
<1>9. ASSUME NEW w \in Writers, WriterStep(w) PROVE ControlInv'
  <2>1. UNCHANGED <<control, readerVars, toSubmit, closed, result>>
    BY <1>9 DEF WriterStep, TakeBatch, Write, FailWrite, LeaveQueue, queueVars
  <2>2. writer[w] # "gone"
    BY <1>9 DEF WriterStep, TakeBatch, Write, FailWrite, LeaveQueue
  <2>3. QED
    BY <2>1, <2>2 DEF control, readerVars
<1>10. CASE UNCHANGED vars
  BY <1>10 DEF vars, control, readerVars, queueVars, sinkVars
<1>11. QED
  BY <1>4, <1>5, <1>6, <1>7, <1>8, <1>9, <1>10 DEF Next, SubmitStep, Returned

\* The inductive invariant holds.
THEOREM Invariance == Spec => []IInv
<1>1. Init => IInv
  BY InitType, InitControl DEF IInv
<1>2. IInv /\ [Next]_vars => IInv'
  BY NextType, NextStage, NextControl DEF IInv
<1>3. QED
  BY <1>1, <1>2, PTL DEF Spec

\* PreparedSink is type correct; the queue never exceeds its capacity.
THEOREM TypeCorrect == Spec => []TypeOK
<1>1. IInv => TypeOK
  BY DEF IInv
<1>2. QED
  BY <1>1, Invariance, PTL

\* Nobody sends on the closed queue, and no goroutine outlives the call.
THEOREM PrepareOwnsItsGoroutines == Spec => []NothingOutlivesPrepare
<1>1. IInv => NothingOutlivesPrepare
  BY DEF IInv, ControlInv, NothingOutlivesPrepare, Procs
<1>2. QED
  BY <1>1, Invariance, PTL

-----------------------------------------------------------------------------
(* Completeness: what is held, and where.                                  *)

\* What makes PrepareStreaming return an error.
Trouble == failed \/ firstErr \/ ctxDone \/ sinkErr

\* The items of a sequence of batches.
Parts(batches) == UNION {batches[i] : i \in DOMAIN batches}

\* The items that are collected, in flight or written.
Held ==
  pending \cup joinBuf \cup (UNION {Parts(toSubmit[p]) : p \in Procs}) \cup Parts(queue)
    \cup (UNION {writing[w] : w \in Writers}) \cup written

\* The rows that are in a buffer, on their way, or in the database.
Staged == auxRows \cup (UNION {auxBatch[r] : r \in Readers}) \cup table

ReadingStops == {"read", "stage", "append"}

\* An asset that was handed to a reader, by its place in the manifest.
Sent(k, j) ==
  \/ k < input
  \/ k = input /\ main \in {"send", "join"} /\ j < next
  \/ main \notin {"open", "send", "join"}

\* A row of a sent asset that no reader has still to read, or to stage.
RowRead(k, j, i) ==
  /\ Sent(k, j)
  /\ \A r \in Readers : reader[r] \in ReadingStops /\ asset[r] = Inputs[k][j] =>
       i < row[r] \/ (reader[r] = "stage" /\ i = row[r])

RowPassed(k, j, i) ==
  /\ Sent(k, j)
  /\ \A r \in Readers : reader[r] \in ReadingStops /\ asset[r] = Inputs[k][j] => i < row[r]

DirectInv ==
  \A k \in DOMAIN Inputs : \A j \in DOMAIN Inputs[k] : \A i \in DOMAIN Content[Inputs[k][j]] :
    RowRead(k, j, i) => DirectItems(<<Inputs[k][j], i>>) \subseteq Held

StagedInv ==
  \A k \in DOMAIN Inputs : \A j \in DOMAIN Inputs[k] : \A i \in DOMAIN Content[Inputs[k][j]] :
    RowPassed(k, j, i) =>
      Shape(<<Inputs[k][j], i>>).table = "none" \/ <<Inputs[k][j], i>> \in Staged

\* The stops of main from which a join has run, or is running.
JoinStops(stage) ==
  IF stage = "divisions"
  THEN {"emit divisions", "links", "emit links", "pending", "close", "wait", "returned"}
  ELSE {"emit links", "pending", "close", "wait", "returned"}

JoinInv ==
  \A stage \in {"divisions", "links"} : main \in JoinStops(stage) =>
    \A staged \in table : Shape(staged).table \in JoinOf(stage) =>
      \/ JoinedItems(staged) \subseteq Held
      \/ staged \in joinLeft
         /\ main = IF stage = "divisions" THEN "emit divisions" ELSE "emit links"

\* What is empty once main is past it.
EmptyInv ==
  /\ main \notin {"open", "send", "join", "flush"} => auxRows = {}
  /\ main \notin {"emit divisions", "emit links"} => joinBuf = {}
  /\ main \in {"close", "wait", "returned"} => pending = {}
  /\ main = "join" => next > Len(Inputs[input])
  /\ \A w \in Writers : writer[w] = "gone" => queue = <<>> /\ closed

\* Facts that hold in trouble too.
WatchInv ==
  /\ \A r \in Readers : reader[r] # "append" => auxBatch[r] = {}
  /\ \A r \in Readers : row[r] > 0
  /\ \A w \in Writers : writer[w] # "writing" => writing[w] = {}
  /\ main = "open" => ~firstErr
  /\ firstErr /\ main \notin {"send", "join"} => failed
  /\ phaseCancelled => firstErr
  /\ cancelled => sinkErr \/ main = "returned"
  /\ main \notin {"open", "send", "join", "close", "wait", "returned"} => input = Len(Inputs)
  /\ Held \subseteq AllItems
  /\ result = "nil" => ~Trouble

CInv == WatchInv /\ (~Trouble => DirectInv /\ StagedInv /\ JoinInv /\ EmptyInv)

-----------------------------------------------------------------------------
(* Batches and what they hold.                                             *)

LEMMA PartsOfEmpty == Parts(<<>>) = {}
BY DEF Parts

LEMMA PartsOfOne == \A items : Parts(<<items>>) = items
BY DEF Parts

LEMMA PartsOfAppend ==
  ASSUME NEW S, NEW batches \in Seq(S), NEW items \in S
  PROVE  Parts(Append(batches, items)) = Parts(batches) \cup items
<1>1. /\ DOMAIN Append(batches, items) = DOMAIN batches \cup {Len(batches) + 1}
      /\ \A i \in DOMAIN batches : Append(batches, items)[i] = batches[i]
      /\ Append(batches, items)[Len(batches) + 1] = items
  OBVIOUS
<1>2. QED
  BY <1>1 DEF Parts

LEMMA PartsOfHeadAndTail ==
  ASSUME NEW S, NEW batches \in Seq(S), batches # <<>>
  PROVE  Parts(batches) = Head(batches) \cup Parts(Tail(batches))
<1>1. /\ 1 \in DOMAIN batches /\ Head(batches) = batches[1]
      /\ \A i \in DOMAIN Tail(batches) : i + 1 \in DOMAIN batches /\ Tail(batches)[i] = batches[i + 1]
      /\ \A i \in DOMAIN batches \ {1} : i - 1 \in DOMAIN Tail(batches)
                                       /\ Tail(batches)[i - 1] = batches[i]
  OBVIOUS
<1>2. ASSUME NEW item \in Parts(batches) PROVE item \in Head(batches) \cup Parts(Tail(batches))
  <2>1. PICK i \in DOMAIN batches : item \in batches[i]
    BY <1>2 DEF Parts
  <2>2. CASE i = 1
    BY <1>1, <2>1, <2>2
  <2>3. CASE i # 1
    BY <1>1, <2>1, <2>3 DEF Parts
  <2>4. QED
    BY <2>2, <2>3
<1>3. Head(batches) \subseteq Parts(batches)
  BY <1>1 DEF Parts
<1>4. Parts(Tail(batches)) \subseteq Parts(batches)
  BY <1>1 DEF Parts
<1>5. QED
  BY <1>2, <1>3, <1>4

LEMMA PartsOfConcat ==
  ASSUME NEW S, NEW s \in Seq(S), NEW t \in Seq(S)
  PROVE  Parts(s \o t) = Parts(s) \cup Parts(t)
<1>1. /\ s \o t \in Seq(S)
      /\ Len(s) \in Nat /\ Len(t) \in Nat
      /\ DOMAIN s = 1..Len(s) /\ DOMAIN t = 1..Len(t) /\ DOMAIN (s \o t) = 1..(Len(s) + Len(t))
      /\ \A i \in DOMAIN s : (s \o t)[i] = s[i]
      /\ \A i \in DOMAIN t : (s \o t)[Len(s) + i] = t[i]
  OBVIOUS
<1>2. ASSUME NEW item \in Parts(s \o t) PROVE item \in Parts(s) \cup Parts(t)
  <2>1. PICK i \in 1..(Len(s) + Len(t)) : item \in (s \o t)[i]
    BY <1>1, <1>2 DEF Parts
  <2>2. CASE i <= Len(s)
    <3>1. i \in DOMAIN s
      BY <1>1, <2>2
    <3>2. QED
      BY <1>1, <2>1, <3>1 DEF Parts
  <2>3. CASE i > Len(s)
    <3>1. i - Len(s) \in DOMAIN t /\ Len(s) + (i - Len(s)) = i
      BY <1>1, <2>3
    <3>2. item \in t[i - Len(s)]
      BY <1>1, <2>1, <3>1
    <3>3. QED
      BY <3>1, <3>2 DEF Parts
  <2>4. QED
    BY <1>1, <2>2, <2>3
<1>3. ASSUME NEW item \in Parts(s) PROVE item \in Parts(s \o t)
  <2>1. PICK i \in DOMAIN s : item \in s[i]
    BY <1>3 DEF Parts
  <2>2. i \in DOMAIN (s \o t)
    BY <1>1
  <2>3. QED
    BY <1>1, <2>1, <2>2 DEF Parts
<1>4. ASSUME NEW item \in Parts(t) PROVE item \in Parts(s \o t)
  <2>1. PICK i \in DOMAIN t : item \in t[i]
    BY <1>4 DEF Parts
  <2>2. Len(s) + i \in DOMAIN (s \o t)
    BY <1>1
  <2>3. QED
    BY <1>1, <2>1, <2>2 DEF Parts
<1>5. QED
  BY <1>2, <1>3, <1>4

\* A flush submits what was collected, no more and no less.
LEMMA PartsOfBatches ==
  ASSUME NEW items \in SUBSET Items
  PROVE  Parts(Batches(items)) = items
<1>1. ASSUME NEW part \in SUBSET Items
      PROVE  Batch(part) \in Seq(SUBSET Items) /\ Parts(Batch(part)) = part
  <2>1. CASE part = {}
    <3>1. Batch(part) = <<>>
      BY <2>1 DEF Batch
    <3>2. <<>> \in Seq(SUBSET Items)
      OBVIOUS
    <3>3. QED
      BY <2>1, <3>1, <3>2, PartsOfEmpty
  <2>2. CASE part # {}
    <3>1. Batch(part) = <<part>>
      BY <2>2 DEF Batch
    <3>2. <<part>> \in Seq(SUBSET Items)
      OBVIOUS
    <3>3. QED
      BY <3>1, <3>2, PartsOfOne
  <2>3. QED
    BY <2>1, <2>2
<1> DEFINE b1 == Batch(Of("records", items))
           b2 == Batch(Of("relationships", items))
           b3 == Batch(Of("rejections", items))
<1>2. \A output : Of(output, items) \in SUBSET Items
  BY DEF Of
<1>3. /\ b1 \in Seq(SUBSET Items) /\ Parts(b1) = Of("records", items)
      /\ b2 \in Seq(SUBSET Items) /\ Parts(b2) = Of("relationships", items)
      /\ b3 \in Seq(SUBSET Items) /\ Parts(b3) = Of("rejections", items)
  BY <1>1, <1>2
<1> DEFINE b12 == b1 \o b2
<1>4. Batches(items) = b12 \o b3
  BY DEF Batches
<1> HIDE DEF b1, b2, b3
<1>5. b12 \in Seq(SUBSET Items) /\ Parts(b12) = Parts(b1) \cup Parts(b2)
  BY <1>3, PartsOfConcat
<1> HIDE DEF b12
<1>6. Parts(b12 \o b3) = Parts(b12) \cup Parts(b3)
  BY <1>3, <1>5, PartsOfConcat
<1>7. \A item \in items : item[1] \in {"records", "relationships", "rejections"}
  BY DEF Items, Outputs
<1>8. items = Of("records", items) \cup Of("relationships", items) \cup Of("rejections", items)
  BY <1>7 DEF Of
<1>9. QED
  BY <1>3, <1>4, <1>5, <1>6, <1>8

-----------------------------------------------------------------------------
(* What is held moves towards the sink.                                    *)

\* An item is held in one of six kinds of places.
LEMMA HeldPlaces ==
  /\ \A item : item \in Held <=>
       \/ item \in pending \/ item \in joinBuf \/ item \in Parts(queue) \/ item \in written
       \/ \E p \in Procs : item \in Parts(toSubmit[p])
       \/ \E w \in Writers : item \in writing[w]
  /\ \A item : item \in Held' <=>
       \/ item \in pending' \/ item \in joinBuf' \/ item \in Parts(queue') \/ item \in written'
       \/ \E p \in Procs : item \in Parts(toSubmit'[p])
       \/ \E w \in Writers : item \in writing'[w]
<1>1. \A item : item \in Held <=>
        \/ item \in pending \/ item \in joinBuf \/ item \in Parts(queue) \/ item \in written
        \/ \E p \in Procs : item \in Parts(toSubmit[p])
        \/ \E w \in Writers : item \in writing[w]
  <2> DEFINE submitting == UNION {Parts(toSubmit[p]) : p \in Procs}
             beingWritten == UNION {writing[w] : w \in Writers}
  <2>1. \A item : item \in submitting <=> \E p \in Procs : item \in Parts(toSubmit[p])
    OBVIOUS
  <2>2. \A item : item \in beingWritten <=> \E w \in Writers : item \in writing[w]
    OBVIOUS
  <2>3. Held = pending \cup joinBuf \cup submitting \cup Parts(queue) \cup beingWritten
                \cup written
    BY DEF Held
  <2> HIDE DEF submitting, beingWritten
  <2>4. QED
    BY <2>1, <2>2, <2>3
<1>2. \A item : item \in Held' <=>
        \/ item \in pending' \/ item \in joinBuf' \/ item \in Parts(queue') \/ item \in written'
        \/ \E p \in Procs : item \in Parts(toSubmit'[p])
        \/ \E w \in Writers : item \in writing'[w]
  <2> DEFINE submitting == UNION {Parts(toSubmit'[p]) : p \in Procs}
             beingWritten == UNION {writing'[w] : w \in Writers}
  <2>1. \A item : item \in submitting <=> \E p \in Procs : item \in Parts(toSubmit'[p])
    OBVIOUS
  <2>2. \A item : item \in beingWritten <=> \E w \in Writers : item \in writing'[w]
    OBVIOUS
  <2>3. Held' = pending' \cup joinBuf' \cup submitting \cup Parts(queue') \cup beingWritten
                \cup written'
    BY DEF Held
  <2> HIDE DEF submitting, beingWritten
  <2>4. QED
    BY <2>1, <2>2, <2>3
<1>3. QED
  BY <1>1, <1>2

\* Where items are after a producer that had nothing to submit got batches.
LEMMA HeldSubmits ==
  ASSUME NEW p \in Procs, toSubmit \in [Procs -> Seq(SUBSET Items)], toSubmit[p] = <<>>,
         NEW batches, toSubmit' = [toSubmit EXCEPT ![p] = batches],
         UNCHANGED <<queue, writing, written>>
  PROVE  \A item : item \in Held' <=>
           \/ item \in pending' \/ item \in joinBuf' \/ item \in Parts(batches)
           \/ item \in Parts(queue) \/ item \in written
           \/ \E q \in Procs : item \in Parts(toSubmit[q])
           \/ \E w \in Writers : item \in writing[w]
<1>1. \A q \in Procs : toSubmit'[q] = IF q = p THEN batches ELSE toSubmit[q]
  OBVIOUS
<1>2. Parts(toSubmit[p]) = {}
  BY PartsOfEmpty
<1>3. \A item : (\E q \in Procs : item \in Parts(toSubmit'[q])) <=>
                item \in Parts(batches) \/ \E q \in Procs : item \in Parts(toSubmit[q])
  BY <1>1, <1>2
<1>4. QED
  BY <1>3, HeldPlaces

LEMMA AddRowHolds ==
  ASSUME TypeOK, NEW r \in Readers, AddRow(r)
  PROVE  Held' = Held \cup DirectItems(Current(r))
<1> DEFINE items == DirectItems(Current(r))
           added == pending \cup items
           full == UNION {Of(item[1], added) : item \in items}
<1>1. r \in Procs /\ toSubmit[r] = <<>> /\ toSubmit \in [Procs -> Seq(SUBSET Items)]
  BY DEF AddRow, Reading, Procs, TypeOK
<1>2. full \subseteq added
  BY DEF Of
<1>3. UNCHANGED <<joinBuf, queue, writing, written>>
  BY DEF AddRow, joinVars, queueVars, sinkVars
<1>4. CASE Full(full)
  <2>1. pending' = added \ full /\ toSubmit' = [toSubmit EXCEPT ![r] = <<full>>]
    BY <1>4 DEF AddRow, Rest
  <2> HIDE DEF full
  <2>2. Parts(<<full>>) = full
    BY PartsOfOne
  <2>3. QED
    BY <1>1, <1>2, <1>3, <2>1, <2>2, HeldSubmits, HeldPlaces
<1>5. CASE ~Full(full)
  <2>1. pending' = added /\ toSubmit' = toSubmit
    BY <1>5 DEF AddRow
  <2>2. QED
    BY <1>3, <2>1 DEF Held
<1>6. QED
  BY <1>4, <1>5

LEMMA EmitRowHolds ==
  ASSUME TypeOK, EmitRow
  PROVE  \E staged \in joinLeft : /\ joinLeft' = joinLeft \ {staged}
                                  /\ Held' = Held \cup JoinedItems(staged)
<1>1. PICK staged \in joinLeft :
        LET added == joinBuf \cup JoinedItems(staged) IN
        /\ joinLeft' = joinLeft \ {staged}
        /\ IF \E output \in Outputs : Full(Of(output, added))
           THEN joinBuf' = Rest(added, added)
                /\ toSubmit' = [toSubmit EXCEPT ![MAIN] = Batches(added)]
           ELSE joinBuf' = added /\ UNCHANGED toSubmit
  BY DEF EmitRow
<1> DEFINE added == joinBuf \cup JoinedItems(staged)
<1>2. MAIN \in Procs /\ toSubmit[MAIN] = <<>> /\ toSubmit \in [Procs -> Seq(SUBSET Items)]
  BY DEF EmitRow, Emitting, Procs, TypeOK
<1>3. UNCHANGED <<pending, queue, writing, written>>
  BY DEF EmitRow, queueVars, sinkVars
<1>4. added \in SUBSET Items
  BY RowsYieldItems DEF TypeOK
<1>5. Held' = Held \cup JoinedItems(staged)
  <2>1. CASE \E output \in Outputs : Full(Of(output, added))
    <3>1. joinBuf' = {} /\ toSubmit' = [toSubmit EXCEPT ![MAIN] = Batches(added)]
      BY <1>1, <2>1 DEF Rest
    <3>2. Parts(Batches(added)) = added
      BY <1>4, PartsOfBatches
    <3>3. QED
      BY <1>2, <1>3, <3>1, <3>2, HeldSubmits, HeldPlaces
  <2>2. CASE ~\E output \in Outputs : Full(Of(output, added))
    <3>1. joinBuf' = added /\ toSubmit' = toSubmit
      BY <1>1, <2>2
    <3>2. QED
      BY <1>3, <3>1 DEF Held
  <2>3. QED
    BY <2>1, <2>2
<1>6. QED
  BY <1>1, <1>5

LEMMA FlushesHold ==
  ASSUME TypeOK, EndJoin \/ FlushPending
  PROVE  Held' = Held
<1>1. MAIN \in Procs /\ toSubmit[MAIN] = <<>> /\ toSubmit \in [Procs -> Seq(SUBSET Items)]
  BY DEF EndJoin, FlushPending, Emitting, Procs, TypeOK
<1>2. UNCHANGED <<queue, writing, written>>
  BY DEF EndJoin, FlushPending, queueVars, sinkVars
<1>3. CASE EndJoin
  <2>1. Parts(Batches(joinBuf)) = joinBuf
    BY PartsOfBatches DEF TypeOK
  <2>2. /\ joinBuf' = {} /\ pending' = pending
        /\ toSubmit' = [toSubmit EXCEPT ![MAIN] = Batches(joinBuf)]
    BY <1>3 DEF EndJoin, Rest
  <2>3. QED
    BY <1>1, <1>2, <2>1, <2>2, HeldSubmits, HeldPlaces
<1>4. CASE FlushPending
  <2>1. Parts(Batches(pending)) = pending
    BY PartsOfBatches DEF TypeOK
  <2>2. /\ pending' = {} /\ joinBuf' = joinBuf
        /\ toSubmit' = [toSubmit EXCEPT ![MAIN] = Batches(pending)]
    BY <1>4 DEF FlushPending, joinVars
  <2>3. QED
    BY <1>1, <1>2, <2>1, <2>2, HeldSubmits, HeldPlaces
<1>5. QED
  BY <1>3, <1>4

LEMMA SubmitHolds ==
  ASSUME TypeOK, NEW p \in Procs, SubmitBatch(p)
  PROVE  Held' = Held
<1> DEFINE batch == Head(toSubmit[p])
           rest == Tail(toSubmit[p])
<1>1. Parts(toSubmit[p]) = batch \cup Parts(rest) /\ batch \in SUBSET Items
  <2>1. toSubmit[p] \in Seq(SUBSET Items) /\ toSubmit[p] # <<>>
    BY DEF SubmitBatch, TypeOK
  <2>2. QED
    BY <2>1, PartsOfHeadAndTail, SeqFacts
<1>2. Parts(queue') = Parts(queue) \cup batch
  <2>1. queue \in Seq(SUBSET Items) /\ queue' = Append(queue, batch)
    BY DEF SubmitBatch, TypeOK
  <2>2. QED
    BY <1>1, <2>1, PartsOfAppend
<1>3. \A q \in Procs : toSubmit'[q] = IF q = p THEN rest ELSE toSubmit[q]
  BY DEF SubmitBatch, TypeOK
<1> HIDE DEF batch, rest
<1>4. \A item : (item \in batch \/ \E q \in Procs : item \in Parts(toSubmit'[q])) <=>
                \E q \in Procs : item \in Parts(toSubmit[q])
  BY <1>1, <1>3
<1>5. UNCHANGED <<pending, joinBuf, writing, written>>
  BY DEF SubmitBatch, joinVars, sinkVars
<1>6. QED
  BY <1>2, <1>4, <1>5, HeldPlaces

\* A writer holds a batch from the queue until it is written; a batch is
\* dropped only after a cancellation or by the write that failed.
LEMMA WriterHolds ==
  ASSUME TypeOK, ControlInv, WatchInv, NEW w \in Writers, WriterStep(w)
  PROVE  Held' \subseteq Held /\ (~Trouble' => Held \subseteq Held')
<1>1. writing \in [Writers -> SUBSET Items]
  BY DEF TypeOK
<1>2. UNCHANGED <<pending, joinBuf, toSubmit, ctxDone>>
  BY DEF WriterStep, TakeBatch, Write, FailWrite, LeaveQueue, joinVars
<1>3. CASE TakeBatch(w)
  <2>1. writing[w] = {} /\ queue \in Seq(SUBSET Items) /\ queue # <<>> /\ queue' = Tail(queue)
        /\ UNCHANGED <<ctxDone, sinkErr, written>>
    BY <1>3 DEF TakeBatch, WatchInv, TypeOK
  <2>2. Parts(queue) = Head(queue) \cup Parts(queue')
    BY <2>1, PartsOfHeadAndTail
  <2>3. CASE SinkDone
    <3>1. writing' = writing
      BY <1>3, <2>3 DEF TakeBatch
    <3>2. Held' \subseteq Held
      BY <1>2, <2>1, <2>2, <3>1, HeldPlaces
    <3>3. cancelled => sinkErr
      BY <1>3 DEF TakeBatch, WatchInv, ControlInv
    <3>4. Trouble'
      BY <2>1, <2>3, <3>3 DEF SinkDone, Trouble
    <3>5. QED
      BY <3>2, <3>4
  <2>4. CASE ~SinkDone
    <3>1. \A v \in Writers : writing'[v] = IF v = w THEN Head(queue) ELSE writing[v]
      BY <1>1, <1>3, <2>4 DEF TakeBatch
    <3>2. \A item : (\E v \in Writers : item \in writing'[v]) <=>
                    item \in Head(queue) \/ \E v \in Writers : item \in writing[v]
      BY <2>1, <3>1
    <3>3. Held' = Held
      BY <1>2, <2>1, <2>2, <3>2, HeldPlaces
    <3>4. QED
      BY <3>3
  <2>5. QED
    BY <2>3, <2>4
<1>4. CASE Write(w)
  <2>1. \A v \in Writers : writing'[v] = IF v = w THEN {} ELSE writing[v]
    BY <1>1, <1>4 DEF Write
  <2>2. written' = written \cup writing[w] /\ queue' = queue
    BY <1>4 DEF Write, queueVars
  <2>3. \A item : item \in writing[w] \/ (\E v \in Writers : item \in writing'[v]) <=>
                  \E v \in Writers : item \in writing[v]
    BY <2>1
  <2>4. Held' = Held
    BY <1>2, <2>2, <2>3, HeldPlaces
  <2>5. QED
    BY <2>4
<1>5. CASE FailWrite(w)
  <2>1. \A v \in Writers : writing'[v] \subseteq writing[v]
    BY <1>1, <1>5 DEF FailWrite
  <2>2. UNCHANGED <<queue, written>> /\ Trouble'
    BY <1>5 DEF FailWrite, queueVars, Trouble
  <2>3. Held' \subseteq Held
    BY <1>2, <2>1, <2>2, HeldPlaces
  <2>4. QED
    BY <2>2, <2>3
<1>6. CASE LeaveQueue(w)
  <2>1. UNCHANGED <<pending, joinBuf, toSubmit, queue, writing, written>>
    BY <1>2, <1>6 DEF LeaveQueue, queueVars
  <2>2. Held' = Held
    BY <2>1 DEF Held
  <2>3. QED
    BY <2>2
<1>7. QED
  BY <1>3, <1>4, <1>5, <1>6 DEF WriterStep

\* Only items of the source are held, and nothing is lost without trouble.
LEMMA NothingIsLost ==
  ASSUME TypeOK, StageInv, ControlInv, WatchInv, [Next]_vars
  PROVE  Held' \subseteq AllItems /\ (~Trouble' => Held \subseteq Held')
<1>1. Held \subseteq AllItems
  BY DEF WatchInv
<1>2. ASSUME UNCHANGED <<pending, joinBuf, toSubmit, queue, writing, written>>
      PROVE  Held' = Held
  BY <1>2 DEF Held
<1>3. ASSUME NEW p \in Procs, SubmitStep(p)
      PROVE  Held' \subseteq Held /\ (~Trouble' => Held \subseteq Held')
  <2>1. CASE SubmitBatch(p)
    BY <2>1, SubmitHolds
  <2>2. CASE FailSubmit(p)
    <3>1. \A q \in Procs : toSubmit'[q] = IF q = p THEN <<>> ELSE toSubmit[q]
      BY <2>2 DEF FailSubmit, TypeOK
    <3>2. \A q \in Procs : Parts(toSubmit'[q]) \subseteq Parts(toSubmit[q])
      BY <3>1, PartsOfEmpty
    <3>3. UNCHANGED <<pending, joinBuf, queue, writing, written>>
      BY <2>2 DEF FailSubmit, joinVars, queueVars, sinkVars
    <3>4. Held' \subseteq Held
      BY <3>2, <3>3, HeldPlaces
    <3>5. Trouble'
      BY <2>2 DEF FailSubmit, GiveUp, Fail, Trouble
    <3>6. QED
      BY <3>4, <3>5
  <2>3. QED
    BY <1>3, <2>1, <2>2 DEF SubmitStep
<1>4. ASSUME NEW r \in Readers, ReaderStep(r)
      PROVE  Held \subseteq Held' /\ Held' \subseteq AllItems
  <2>1. CASE AddRow(r)
    <3>1. Current(r) \in Rows
      BY <2>1, CurrentIsRow DEF AddRow
    <3>2. DirectItems(Current(r)) \subseteq AllItems
      BY <3>1 DEF AllItems
    <3>3. Held' = Held \cup DirectItems(Current(r))
      BY <2>1, AddRowHolds
    <3>4. QED
      BY <1>1, <3>2, <3>3
  <2>2. CASE ~AddRow(r)
    <3>1. UNCHANGED <<pending, joinBuf, toSubmit, queue, writing, written>>
      BY <1>4, <2>2 DEF ReaderStep, SendAsset, StageRow, AppendRows, FailAsset, FinishAsset,
                        LeavePhase, joinVars, queueVars, sinkVars
    <3>2. QED
      BY <1>1, <1>2, <3>1
  <2>3. QED
    BY <2>1, <2>2
<1>5. ASSUME MainStep
      PROVE  Held \subseteq Held' /\ Held' \subseteq AllItems
  <2>1. CASE EmitRow
    <3>1. PICK staged \in joinLeft : Held' = Held \cup JoinedItems(staged)
      BY <2>1, EmitRowHolds
    <3>2. staged \in Rows
      BY DEF TypeOK
    <3>3. JoinedItems(staged) \subseteq AllItems
      BY <3>2 DEF AllItems
    <3>4. QED
      BY <1>1, <3>1, <3>3
  <2>2. CASE EndJoin \/ FlushPending
    BY <1>1, <2>2, FlushesHold
  <2>3. CASE ~(EmitRow \/ EndJoin \/ FlushPending)
    <3>1. UNCHANGED <<pending, joinBuf, toSubmit, queue, writing, written>>
      BY <1>5, <2>3
         DEF MainStep, OpenPhase, FailOpen, StopSending, EndPhase, FlushRows, QueryJoin,
             FailJoin, CloseQueue, Return, joinVars, queueVars, sinkVars
    <3>2. QED
      BY <1>1, <1>2, <3>1
  <2>4. QED
    BY <2>1, <2>2, <2>3
<1>6. ASSUME Cancel \/ UNCHANGED vars PROVE Held' = Held
  <2>1. UNCHANGED <<pending, joinBuf, toSubmit, queue, writing, written>>
    BY <1>6 DEF Cancel, vars, joinVars, queueVars, sinkVars
  <2>2. QED
    BY <1>2, <2>1
<1>7. ASSUME NEW w \in Writers, WriterStep(w)
      PROVE  Held' \subseteq Held /\ (~Trouble' => Held \subseteq Held')
  BY <1>7, WriterHolds
<1>8. QED
  BY <1>1, <1>3, <1>4, <1>5, <1>6, <1>7 DEF Next, Returned

-----------------------------------------------------------------------------
(* Trouble lasts.                                                          *)

LEMMA TroubleLasts ==
  ASSUME WatchInv, [Next]_vars, Trouble
  PROVE  Trouble'
<1> USE DEF Trouble
<1>1. CASE OpenPhase
  BY <1>1 DEF OpenPhase, WatchInv, sinkVars
<1>2. CASE MainStep /\ ~OpenPhase
  <2>1. UNCHANGED <<ctxDone, firstErr, sinkErr>>
    BY <1>2 DEF MainStep, FailOpen, StopSending, EndPhase, FlushRows, QueryJoin, EmitRow,
                EndJoin, FlushPending, FailJoin, CloseQueue, Return, phaseVars, sinkVars
  <2>2. failed' = failed \/ failed' = TRUE
    BY <1>2 DEF MainStep, FailOpen, GiveUp, StopSending, EndPhase, FlushRows, QueryJoin, EmitRow,
                EndJoin, FlushPending, FailJoin, CloseQueue, Return, control
  <2>3. QED
    BY <2>1, <2>2
<1>3. ASSUME NEW r \in Readers, ReaderStep(r) PROVE Trouble'
  BY <1>3 DEF ReaderStep, SendAsset, AddRow, StageRow, AppendRows, FailAsset, FinishAsset,
              LeavePhase, Fail, control, phaseVars, sinkVars
<1>4. ASSUME NEW p \in Procs, SubmitStep(p) PROVE Trouble'
  BY <1>4 DEF SubmitStep, SubmitBatch, FailSubmit, GiveUp, Fail, control, phaseVars, sinkVars
<1>5. ASSUME NEW w \in Writers, WriterStep(w) PROVE Trouble'
  BY <1>5 DEF WriterStep, TakeBatch, Write, FailWrite, LeaveQueue, control, phaseVars
<1>6. CASE Cancel \/ UNCHANGED vars
  BY <1>6 DEF Cancel, vars, control, phaseVars, sinkVars
<1>7. QED
  BY <1>1, <1>2, <1>3, <1>4, <1>5, <1>6 DEF Next, Returned

\* What a reader has taken from a buffer it carries only while it appends.
LEMMA ReadersStep ==
  ASSUME TypeOK, StageInv, ControlInv, WatchInv, [Next]_vars
  PROVE  (\A r \in Readers : reader[r] # "append" => auxBatch[r] = {})'
         /\ (\A r \in Readers : row[r] > 0)'
<1>0. \A n \in Nat : n + 1 \in Nat /\ n + 1 > 0
  OBVIOUS
<1> USE DEF TypeOK, WatchInv
<1>1. ASSUME NEW p \in Procs, SubmitStep(p)
      PROVE  /\ \A r \in Readers : reader'[r] # "append" => auxBatch'[r] = {}
             /\ \A r \in Readers : row'[r] > 0
  <2>1. CASE SubmitBatch(p)
    BY <2>1 DEF SubmitBatch, readerVars, auxVars
  <2>2. CASE FailSubmit(p) /\ p = MAIN
    BY <2>2 DEF FailSubmit, readerVars, auxVars
  <2>3. CASE FailSubmit(p) /\ p # MAIN
    <3>1. p \in Readers /\ reader[p] # "append"
      BY <2>3 DEF FailSubmit, Procs, ControlInv
    <3>2. QED
      BY <2>3, <3>1 DEF FailSubmit, Fail, auxVars
  <2>4. QED
    BY <1>1, <2>1, <2>2, <2>3 DEF SubmitStep
<1>2. ASSUME NEW r \in Readers, ReaderStep(r)
      PROVE  /\ \A q \in Readers : reader'[q] # "append" => auxBatch'[q] = {}
             /\ \A q \in Readers : row'[q] > 0
  <2>1. CASE SendAsset(r)
    BY <2>1 DEF SendAsset, auxVars
  <2>2. CASE AddRow(r)
    <3>1. row[r] \in Nat /\ row[r] + 1 > 0
      BY <1>0
    <3>2. /\ auxBatch' = auxBatch /\ reader[r] = "read"
          /\ \A q \in Readers : q # r => reader'[q] = reader[q] /\ row'[q] = row[q]
          /\ row'[r] \in {row[r], row[r] + 1}
      <4>1. CASE Shape(Current(r)).table = "none"
        BY <2>2, <4>1 DEF AddRow, Reading, auxVars
      <4>2. CASE Shape(Current(r)).table # "none"
        BY <2>2, <4>2 DEF AddRow, Reading, auxVars
      <4>3. QED
        BY <4>1, <4>2
    <3>3. QED
      BY <3>1, <3>2
  <2>3. CASE StageRow(r)
    <3>1. row[r] \in Nat /\ row[r] + 1 > 0
      BY <1>0
    <3>2. \A q \in Readers : q # r => auxBatch'[q] = auxBatch[q]
      BY <2>3 DEF StageRow
    <3>3. /\ reader' = [reader EXCEPT ![r] = "append"]
          /\ row' = [row EXCEPT ![r] = row[r] + 1]
      BY <2>3 DEF StageRow
    <3>4. QED
      BY <3>1, <3>2, <3>3
  <2>4. CASE AppendRows(r)
    BY <2>4 DEF AppendRows
  <2>5. CASE FailAsset(r)
    BY <2>5 DEF FailAsset, Fail
  <2>6. CASE FinishAsset(r) \/ LeavePhase(r)
    BY <2>6 DEF FinishAsset, LeavePhase, Reading, auxVars
  <2>7. QED
    BY <1>2, <2>1, <2>2, <2>3, <2>4, <2>5, <2>6 DEF ReaderStep
<1>3. ASSUME MainStep
      PROVE  /\ \A r \in Readers : reader'[r] # "append" => auxBatch'[r] = {}
             /\ \A r \in Readers : row'[r] > 0
  <2>1. CASE OpenPhase
    <3>1. \A r \in Readers : auxBatch[r] = {}
      BY <2>1 DEF OpenPhase, ControlInv
    <3>2. QED
      BY <2>1, <3>1 DEF OpenPhase, auxVars
  <2>2. CASE ~OpenPhase
    <3>1. UNCHANGED <<reader, row, auxBatch>>
      BY <1>3, <2>2
         DEF MainStep, FailOpen, StopSending, EndPhase, FlushRows, QueryJoin, EmitRow, EndJoin,
             FlushPending, FailJoin, CloseQueue, Return, readerVars, auxVars
    <3>2. QED
      BY <3>1
  <2>3. QED
    BY <2>1, <2>2
<1>4. ASSUME NEW w \in Writers, WriterStep(w) PROVE UNCHANGED <<reader, row, auxBatch>>
  BY <1>4 DEF WriterStep, TakeBatch, Write, FailWrite, LeaveQueue, readerVars, auxVars
<1>5. Cancel \/ UNCHANGED vars => UNCHANGED <<reader, row, auxBatch>>
  BY DEF Cancel, vars, readerVars, auxVars
<1>6. QED
  BY <1>1, <1>2, <1>3, <1>4, <1>5 DEF Next, Returned

\* A writer holds a batch only while it writes, and cancels only by failing.
LEMMA WritersStep ==
  ASSUME TypeOK, ControlInv, WatchInv, [Next]_vars
  PROVE  (\A w \in Writers : writer[w] # "writing" => writing[w] = {})'
         /\ (cancelled => sinkErr \/ main = "returned")'
<1>1. ASSUME NEW w \in Writers, WriterStep(w)
      PROVE  /\ \A v \in Writers : writer'[v] # "writing" => writing'[v] = {}
             /\ cancelled' => sinkErr' \/ main' = "returned"
  <2> USE DEF TypeOK, WatchInv, control
  <2>1. CASE TakeBatch(w)
    BY <2>1 DEF TakeBatch
  <2>2. CASE Write(w)
    BY <2>2 DEF Write
  <2>3. CASE FailWrite(w)
    BY <2>3 DEF FailWrite
  <2>4. CASE LeaveQueue(w)
    BY <2>4 DEF LeaveQueue
  <2>5. QED
    BY <1>1, <2>1, <2>2, <2>3, <2>4 DEF WriterStep
<1>2. CASE Return
  BY <1>2 DEF Return, WatchInv
<1>3. CASE MainStep /\ ~Return
  <2>1. UNCHANGED sinkVars
    BY <1>3 DEF MainStep, OpenPhase, FailOpen, StopSending, EndPhase, FlushRows, QueryJoin,
                EmitRow, EndJoin, FlushPending, FailJoin, CloseQueue
  <2>2. main # "returned"
    BY <1>3 DEF MainStep, OpenPhase, FailOpen, StopSending, EndPhase, FlushRows, QueryJoin,
                EmitRow, Emitting, EndJoin, FlushPending, FailJoin, CloseQueue
  <2>3. QED
    BY <2>1, <2>2 DEF sinkVars, WatchInv
<1>4. ASSUME NEW r \in Readers, ReaderStep(r)
      PROVE  UNCHANGED <<writer, writing, cancelled, sinkErr, main>>
  BY <1>4 DEF ReaderStep, SendAsset, AddRow, StageRow, AppendRows, FailAsset, FinishAsset,
              LeavePhase, control, sinkVars
<1>5. ASSUME NEW p \in Procs, SubmitStep(p)
      PROVE  UNCHANGED <<writer, writing, cancelled, sinkErr>>
             /\ (main = "returned" => main' = "returned")
  BY <1>5 DEF SubmitStep, SubmitBatch, FailSubmit, control, sinkVars, ControlInv, Procs
<1>6. Cancel \/ UNCHANGED vars => UNCHANGED <<writer, writing, cancelled, sinkErr, main>>
  BY DEF Cancel, vars, control, sinkVars
<1>7. QED
  BY <1>1, <1>2, <1>3, <1>4, <1>5, <1>6 DEF Next, Returned, WatchInv

\* The failure of a phase ends it, and then the preparation.
LEMMA PhaseStep ==
  ASSUME TypeOK, ControlInv, WatchInv, [Next]_vars
  PROVE  /\ (main = "open" => ~firstErr)'
         /\ (firstErr /\ main \notin {"send", "join"} => failed)'
         /\ (phaseCancelled => firstErr)'
         /\ (main \notin {"open", "send", "join", "close", "wait", "returned"} =>
               input = Len(Inputs))'
<1>0. input <= Len(Inputs) /\ input \in Nat /\ Len(Inputs) \in Nat
  <2>1. input \in 1..Len(Inputs) /\ Len(Inputs) \in Nat
    BY InputsFacts DEF TypeOK
  <2>2. QED
    BY <2>1
<1> USE DEF WatchInv
<1>1. CASE OpenPhase
  BY <1>1 DEF OpenPhase
<1>2. CASE EndPhase
  <2>2. CASE firstErr
    BY <1>2, <2>2 DEF EndPhase, GiveUp, phaseVars
  <2>3. CASE ~firstErr
    <3>1. /\ main' = IF input < Len(Inputs) THEN "open" ELSE "flush"
          /\ input' = IF input < Len(Inputs) THEN input + 1 ELSE input
          /\ UNCHANGED <<firstErr, phaseCancelled>>
      BY <1>2, <2>3 DEF EndPhase, phaseVars
    <3>2. QED
      BY <1>0, <2>3, <3>1
  <2>4. QED
    BY <2>2, <2>3
<1>3. CASE StopSending
  BY <1>3 DEF StopSending, phaseVars
<1>4. CASE FailOpen \/ FailJoin
  <2>1. main' = "close" /\ failed' = TRUE /\ UNCHANGED <<firstErr, phaseCancelled>>
    BY <1>4 DEF FailOpen, FailJoin, GiveUp, phaseVars
  <2>2. QED
    BY <2>1
<1>5. CASE MainStep /\ ~(OpenPhase \/ EndPhase \/ StopSending \/ FailOpen \/ FailJoin)
  <2>1. UNCHANGED <<input, failed, firstErr, phaseCancelled>>
    BY <1>5 DEF MainStep, FlushRows, QueryJoin, EmitRow, EndJoin, FlushPending, CloseQueue,
                Return, control, phaseVars
  <2>2. /\ main \notin {"open", "send", "join"} /\ main' \notin {"open", "send", "join"}
        /\ main \in {"close", "wait", "returned"} => main' \in {"close", "wait", "returned"}
    BY <1>5 DEF MainStep, FlushRows, QueryJoin, EmitRow, Emitting, EndJoin, AfterJoin,
                FlushPending, CloseQueue, Return, control
  <2>3. QED
    BY <2>1, <2>2
<1>6. ASSUME NEW r \in Readers, ReaderStep(r)
      PROVE  /\ UNCHANGED <<main, input, failed>>
             /\ \/ UNCHANGED phaseVars
                \/ main \in {"send", "join"} /\ firstErr' = TRUE
  <2>1. CASE FailAsset(r)
    BY <2>1 DEF FailAsset, Reading, Fail, control, ControlInv
  <2>2. CASE ~FailAsset(r)
    BY <1>6, <2>2 DEF ReaderStep, SendAsset, AddRow, StageRow, AppendRows, FinishAsset,
                      LeavePhase, control
  <2>3. QED
    BY <2>1, <2>2
<1>7. ASSUME NEW p \in Procs, SubmitStep(p)
      PROVE  \/ UNCHANGED <<main, input, failed, phaseVars>>
             \/ main' = "close" /\ failed' = TRUE /\ UNCHANGED <<input, phaseVars>>
             \/ main \in {"send", "join"} /\ firstErr' = TRUE /\ UNCHANGED <<main, input, failed>>
  <2>1. CASE SubmitBatch(p)
    BY <2>1 DEF SubmitBatch, control
  <2>2. CASE FailSubmit(p) /\ p = MAIN
    BY <2>2 DEF FailSubmit, GiveUp
  <2>3. CASE FailSubmit(p) /\ p # MAIN
    BY <2>3 DEF FailSubmit, Fail, control, Procs, ControlInv
  <2>4. QED
    BY <1>7, <2>1, <2>2, <2>3 DEF SubmitStep
<1>8. ASSUME NEW w \in Writers, WriterStep(w) PROVE UNCHANGED <<main, input, failed, phaseVars>>
  BY <1>8 DEF WriterStep, TakeBatch, Write, FailWrite, LeaveQueue, control
<1>9. Cancel \/ UNCHANGED vars => UNCHANGED <<main, input, failed, phaseVars>>
  BY DEF Cancel, vars, control
<1>10. CASE UNCHANGED <<main, input, failed, phaseVars>>
  BY <1>10 DEF phaseVars
<1>11. ASSUME NEW r \in Readers, ReaderStep(r), main \in {"send", "join"}, firstErr' = TRUE
       PROVE  /\ main' = "open" => ~firstErr'
              /\ firstErr' /\ main' \notin {"send", "join"} => failed'
              /\ phaseCancelled' => firstErr'
              /\ main' \notin {"open", "send", "join", "close", "wait", "returned"} =>
                   input' = Len(Inputs)
  BY <1>6, <1>11
<1>12. ASSUME NEW p \in Procs, SubmitStep(p)
       PROVE  /\ main' = "open" => ~firstErr'
              /\ firstErr' /\ main' \notin {"send", "join"} => failed'
              /\ phaseCancelled' => firstErr'
              /\ main' \notin {"open", "send", "join", "close", "wait", "returned"} =>
                   input' = Len(Inputs)
  BY <1>7, <1>12 DEF phaseVars
<1>13. QED
  BY <1>1, <1>2, <1>3, <1>4, <1>5, <1>6, <1>8, <1>9, <1>10, <1>11, <1>12 DEF Next, Returned

\* Success is only reported without trouble, and nothing happens after it.
LEMMA ResultStep ==
  ASSUME TypeOK, ControlInv, WatchInv, [Next]_vars
  PROVE  (result = "nil" => ~Trouble)'
<1>1. CASE Return
  <2>1. firstErr => failed
    BY <1>1 DEF Return, WatchInv
  <2>2. UNCHANGED <<ctxDone, failed, firstErr, sinkErr>>
    BY <1>1 DEF Return, phaseVars
  <2>3. result' = IF failed \/ sinkErr \/ ctxDone THEN "error" ELSE "nil"
    BY <1>1 DEF Return
  <2>4. QED
    BY <2>1, <2>2, <2>3 DEF Trouble
<1>2. CASE result # "nil" /\ ~Return
  <2>1. result' = result
    BY <1>2 DEF Next, Cancel, Returned, vars, ReaderStep, SendAsset, AddRow, StageRow, AppendRows,
                FailAsset, FinishAsset, LeavePhase, SubmitStep, SubmitBatch, FailSubmit,
                MainStep, OpenPhase, FailOpen, StopSending, EndPhase, FlushRows, QueryJoin,
                EmitRow, EndJoin, FlushPending, FailJoin, CloseQueue, WriterStep, TakeBatch,
                Write, FailWrite, LeaveQueue
  <2>2. QED
    BY <1>2, <2>1
<1>3. CASE result = "nil" /\ ~Return
  <2>1. /\ main = "returned"
        /\ \A r \in Readers : reader[r] = "gone"
        /\ \A p \in Procs : toSubmit[p] = <<>>
        /\ \A w \in Writers : writer[w] = "gone"
    BY <1>3 DEF ControlInv, Procs
  <2>2. UNCHANGED vars
    <3>1. ~Cancel /\ ~MainStep
      BY <1>3, <2>1 DEF Cancel, MainStep, OpenPhase, FailOpen, StopSending, EndPhase, FlushRows,
                        QueryJoin, EmitRow, Emitting, EndJoin, FlushPending, FailJoin, CloseQueue
    <3>2. \A r \in Readers : ~ReaderStep(r)
      BY <2>1 DEF ReaderStep, SendAsset, AddRow, StageRow, AppendRows, FailAsset, FinishAsset,
                  LeavePhase, Reading
    <3>3. \A p \in Procs : ~SubmitStep(p)
      BY <2>1 DEF SubmitStep, SubmitBatch, FailSubmit
    <3>4. \A w \in Writers : ~WriterStep(w)
      BY <2>1 DEF WriterStep, TakeBatch, Write, FailWrite, LeaveQueue
    <3>5. QED
      BY <3>1, <3>2, <3>3, <3>4 DEF Next, Returned
  <2>3. QED
    BY <1>3, <2>2 DEF vars, WatchInv, Trouble, control, phaseVars, sinkVars
<1>4. QED
  BY <1>1, <1>2, <1>3

LEMMA WatchStep ==
  ASSUME TypeOK, StageInv, ControlInv, WatchInv, [Next]_vars
  PROVE  WatchInv'
BY NothingIsLost, ReadersStep, WritersStep, PhaseStep, ResultStep DEF WatchInv

-----------------------------------------------------------------------------
(* Steps without trouble.                                                  *)

\* What can happen when nothing goes wrong.
LEMMA CalmSteps ==
  ASSUME ControlInv, WatchInv, [Next]_vars, ~Trouble'
  PROVE  /\ ~Trouble
         /\ \/ \E r \in Readers : SendAsset(r) \/ AddRow(r) \/ StageRow(r) \/ AppendRows(r)
                                  \/ FinishAsset(r) \/ LeavePhase(r)
            \/ \E p \in Procs : SubmitBatch(p)
            \/ OpenPhase \/ StopSending \/ FlushRows \/ QueryJoin \/ EmitRow \/ EndJoin
            \/ FlushPending \/ CloseQueue \/ Return
            \/ EndPhase /\ ~firstErr
            \/ \E w \in Writers : (TakeBatch(w) /\ ~SinkDone) \/ Write(w) \/ LeaveQueue(w)
            \/ UNCHANGED vars
<1>1. ~Trouble
  BY TroubleLasts
<1>2. ~Cancel
  BY DEF Cancel, Trouble
<1>3. ~FailOpen /\ ~FailJoin /\ (EndPhase => ~firstErr)
  BY DEF FailOpen, FailJoin, EndPhase, GiveUp, Trouble
<1>4. \A r \in Readers : ~FailAsset(r)
  BY DEF FailAsset, Fail, Trouble
<1>5. \A p \in Procs : ~FailSubmit(p)
  BY DEF FailSubmit, Fail, GiveUp, Trouble
<1>6. \A w \in Writers : ~FailWrite(w)
  BY DEF FailWrite, Trouble
<1>7. ASSUME NEW w \in Writers, TakeBatch(w) PROVE ~SinkDone
  BY <1>1, <1>7 DEF TakeBatch, SinkDone, Trouble, WatchInv, ControlInv
<1>8. QED
  BY <1>1, <1>2, <1>3, <1>4, <1>5, <1>6, <1>7
     DEF Next, ReaderStep, SubmitStep, MainStep, WriterStep, Returned

LEMMA StagedPlaces ==
  /\ \A source : source \in Staged <=>
       source \in auxRows \/ source \in table \/ \E r \in Readers : source \in auxBatch[r]
  /\ \A source : source \in Staged' <=>
       source \in auxRows' \/ source \in table' \/ \E r \in Readers : source \in auxBatch'[r]
BY DEF Staged

\* A row that is staged stays staged until the joins have read it.
LEMMA StageRowHolds ==
  ASSUME TypeOK, WatchInv, NEW r \in Readers, StageRow(r)
  PROVE  Staged' = Staged \cup {Current(r)}
<1> DEFINE added == auxRows \cup {Current(r)}
           full == {staged \in added : Shape(staged).table = Shape(Current(r)).table}
<1>1. auxBatch[r] = {} /\ auxBatch \in [Readers -> SUBSET Rows] /\ table' = table
  BY DEF StageRow, WatchInv, TypeOK
<1>2. full \subseteq added
  OBVIOUS
<1>3. CASE Full(full)
  <2>1. auxRows' = added \ full /\ auxBatch' = [auxBatch EXCEPT ![r] = full]
    BY <1>3 DEF StageRow, Rest
  <2> HIDE DEF full
  <2>2. \A source : (\E q \in Readers : source \in auxBatch'[q]) <=>
                    source \in full \/ \E q \in Readers : source \in auxBatch[q]
    BY <1>1, <2>1
  <2>3. QED
    BY <1>1, <1>2, <2>1, <2>2, StagedPlaces
<1>4. CASE ~Full(full)
  <2>1. auxRows' = added /\ auxBatch' = auxBatch
    BY <1>4 DEF StageRow
  <2>2. QED
    BY <1>1, <2>1, StagedPlaces
<1>5. QED
  BY <1>3, <1>4

LEMMA NothingStagedIsLost ==
  ASSUME TypeOK, ControlInv, WatchInv, [Next]_vars, ~Trouble'
  PROVE  Staged \subseteq Staged'
<1>1. ASSUME NEW r \in Readers, StageRow(r) PROVE Staged \subseteq Staged'
  BY <1>1, StageRowHolds
<1>2. ASSUME NEW r \in Readers, AppendRows(r) PROVE Staged \subseteq Staged'
  <2>1. \A q \in Readers : auxBatch'[q] = IF q = r THEN {} ELSE auxBatch[q]
    BY <1>2 DEF AppendRows, TypeOK
  <2>2. table' = table \cup auxBatch[r] /\ auxRows' = auxRows
    BY <1>2 DEF AppendRows
  <2>3. QED
    BY <2>1, <2>2, StagedPlaces
<1>3. CASE FlushRows
  BY <1>3, StagedPlaces DEF FlushRows
<1>4. CASE UNCHANGED auxVars
  BY <1>4 DEF Staged, auxVars
<1>5. ASSUME ~FlushRows, \A r \in Readers : ~StageRow(r) /\ ~AppendRows(r)
      PROVE  UNCHANGED auxVars
  BY <1>5, CalmSteps
     DEF SendAsset, AddRow, FinishAsset, LeavePhase, SubmitBatch, OpenPhase, StopSending,
         QueryJoin, EmitRow, EndJoin, FlushPending, CloseQueue, Return, EndPhase, TakeBatch,
         Write, LeaveQueue, vars
<1>6. QED
  BY <1>1, <1>2, <1>3, <1>4, <1>5

\* What a row yields is held once it is read, and a row to join is staged once
\* its reader has passed it.
LEMMA ReadStep ==
  ASSUME TypeOK, StageInv, ControlInv, WatchInv, EmptyInv, DirectInv, StagedInv,
         [Next]_vars, ~Trouble'
  PROVE  DirectInv' /\ StagedInv'
<1>1. Held \subseteq Held' /\ Staged \subseteq Staged'
  BY NothingIsLost, NothingStagedIsLost
<1>2. SUFFICES ASSUME NEW k \in DOMAIN Inputs, NEW j \in DOMAIN Inputs[k],
                      NEW i \in DOMAIN Content[Inputs[k][j]]
               PROVE  /\ RowRead(k, j, i)' => DirectItems(<<Inputs[k][j], i>>) \subseteq Held'
                      /\ RowPassed(k, j, i)' => \/ Shape(<<Inputs[k][j], i>>).table = "none"
                                                \/ <<Inputs[k][j], i>> \in Staged'
  BY DEF DirectInv, StagedInv
<1> DEFINE source == <<Inputs[k][j], i>>
           Goal == /\ RowRead(k, j, i)' => DirectItems(source) \subseteq Held'
                   /\ RowPassed(k, j, i)' => Shape(source).table = "none" \/ source \in Staged'
<1>3. ASSUME RowRead(k, j, i)' => RowRead(k, j, i), RowPassed(k, j, i)' => RowPassed(k, j, i)
      PROVE  Goal
  BY <1>1, <1>3 DEF DirectInv, StagedInv
<1>4. /\ i \in Nat /\ i > 0 /\ i <= Len(Content[Inputs[k][j]])
      /\ Len(Content[Inputs[k][j]]) \in Nat
      /\ DOMAIN Content[Inputs[k][j]] = 1..Len(Content[Inputs[k][j]])
  <2>1. Content[Inputs[k][j]] \in Seq(Shapes)
    BY InputsAreAssets, ContentAssumption
  <2>2. QED
    BY <2>1, SeqFacts
<1>5. /\ k \in Nat /\ j \in Nat /\ input \in Nat /\ next \in Nat /\ Len(Inputs) \in Nat
      /\ k <= Len(Inputs) /\ input <= Len(Inputs)
      /\ Len(Inputs[k]) \in Nat /\ j <= Len(Inputs[k]) /\ j > 0
  <2>1. DOMAIN Inputs = 1..Len(Inputs) /\ Len(Inputs) \in Nat /\ Inputs[k] \in Seq(Assets)
    BY InputsFacts
  <2>2. DOMAIN Inputs[k] = 1..Len(Inputs[k]) /\ Len(Inputs[k]) \in Nat
    BY <2>1, SeqFacts
  <2>3. input \in DOMAIN Inputs /\ next \in Nat
    BY DEF TypeOK
  <2>4. QED
    BY <2>1, <2>2, <2>3
<1>6. /\ \A r \in Readers : row[r] \in Nat /\ row[r] > 0
      /\ reader \in [Readers -> {"gone", "idle", "read", "stage", "append"}]
      /\ row \in [Readers -> Nat] /\ asset \in [Readers -> Assets]
  BY DEF TypeOK, WatchInv
<1> HIDE DEF Goal
<1>7. ASSUME UNCHANGED <<readerVars, input, next>>,
             main' = main \/ {main, main'} \cap {"open", "send", "join"} = {}
      PROVE  Goal
  <2>1. Sent(k, j)' => Sent(k, j)
    BY <1>7 DEF Sent
  <2>2. QED
    BY <1>3, <1>7, <2>1 DEF RowRead, RowPassed, readerVars
<1>8. ASSUME NEW r \in Readers, SendAsset(r) PROVE Goal
  <2>1. /\ reader' = [reader EXCEPT ![r] = "read"] /\ row' = [row EXCEPT ![r] = 1]
        /\ asset' = [asset EXCEPT ![r] = Inputs[input][next]]
        /\ next' = next + 1 /\ input' = input /\ main' = "send" /\ main = "send"
        /\ reader[r] = "idle"
    BY <1>8 DEF SendAsset
  <2>2. CASE Inputs[k][j] = Inputs[input][next]
    <3>1. reader'[r] = "read" /\ asset'[r] = Inputs[k][j] /\ row'[r] = 1
      BY <1>6, <2>1, <2>2
    <3>2. ~RowRead(k, j, i)' /\ ~RowPassed(k, j, i)'
      BY <1>4, <3>1 DEF RowRead, RowPassed, ReadingStops
    <3>3. QED
      BY <3>2 DEF Goal
  <2>3. CASE Inputs[k][j] # Inputs[input][next]
    <3>1. Sent(k, j)' => Sent(k, j)
      BY <1>5, <2>1, <2>3 DEF Sent
    <3>2. \A q \in Readers : reader[q] \in ReadingStops =>
            q # r /\ reader'[q] = reader[q] /\ asset'[q] = asset[q] /\ row'[q] = row[q]
      BY <1>6, <2>1 DEF ReadingStops
    <3>3. QED
      BY <1>3, <3>1, <3>2 DEF RowRead, RowPassed
  <2>4. QED
    BY <2>2, <2>3
<1>9. ASSUME NEW r \in Readers,
             AddRow(r) \/ StageRow(r) \/ AppendRows(r) \/ FinishAsset(r) \/ LeavePhase(r)
      PROVE  /\ (Sent(k, j)' => Sent(k, j)) /\ asset' = asset
             /\ \A q \in Readers : q # r => reader'[q] = reader[q] /\ row'[q] = row[q]
  BY <1>6, <1>9 DEF AddRow, StageRow, AppendRows, FinishAsset, LeavePhase, Sent, control
<1>10. ASSUME NEW r \in Readers, AddRow(r) PROVE Goal
  <2>0. /\ (Sent(k, j)' => Sent(k, j)) /\ asset' = asset
        /\ \A q \in Readers : q # r => reader'[q] = reader[q] /\ row'[q] = row[q]
    BY <1>9, <1>10
  <2>1. /\ reader[r] = "read"
        /\ \/ row'[r] = row[r] + 1 /\ reader'[r] = "read" /\ Shape(Current(r)).table = "none"
           \/ row'[r] = row[r] /\ reader'[r] = "stage"
    BY <1>6, <1>10 DEF AddRow, Reading
  <2>2. Held' = Held \cup DirectItems(Current(r))
    BY <1>10, AddRowHolds
  <2>3. CASE asset[r] = Inputs[k][j] /\ i = row[r]
    <3>1. source = Current(r)
      BY <2>3 DEF Current
    <3>2. RowPassed(k, j, i)' => Shape(source).table = "none"
      BY <1>4, <2>0, <2>1, <2>3, <3>1 DEF RowPassed, ReadingStops
    <3>3. QED
      BY <2>2, <3>1, <3>2 DEF Goal
  <2>4. CASE asset[r] # Inputs[k][j] \/ i # row[r]
    <3>1. RowRead(k, j, i)' => RowRead(k, j, i)
      BY <1>4, <1>6, <2>0, <2>1, <2>4 DEF RowRead, ReadingStops
    <3>2. RowPassed(k, j, i)' => RowPassed(k, j, i)
      BY <1>4, <1>6, <2>0, <2>1, <2>4 DEF RowPassed, ReadingStops
    <3>3. QED
      BY <1>3, <3>1, <3>2
  <2>5. QED
    BY <2>3, <2>4
<1>11. ASSUME NEW r \in Readers, StageRow(r) PROVE Goal
  <2>0. /\ (Sent(k, j)' => Sent(k, j)) /\ asset' = asset
        /\ \A q \in Readers : q # r => reader'[q] = reader[q] /\ row'[q] = row[q]
    BY <1>9, <1>11
  <2>1. reader[r] = "stage" /\ reader'[r] = "append" /\ row'[r] = row[r] + 1
    BY <1>6, <1>11 DEF StageRow
  <2>2. Staged' = Staged \cup {Current(r)}
    BY <1>11, StageRowHolds
  <2>3. RowRead(k, j, i)' => RowRead(k, j, i)
    BY <1>4, <1>6, <2>0, <2>1 DEF RowRead, ReadingStops
  <2>4. CASE asset[r] = Inputs[k][j] /\ i = row[r]
    <3>1. source = Current(r)
      BY <2>4 DEF Current
    <3>2. QED
      BY <1>1, <2>2, <2>3, <3>1 DEF Goal, DirectInv
  <2>5. CASE asset[r] # Inputs[k][j] \/ i # row[r]
    <3>1. RowPassed(k, j, i)' => RowPassed(k, j, i)
      BY <1>4, <1>6, <2>0, <2>1, <2>5 DEF RowPassed, ReadingStops
    <3>2. QED
      BY <1>3, <2>3, <3>1
  <2>6. QED
    BY <2>4, <2>5
<1>12. ASSUME NEW r \in Readers, AppendRows(r) PROVE Goal
  <2>0. /\ (Sent(k, j)' => Sent(k, j)) /\ asset' = asset
        /\ \A q \in Readers : q # r => reader'[q] = reader[q] /\ row'[q] = row[q]
    BY <1>9, <1>12
  <2>1. reader[r] = "append" /\ reader'[r] = "read" /\ row'[r] = row[r]
    BY <1>6, <1>12 DEF AppendRows
  <2>2. QED
    BY <1>3, <2>0, <2>1 DEF RowRead, RowPassed, ReadingStops
<1>13. ASSUME NEW r \in Readers, FinishAsset(r) PROVE Goal
  <2>0. /\ (Sent(k, j)' => Sent(k, j)) /\ asset' = asset
        /\ \A q \in Readers : q # r => reader'[q] = reader[q] /\ row'[q] = row[q]
    BY <1>9, <1>13
  <2>1. row'[r] = row[r] /\ row[r] \notin DOMAIN Content[asset[r]]
    BY <1>13 DEF FinishAsset, HasRow
  <2>2. asset[r] = Inputs[k][j] => i < row[r]
    BY <1>4, <1>6, <2>1
  <2>3. QED
    BY <1>3, <2>0, <2>1, <2>2 DEF RowRead, RowPassed
<1>14. ASSUME NEW r \in Readers, LeavePhase(r) PROVE Goal
  <2>0. /\ (Sent(k, j)' => Sent(k, j)) /\ asset' = asset
        /\ \A q \in Readers : q # r => reader'[q] = reader[q] /\ row'[q] = row[q]
    BY <1>9, <1>14
  <2>1. reader[r] = "idle" /\ reader'[r] = "gone" /\ row'[r] = row[r]
    BY <1>6, <1>14 DEF LeavePhase
  <2>2. QED
    BY <1>3, <2>0, <2>1 DEF RowRead, RowPassed, ReadingStops
<1>15. ASSUME OpenPhase \/ (EndPhase /\ ~firstErr) PROVE Goal
  <2>1. \A r \in Readers : reader[r] = "gone"
    BY <1>15 DEF OpenPhase, EndPhase, ControlInv
  <2>2. Sent(k, j)' => Sent(k, j)
    <3>1. CASE OpenPhase
      <4>1. main' = "send" /\ next' = 1 /\ input' = input
        BY <3>1 DEF OpenPhase
      <4>2. QED
        BY <1>5, <4>1 DEF Sent
    <3>2. CASE EndPhase /\ ~firstErr
      <4>1. main = "join" /\ next > Len(Inputs[input])
        BY <3>2 DEF EndPhase, EmptyInv
      <4>2. k = input => j < next
        BY <1>5, <4>1
      <4>3. \/ main' = "open" /\ input' = input + 1
            \/ main' = "flush" /\ ~(input < Len(Inputs))
        BY <3>2 DEF EndPhase
      <4>4. QED
        BY <1>5, <4>1, <4>2, <4>3 DEF Sent
    <3>3. QED
      BY <1>15, <3>1, <3>2
  <2>3. QED
    BY <1>3, <2>1, <2>2 DEF RowRead, RowPassed, ReadingStops
<1>16. ASSUME StopSending PROVE Goal
  <2>1. Sent(k, j)' => Sent(k, j)
    BY <1>16 DEF StopSending, Sent
  <2>2. UNCHANGED <<reader, asset, row>>
    BY <1>16 DEF StopSending, readerVars
  <2>3. (RowRead(k, j, i)' => RowRead(k, j, i)) /\ (RowPassed(k, j, i)' => RowPassed(k, j, i))
    BY <2>1, <2>2 DEF RowRead, RowPassed
  <2>4. QED
    BY <1>3, <2>3
<1>17. ASSUME \/ FlushRows \/ QueryJoin \/ EmitRow \/ EndJoin \/ FlushPending \/ CloseQueue
              \/ Return \/ (\E p \in Procs : SubmitBatch(p))
              \/ (\E w \in Writers : TakeBatch(w) \/ Write(w) \/ LeaveQueue(w))
              \/ UNCHANGED vars
       PROVE  Goal
  <2>1. UNCHANGED <<readerVars, input, next>>
    BY <1>17 DEF FlushRows, QueryJoin, EmitRow, EndJoin, FlushPending, CloseQueue, Return,
                 SubmitBatch, TakeBatch, Write, LeaveQueue, vars, control
  <2>2. main' = main \/ {main, main'} \cap {"open", "send", "join"} = {}
    BY <1>17 DEF FlushRows, QueryJoin, EmitRow, Emitting, EndJoin, AfterJoin, FlushPending,
                 CloseQueue, Return, SubmitBatch, TakeBatch, Write, LeaveQueue, vars, control
  <2>3. QED
    BY <1>7, <2>1, <2>2
<1>18. Goal
  <2>1. \A r \in Readers : SendAsset(r) \/ AddRow(r) \/ StageRow(r) \/ AppendRows(r)
                           \/ FinishAsset(r) \/ LeavePhase(r) => Goal
    BY <1>8, <1>10, <1>11, <1>12, <1>13, <1>14
  <2>2. \A w \in Writers : TakeBatch(w) \/ Write(w) \/ LeaveQueue(w) => Goal
    BY <1>17
  <2>3. \A p \in Procs : SubmitBatch(p) => Goal
    BY <1>17
  <2>4. FlushRows \/ QueryJoin \/ EmitRow \/ EndJoin \/ FlushPending \/ CloseQueue \/ Return
          \/ UNCHANGED vars => Goal
    BY <1>17
  <2>5. \/ \E r \in Readers : SendAsset(r) \/ AddRow(r) \/ StageRow(r) \/ AppendRows(r)
                              \/ FinishAsset(r) \/ LeavePhase(r)
        \/ \E p \in Procs : SubmitBatch(p)
        \/ OpenPhase \/ StopSending \/ FlushRows \/ QueryJoin \/ EmitRow \/ EndJoin
        \/ FlushPending \/ CloseQueue \/ Return \/ (EndPhase /\ ~firstErr)
        \/ \E w \in Writers : TakeBatch(w) \/ Write(w) \/ LeaveQueue(w)
        \/ UNCHANGED vars
    BY CalmSteps
  <2>6. QED
    BY <1>15, <1>16, <2>1, <2>2, <2>3, <2>4, <2>5
<1>19. QED
  BY <1>18 DEF Goal

\* What a row yields in a join is held once the join has listed it.
LEMMA JoinStep ==
  ASSUME TypeOK, StageInv, ControlInv, WatchInv, JoinInv, [Next]_vars, ~Trouble'
  PROVE  JoinInv'
<1>1. Held \subseteq Held'
  BY NothingIsLost
<1>2. ASSUME UNCHANGED <<table, joinLeft>>,
             main' = main \/ {main, main'} \subseteq {"pending", "close", "wait", "returned"}
      PROVE  JoinInv'
  BY <1>1, <1>2 DEF JoinInv, JoinStops
<1>3. ASSUME main' \in {"open", "send", "join", "flush", "divisions"} PROVE JoinInv'
  BY <1>3 DEF JoinInv, JoinStops
<1>4. ASSUME NEW r \in Readers,
             SendAsset(r) \/ AddRow(r) \/ StageRow(r) \/ AppendRows(r) \/ FinishAsset(r)
               \/ LeavePhase(r)
      PROVE  JoinInv'
  <2>1. reader[r] # "gone" /\ main' = main
    BY <1>4 DEF SendAsset, AddRow, StageRow, AppendRows, FinishAsset, LeavePhase, Reading, control
  <2>2. main' \in {"send", "join"}
    BY <2>1 DEF ControlInv
  <2>3. QED
    BY <1>3, <2>2
<1>5. CASE OpenPhase \/ StopSending \/ (EndPhase /\ ~firstErr) \/ FlushRows
  <2>1. main' \in {"open", "send", "join", "flush", "divisions"}
    BY <1>5 DEF OpenPhase, StopSending, EndPhase, FlushRows
  <2>2. QED
    BY <1>3, <2>1
<1>6. CASE QueryJoin
  <2>1. /\ joinLeft' = {staged \in table : Shape(staged).table \in JoinOf(main)}
        /\ table' = table
        /\ \/ main = "divisions" /\ main' = "emit divisions"
           \/ main = "links" /\ main' = "emit links"
    BY <1>6 DEF QueryJoin, auxVars
  <2>2. QED
    BY <1>1, <2>1 DEF JoinInv, JoinStops
<1>7. CASE EmitRow
  <2>1. PICK emitted \in joinLeft : /\ joinLeft' = joinLeft \ {emitted}
                                    /\ Held' = Held \cup JoinedItems(emitted)
    BY <1>7, EmitRowHolds
  <2>2. table' = table /\ main' = main
    BY <1>7 DEF EmitRow, auxVars, control
  <2>3. QED
    BY <2>1, <2>2 DEF JoinInv
<1>8. CASE EndJoin
  <2>1. /\ joinLeft = {} /\ table' = table
        /\ \/ main = "emit divisions" /\ main' = "links"
           \/ main = "emit links" /\ main' = "pending"
    BY <1>8 DEF EndJoin, Emitting, AfterJoin, auxVars
  <2>2. QED
    BY <1>1, <2>1 DEF JoinInv, JoinStops
<1>9. ASSUME FlushPending \/ CloseQueue \/ Return PROVE JoinInv'
  <2>1. /\ {main, main'} \subseteq {"pending", "close", "wait", "returned"}
        /\ UNCHANGED <<table, joinLeft>>
    BY <1>9 DEF FlushPending, CloseQueue, Return, auxVars, joinVars
  <2>2. QED
    BY <1>2, <2>1
<1>10. ASSUME \/ \E p \in Procs : SubmitBatch(p)
              \/ \E w \in Writers : (TakeBatch(w) /\ ~SinkDone) \/ Write(w) \/ LeaveQueue(w)
              \/ UNCHANGED vars
       PROVE  JoinInv'
  <2>1. UNCHANGED <<main, table, joinLeft>>
    BY <1>10 DEF SubmitBatch, TakeBatch, Write, LeaveQueue, vars, control, auxVars, joinVars
  <2>2. QED
    BY <1>2, <2>1
<1>11. QED
  BY <1>4, <1>5, <1>6, <1>7, <1>8, <1>9, <1>10, CalmSteps

\* Main leaves nothing behind in a buffer, and writers leave an empty queue.
LEMMA EmptyStep ==
  ASSUME TypeOK, ControlInv, WatchInv, EmptyInv, [Next]_vars, ~Trouble'
  PROVE  EmptyInv'
<1> DEFINE Buffers ==
             /\ main \notin {"open", "send", "join", "flush"} => auxRows = {}
             /\ main \notin {"emit divisions", "emit links"} => joinBuf = {}
             /\ main \in {"close", "wait", "returned"} => pending = {}
             /\ main = "join" => next > Len(Inputs[input])
           Queue == \A w \in Writers : writer[w] = "gone" => queue = <<>> /\ closed
<1>1. Buffers /\ Queue
  BY DEF EmptyInv
<1>2. Buffers' /\ Queue' => EmptyInv'
  BY DEF EmptyInv
<1>3. ASSUME UNCHANGED <<queue, closed, writer>> PROVE Queue'
  BY <1>1, <1>3
<1>4. ASSUME UNCHANGED <<main, auxRows, joinBuf, pending, next, input>> PROVE Buffers'
  BY <1>1, <1>4
<1>5. ASSUME NEW r \in Readers,
             SendAsset(r) \/ AddRow(r) \/ StageRow(r) \/ AppendRows(r) \/ FinishAsset(r)
               \/ LeavePhase(r)
      PROVE  EmptyInv'
  <2>1. /\ reader[r] # "gone" /\ main' = main /\ joinBuf' = joinBuf
        /\ UNCHANGED <<queue, closed, writer>>
        /\ main = "join" => UNCHANGED <<next, input>>
    BY <1>5 DEF SendAsset, AddRow, StageRow, AppendRows, FinishAsset, LeavePhase, Reading,
                control, joinVars, queueVars, sinkVars
  <2>2. main \in {"send", "join"}
    BY <2>1 DEF ControlInv
  <2>3. Buffers'
    BY <1>1, <2>1, <2>2
  <2>4. QED
    BY <1>2, <1>3, <2>1, <2>3
<1>6. ASSUME NEW p \in Procs, SubmitBatch(p) PROVE EmptyInv'
  <2>1. \A w \in Writers : writer[w] # "gone"
    <3>1. ~closed
      BY <1>6 DEF SubmitBatch, ControlInv, Procs
    <3>2. QED
      BY <1>1, <3>1
  <2>2. UNCHANGED <<writer, main, auxRows, joinBuf, pending, next, input>>
    BY <1>6 DEF SubmitBatch, control, auxVars, joinVars, sinkVars
  <2>3. QED
    BY <1>2, <1>4, <2>1, <2>2
<1>7. ASSUME NEW w \in Writers, (TakeBatch(w) /\ ~SinkDone) \/ Write(w) \/ LeaveQueue(w)
      PROVE  EmptyInv'
  <2>1. UNCHANGED <<main, auxRows, joinBuf, pending, next, input, closed>>
    BY <1>7 DEF TakeBatch, Write, LeaveQueue, control, auxVars, joinVars, queueVars
  <2>2. writer \in [Writers -> {"idle", "writing", "gone"}]
    BY DEF TypeOK
  <2>3. CASE TakeBatch(w) /\ ~SinkDone
    <3>1. queue # <<>> /\ writer' = [writer EXCEPT ![w] = "writing"]
      BY <2>3 DEF TakeBatch
    <3>2. \A v \in Writers : writer'[v] # "gone"
      BY <1>1, <2>2, <3>1
    <3>3. QED
      BY <1>2, <1>4, <2>1, <3>2
  <2>4. CASE Write(w)
    <3>1. writer' = [writer EXCEPT ![w] = "idle"] /\ queue' = queue
      BY <2>4 DEF Write, queueVars
    <3>2. QED
      BY <1>1, <1>2, <1>4, <2>1, <2>2, <3>1
  <2>5. CASE LeaveQueue(w)
    <3>1. queue' = <<>> /\ closed'
      BY <2>5 DEF LeaveQueue, queueVars
    <3>2. QED
      BY <1>2, <1>4, <2>1, <3>1
  <2>6. QED
    BY <1>7, <2>3, <2>4, <2>5
<1>8. ASSUME \/ OpenPhase \/ StopSending \/ FlushRows \/ QueryJoin \/ EmitRow \/ EndJoin
             \/ FlushPending \/ Return \/ (EndPhase /\ ~firstErr)
      PROVE  EmptyInv'
  <2>1. UNCHANGED <<queue, closed, writer>>
    BY <1>8 DEF OpenPhase, StopSending, FlushRows, QueryJoin, EmitRow, EndJoin, FlushPending,
                Return, EndPhase, queueVars, sinkVars
  <2>2. Buffers'
    <3>1. CASE OpenPhase
      BY <1>1, <3>1 DEF OpenPhase, auxVars, joinVars
    <3>2. CASE StopSending
      <4>1. ~PhaseDone
        BY CalmSteps DEF PhaseDone, Trouble, WatchInv
      <4>2. QED
        BY <1>1, <3>2, <4>1 DEF StopSending, auxVars, joinVars
    <3>3. CASE FlushRows
      BY <1>1, <3>3 DEF FlushRows, joinVars
    <3>4. CASE QueryJoin
      BY <1>1, <3>4 DEF QueryJoin, auxVars
    <3>5. CASE EmitRow
      BY <1>1, <3>5 DEF EmitRow, Emitting, auxVars, control
    <3>6. CASE EndJoin
      BY <1>1, <3>6 DEF EndJoin, Emitting, AfterJoin, Rest, auxVars
    <3>7. CASE FlushPending
      BY <1>1, <3>7 DEF FlushPending, auxVars, joinVars
    <3>8. CASE Return
      BY <1>1, <3>8 DEF Return, auxVars, joinVars
    <3>9. CASE EndPhase /\ ~firstErr
      BY <1>1, <3>9 DEF EndPhase, auxVars, joinVars
    <3>10. QED
      BY <1>8, <3>1, <3>2, <3>3, <3>4, <3>5, <3>6, <3>7, <3>8, <3>9
  <2>3. QED
    BY <1>2, <1>3, <2>1, <2>2
<1>9. CASE CloseQueue
  <2>1. /\ main = "close" /\ main' = "wait" /\ closed' = TRUE
        /\ UNCHANGED <<queue, writer, auxRows, joinBuf, pending>>
    BY <1>9 DEF CloseQueue, auxVars, joinVars, sinkVars
  <2>2. QED
    BY <1>1, <1>2, <2>1
<1>10. CASE UNCHANGED vars
  <2>1. UNCHANGED <<queue, closed, writer, main, auxRows, joinBuf, pending, next, input>>
    BY <1>10 DEF vars, control, auxVars, joinVars, queueVars, sinkVars
  <2>2. QED
    BY <1>2, <1>3, <1>4, <2>1
<1>11. QED
  BY <1>5, <1>6, <1>7, <1>8, <1>9, <1>10, CalmSteps

-----------------------------------------------------------------------------
(* The invariant.                                                          *)

LEMMA InitConservation == Init => CInv
<1> SUFFICES ASSUME Init PROVE CInv
  OBVIOUS
<1>1. Held = {}
  BY PartsOfEmpty, HeldPlaces DEF Init
<1>2. /\ Len(Inputs) \in Nat /\ \A k \in DOMAIN Inputs : k > 0 /\ k \in Nat
      /\ \A k \in DOMAIN Inputs : \A j \in DOMAIN Inputs[k] : j > 0 /\ j \in Nat
  <2>1. \A k \in DOMAIN Inputs : DOMAIN Inputs[k] = 1..Len(Inputs[k])
    BY InputsFacts, SeqFacts
  <2>2. QED
    BY <2>1, InputsFacts
<1>3. \A k \in DOMAIN Inputs : \A j \in DOMAIN Inputs[k] : ~Sent(k, j)
  BY <1>2 DEF Init, Sent
<1>4. WatchInv
  BY <1>1 DEF Init, WatchInv, Trouble
<1>5. DirectInv /\ StagedInv
  BY <1>3 DEF DirectInv, StagedInv, RowRead, RowPassed
<1>6. JoinInv /\ EmptyInv
  BY DEF Init, JoinInv, JoinStops, EmptyInv
<1>7. QED
  BY <1>4, <1>5, <1>6 DEF CInv

\* The invariant holds of every reachable state.
THEOREM Conservation == Spec => [](IInv /\ CInv)
<1>1. Init => IInv /\ CInv
  BY InitType, InitControl, InitConservation DEF IInv
<1>2. IInv /\ CInv /\ [Next]_vars => (IInv /\ CInv)'
  <2> SUFFICES ASSUME IInv, CInv, [Next]_vars PROVE IInv' /\ CInv'
    OBVIOUS
  <2>1. IInv'
    BY NextType, NextStage, NextControl DEF IInv
  <2>2. WatchInv'
    BY WatchStep DEF IInv, CInv
  <2>3. ASSUME ~Trouble' PROVE DirectInv' /\ StagedInv' /\ JoinInv' /\ EmptyInv'
    <3>1. ~Trouble
      BY <2>3, TroubleLasts DEF CInv
    <3>2. QED
      BY <2>3, <3>1, ReadStep, JoinStep, EmptyStep DEF IInv, CInv
  <2>4. QED
    BY <2>1, <2>2, <2>3 DEF CInv
<1>3. QED
  BY <1>1, <1>2, PTL DEF Spec

\* PrepareStreaming returns nil only if every output of every row is written.
THEOREM SuccessWritesEverything == Spec => []SuccessIsComplete
<1>1. IInv /\ CInv => SuccessIsComplete
  <2> SUFFICES ASSUME IInv, CInv, result = "nil" PROVE written = AllItems
    BY DEF SuccessIsComplete
  <2>1. /\ TypeOK /\ ControlInv /\ WatchInv
        /\ DirectInv /\ StagedInv /\ JoinInv /\ EmptyInv
    BY DEF IInv, CInv, WatchInv
  <2>2. /\ main = "returned"
        /\ \A r \in Readers : reader[r] = "gone"
        /\ \A p \in Procs : toSubmit[p] = <<>>
        /\ \A w \in Writers : writer[w] = "gone"
    BY <2>1 DEF ControlInv, Procs
  <2>3. /\ queue = <<>> /\ joinBuf = {} /\ pending = {} /\ auxRows = {}
        /\ \A w \in Writers : writing[w] = {}
        /\ \A r \in Readers : auxBatch[r] = {}
    BY <2>1, <2>2, ProcsAssumption DEF EmptyInv, WatchInv
  <2>4. Held = written
    BY <2>2, <2>3, HeldPlaces, PartsOfEmpty
  <2>5. Staged = table
    BY <2>3, StagedPlaces
  <2>6. ASSUME NEW source \in Rows
        PROVE  DirectItems(source) \cup JoinedItems(source) \subseteq Held
    <3>1. PICK a \in Assets : \E i \in DOMAIN Content[a] : source = <<a, i>>
      BY DEF Rows
    <3>2. PICK i \in DOMAIN Content[a] : source = <<a, i>>
      BY <3>1
    <3>3. PICK k \in DOMAIN Inputs : \E j \in DOMAIN Inputs[k] : Inputs[k][j] = a
      BY InputsAssumption
    <3>4. PICK j \in DOMAIN Inputs[k] : Inputs[k][j] = a
      BY <3>3
    <3>5. RowRead(k, j, i) /\ RowPassed(k, j, i)
      BY <2>2 DEF RowRead, RowPassed, Sent, ReadingStops
    <3>6. DirectItems(source) \subseteq Held
      BY <2>1, <3>2, <3>4, <3>5 DEF DirectInv
    <3>7. Shape(source).table = "none" \/ source \in table
      BY <2>1, <2>5, <3>2, <3>4, <3>5 DEF StagedInv
    <3>8. Shape(source).table \in Tables
      <4>1. Content[a] \in Seq(Shapes)
        BY ContentAssumption
      <4>2. Content[a][i] \in Shapes
        BY <4>1
      <4>3. QED
        BY <3>2, <4>2 DEF Shape, Shapes
    <3>9. JoinedItems(source) \subseteq Held
      <4>1. CASE Shape(source).table = "none"
        BY <4>1, ContentAssumption DEF JoinedItems
      <4>2. CASE Shape(source).table # "none"
        <5>1. PICK stage \in {"divisions", "links"} : Shape(source).table \in JoinOf(stage)
          BY <3>8, <4>2 DEF Tables, JoinOf
        <5>2. QED
          BY <2>1, <2>2, <3>7, <4>2, <5>1 DEF JoinInv, JoinStops
      <4>3. QED
        BY <4>1, <4>2
    <3>10. QED
      BY <3>6, <3>9
  <2>7. AllItems \subseteq Held
    BY <2>6 DEF AllItems
  <2>8. QED
    BY <2>1, <2>4, <2>7 DEF WatchInv
<1>2. QED
  BY <1>1, Conservation, PTL

-----------------------------------------------------------------------------
(* Exactly once: no output is in two places.                               *)

\* Two readers never read one asset, and an asset is read by the phase that sent it.
ReadingInv ==
  /\ \A r \in Readers : reader[r] \in ReadingStops =>
       \E j \in DOMAIN Inputs[input] : j < next /\ asset[r] = Inputs[input][j]
  /\ \A r, q \in Readers : r # q /\ {reader[r], reader[q]} \subseteq ReadingStops =>
       asset[r] # asset[q]

\* What a row yields when it is read is nowhere before.
UnreadInv ==
  \A k \in DOMAIN Inputs : \A j \in DOMAIN Inputs[k] : \A i \in DOMAIN Content[Inputs[k][j]] :
    ~RowRead(k, j, i) => DirectItems(<<Inputs[k][j], i>>) \cap Held = {}

\* A join has not come to a row.
Unjoined(source) ==
  \E stage \in {"divisions", "links"} :
    /\ Shape(source).table \in JoinOf(stage)
    /\ \/ main \notin JoinStops(stage)
       \/ /\ main = IF stage = "divisions" THEN "emit divisions" ELSE "emit links"
          /\ source \in joinLeft

\* What a join yields for a row is nowhere before; a join has rows of its tables.
UnjoinedInv ==
  /\ \A source \in Rows : Unjoined(source) => JoinedItems(source) \cap Held = {}
  /\ \A stage \in {"divisions", "links"} :
       main = (IF stage = "divisions" THEN "emit divisions" ELSE "emit links") =>
         \A staged \in joinLeft : Shape(staged).table \in JoinOf(stage)

\* No two of the batches have an item in common.
Apart(parts) == \A i, j \in DOMAIN parts : i # j => parts[i] \cap parts[j] = {}

\* What each goroutine is submitting.
Submitting == [p \in Procs |-> Parts(toSubmit[p])]

\* Six sets that have nothing in common.
Disjoint(a, b, c, d, e, f) ==
  /\ a \cap b = {} /\ a \cap c = {} /\ a \cap d = {} /\ a \cap e = {} /\ a \cap f = {}
  /\ b \cap c = {} /\ b \cap d = {} /\ b \cap e = {} /\ b \cap f = {}
  /\ c \cap d = {} /\ c \cap e = {} /\ c \cap f = {}
  /\ d \cap e = {} /\ d \cap f = {}
  /\ e \cap f = {}

\* The batches of one kind have nothing in common, nor have the kinds of places.
PlaceInv ==
  /\ Apart(queue) /\ Apart(writing) /\ Apart(Submitting)
  /\ \A p \in Procs : Apart(toSubmit[p])
  /\ Disjoint(pending, joinBuf, Parts(Submitting), Parts(queue), Parts(writing), written)

OInv == ReadingInv /\ UnreadInv /\ UnjoinedInv /\ PlaceInv

\* Different rows yield different items, and what a row yields when it is read
\* it does not yield in a join.
LEMMA ItemsDiffer ==
  ASSUME NEW source \in Rows, NEW other \in Rows
  PROVE  /\ source # other => /\ DirectItems(source) \cap DirectItems(other) = {}
                              /\ JoinedItems(source) \cap JoinedItems(other) = {}
         /\ DirectItems(source) \cap JoinedItems(other) = {}
<1>1. /\ \A item \in DirectItems(source) : item[2] = source
      /\ \A item \in DirectItems(other) : item[2] = other
      /\ \A item \in JoinedItems(source) : item[2] = source
      /\ \A item \in JoinedItems(other) : item[2] = other
  BY DEF DirectItems, JoinedItems
<1>2. Shape(source) \in Shapes
  <2>1. PICK a \in Assets : \E i \in DOMAIN Content[a] : source = <<a, i>>
    BY DEF Rows
  <2>2. PICK i \in DOMAIN Content[a] : source = <<a, i>>
    BY <2>1
  <2>3. Content[a] \in Seq(Shapes)
    BY ContentAssumption
  <2>4. Content[a][i] \in Shapes
    BY <2>3
  <2>5. QED
    BY <2>2, <2>4 DEF Shape
<1>3. /\ Shape(source).direct \in SUBSET {"records", "rejections"}
      /\ Shape(source).table \in {"none", "divisions", "link_addresses", "link_businesses"}
  BY <1>2 DEF Shapes, Tables
<1>4. Shape(source).direct \cap Shape(source).joined = {}
  <2>1. CASE Shape(source).table = "none"
    BY <2>1, ContentAssumption
  <2>2. CASE Shape(source).table = "divisions"
    BY <2>2, ContentAssumption
  <2>3. CASE Shape(source).table \in {"link_addresses", "link_businesses"}
    <3>1. Shape(source).joined \subseteq {"relationships"}
      BY <2>3, ContentAssumption
    <3>2. QED
      BY <1>3, <3>1
  <2>4. QED
    BY <1>3, <2>1, <2>2, <2>3
<1>5. DirectItems(source) \cap JoinedItems(source) = {}
  BY <1>4 DEF DirectItems, JoinedItems
<1>6. QED
  BY <1>1, <1>5

\* What a step adds to the items is what a row yields that is read, or joined.
LEMMA HeldSteps ==
  ASSUME TypeOK, StageInv, ControlInv, WatchInv, [Next]_vars
  PROVE  \/ Held' \subseteq Held
         \/ \E r \in Readers : AddRow(r) /\ Held' = Held \cup DirectItems(Current(r))
         \/ EmitRow /\ \E staged \in joinLeft : /\ joinLeft' = joinLeft \ {staged}
                                                /\ Held' = Held \cup JoinedItems(staged)
<1>1. ASSUME UNCHANGED <<pending, joinBuf, toSubmit, queue, writing, written>>
      PROVE  Held' = Held
  BY <1>1 DEF Held
<1>2. ASSUME NEW p \in Procs, SubmitStep(p) PROVE Held' \subseteq Held
  <2>1. CASE SubmitBatch(p)
    BY <2>1, SubmitHolds
  <2>2. CASE FailSubmit(p)
    <3>1. \A q \in Procs : toSubmit'[q] = IF q = p THEN <<>> ELSE toSubmit[q]
      BY <2>2 DEF FailSubmit, TypeOK
    <3>2. \A q \in Procs : Parts(toSubmit'[q]) \subseteq Parts(toSubmit[q])
      BY <3>1, PartsOfEmpty
    <3>3. UNCHANGED <<pending, joinBuf, queue, writing, written>>
      BY <2>2 DEF FailSubmit, joinVars, queueVars, sinkVars
    <3>4. QED
      BY <3>2, <3>3, HeldPlaces
  <2>3. QED
    BY <1>2, <2>1, <2>2 DEF SubmitStep
<1>3. ASSUME NEW r \in Readers, ReaderStep(r), ~AddRow(r) PROVE Held' \subseteq Held
  BY <1>1, <1>3 DEF ReaderStep, SendAsset, StageRow, AppendRows, FailAsset, FinishAsset,
                    LeavePhase, joinVars, queueVars, sinkVars
<1>4. ASSUME MainStep, ~EmitRow PROVE Held' \subseteq Held
  <2>1. CASE EndJoin \/ FlushPending
    BY <2>1, FlushesHold
  <2>2. CASE ~(EndJoin \/ FlushPending)
    BY <1>1, <1>4, <2>2
       DEF MainStep, OpenPhase, FailOpen, StopSending, EndPhase, FlushRows, QueryJoin,
           FailJoin, CloseQueue, Return, joinVars, queueVars, sinkVars
  <2>3. QED
    BY <2>1, <2>2
<1>5. ASSUME Cancel \/ UNCHANGED vars PROVE Held' \subseteq Held
  BY <1>1, <1>5 DEF Cancel, vars, joinVars, queueVars, sinkVars
<1>6. ASSUME NEW w \in Writers, WriterStep(w) PROVE Held' \subseteq Held
  BY <1>6, WriterHolds
<1>7. ASSUME NEW r \in Readers, AddRow(r)
      PROVE  Held' = Held \cup DirectItems(Current(r))
  BY <1>7, AddRowHolds
<1>8. QED
  BY <1>2, <1>3, <1>4, <1>5, <1>6, <1>7, EmitRowHolds DEF Next, Returned

\* The state a row's reader, or the sending, has to be in.
LEMMA Places ==
  ASSUME TypeOK, WatchInv, NEW k \in DOMAIN Inputs, NEW j \in DOMAIN Inputs[k]
  PROVE  /\ k \in Nat /\ j \in Nat /\ j > 0 /\ k <= Len(Inputs) /\ j <= Len(Inputs[k])
         /\ input \in Nat /\ next \in Nat /\ Len(Inputs) \in Nat /\ Len(Inputs[k]) \in Nat
         /\ \A i \in DOMAIN Content[Inputs[k][j]] : i \in Nat /\ i > 0
         /\ \A r \in Readers : row[r] \in Nat /\ row[r] > 0
<1>1. DOMAIN Inputs = 1..Len(Inputs) /\ Len(Inputs) \in Nat /\ Inputs[k] \in Seq(Assets)
  BY InputsFacts
<1>2. DOMAIN Inputs[k] = 1..Len(Inputs[k]) /\ Len(Inputs[k]) \in Nat
  BY <1>1, SeqFacts
<1>3. Content[Inputs[k][j]] \in Seq(Shapes)
  BY InputsAreAssets, ContentAssumption
<1>4. DOMAIN Content[Inputs[k][j]] = 1..Len(Content[Inputs[k][j]])
      /\ Len(Content[Inputs[k][j]]) \in Nat
  BY <1>3, SeqFacts
<1>5. input \in DOMAIN Inputs /\ next \in Nat /\ \A r \in Readers : row[r] \in Nat
  BY DEF TypeOK
<1>6. \A r \in Readers : row[r] > 0
  BY DEF WatchInv
<1>7. QED
  BY <1>1, <1>2, <1>4, <1>5, <1>6

\* The readers' stops, and what they read, change in a few steps only.
LEMMA ReaderWays ==
  ASSUME TypeOK, ControlInv, [Next]_vars
  PROVE  \/ /\ UNCHANGED <<reader, asset, row>>
            /\ UNCHANGED <<input, next>> \/ \A r \in Readers : reader[r] = "gone"
         \/ \E r \in Readers : SendAsset(r)
         \/ \E r \in Readers :
              /\ UNCHANGED <<asset, main, input, next>>
              /\ reader[r] # "gone"
              /\ \A q \in Readers : q # r => reader'[q] = reader[q] /\ row'[q] = row[q]
              /\ \/ AddRow(r)
                 \/ reader[r] = "stage" /\ reader'[r] = "append" /\ row'[r] = row[r] + 1
                 \/ reader[r] = "append" /\ reader'[r] = "read" /\ row'[r] = row[r]
                 \/ reader'[r] \in {"gone", "idle"} /\ row'[r] = row[r]
         \/ OpenPhase
<1> DEFINE Still == /\ UNCHANGED <<reader, asset, row>>
                    /\ UNCHANGED <<input, next>> \/ \A r \in Readers : reader[r] = "gone"
           Own(r) ==
       /\ UNCHANGED <<asset, main, input, next>>
       /\ reader[r] # "gone"
       /\ \A q \in Readers : q # r => reader'[q] = reader[q] /\ row'[q] = row[q]
       /\ \/ AddRow(r)
          \/ reader[r] = "stage" /\ reader'[r] = "append" /\ row'[r] = row[r] + 1
          \/ reader[r] = "append" /\ reader'[r] = "read" /\ row'[r] = row[r]
          \/ reader'[r] \in {"gone", "idle"} /\ row'[r] = row[r]
<1>1. /\ reader \in [Readers -> {"gone", "idle", "read", "stage", "append"}]
      /\ row \in [Readers -> Nat]
  BY DEF TypeOK
<1>2. ASSUME NEW r \in Readers, ReaderStep(r), ~SendAsset(r) PROVE Own(r)
  <2>1. CASE AddRow(r)
    BY <1>1, <2>1 DEF AddRow, Reading, control
  <2>2. CASE StageRow(r)
    BY <1>1, <2>2 DEF StageRow, control
  <2>3. CASE AppendRows(r)
    BY <1>1, <2>3 DEF AppendRows, control
  <2>4. CASE FailAsset(r)
    BY <1>1, <2>4 DEF FailAsset, Reading, Fail, control
  <2>5. CASE FinishAsset(r)
    BY <1>1, <2>5 DEF FinishAsset, Reading, control
  <2>6. CASE LeavePhase(r)
    BY <1>1, <2>6 DEF LeavePhase, control
  <2>7. QED
    BY <1>2, <2>1, <2>2, <2>3, <2>4, <2>5, <2>6 DEF ReaderStep
<1>3. ASSUME NEW p \in Procs, SubmitStep(p)
      PROVE  Still \/ (p \in Readers /\ Own(p))
  <2>1. CASE SubmitBatch(p)
    BY <2>1 DEF SubmitBatch, readerVars, control
  <2>2. CASE FailSubmit(p) /\ p = MAIN
    BY <2>2 DEF FailSubmit, GiveUp, readerVars
  <2>3. CASE FailSubmit(p) /\ p # MAIN
    <3>1. p \in Readers /\ reader[p] # "gone"
      BY <2>3 DEF FailSubmit, Procs, ControlInv
    <3>2. QED
      BY <1>1, <2>3, <3>1 DEF FailSubmit, Fail, control
  <2>4. QED
    BY <1>3, <2>1, <2>2, <2>3 DEF SubmitStep
<1>4. ASSUME MainStep PROVE OpenPhase \/ Still
  <2>1. CASE EndPhase
    BY <2>1 DEF EndPhase, readerVars
  <2>2. CASE ~(EndPhase \/ OpenPhase)
    BY <1>4, <2>2 DEF MainStep, FailOpen, StopSending, FlushRows, QueryJoin, EmitRow, EndJoin,
                      FlushPending, FailJoin, CloseQueue, Return, GiveUp, readerVars, control
  <2>3. QED
    BY <2>1, <2>2
<1>5. ASSUME NEW w \in Writers, WriterStep(w) PROVE Still
  BY <1>5 DEF WriterStep, TakeBatch, Write, FailWrite, LeaveQueue, readerVars, control
<1>6. Cancel \/ UNCHANGED vars => Still
  BY DEF Cancel, vars, readerVars, control
<1>7. (\E r \in Readers : Own(r)) \/ Still \/ (\E r \in Readers : SendAsset(r)) \/ OpenPhase
  <2> HIDE DEF Own, Still
  <2>1. QED
    BY <1>2, <1>3, <1>4, <1>5, <1>6 DEF Next, Returned
<1>8. QED
  BY <1>7

\* An asset that is being read was sent in this phase, to one reader.
LEMMA ReadingStep ==
  ASSUME TypeOK, ControlInv, WatchInv, ReadingInv, [Next]_vars
  PROVE  ReadingInv'
<1>0. /\ reader \in [Readers -> {"gone", "idle", "read", "stage", "append"}]
      /\ row \in [Readers -> Nat] /\ asset \in [Readers -> Assets]
      /\ next \in Nat /\ input \in DOMAIN Inputs
  BY DEF TypeOK
<1>1. ASSUME NEW r \in Readers, SendAsset(r) PROVE ReadingInv'
  <2>1. /\ reader' = [reader EXCEPT ![r] = "read"]
        /\ asset' = [asset EXCEPT ![r] = Inputs[input][next]]
        /\ next' = next + 1 /\ input' = input /\ next <= Len(Inputs[input])
    BY <1>1 DEF SendAsset
  <2>2. next \in DOMAIN Inputs[input]
    <3>1. Inputs[input] \in Seq(Assets)
      BY <1>0, InputsFacts
    <3>2. DOMAIN Inputs[input] = 1..Len(Inputs[input]) /\ Len(Inputs[input]) \in Nat
      BY <3>1, SeqFacts
    <3>3. next > 0
      BY DEF TypeOK
    <3>4. QED
      BY <1>0, <2>1, <3>2, <3>3
  <2>3. \A q \in Readers : q # r => reader'[q] = reader[q] /\ asset'[q] = asset[q]
    BY <1>0, <2>1
  <2>4. asset'[r] = Inputs[input][next]
    BY <1>0, <2>1
  <2>5. ASSUME NEW q \in Readers, reader'[q] \in ReadingStops
        PROVE  \E j \in DOMAIN Inputs[input] : j < next + 1 /\ asset'[q] = Inputs[input][j]
    <3>1. CASE q = r
      BY <1>0, <2>2, <2>4, <3>1
    <3>2. CASE q # r
      <4>1. PICK j \in DOMAIN Inputs[input] : j < next /\ asset[q] = Inputs[input][j]
        BY <2>3, <2>5, <3>2 DEF ReadingInv
      <4>2. j < next + 1
        BY <1>0, <4>1, Places
      <4>3. QED
        BY <2>3, <3>2, <4>1, <4>2
    <3>3. QED
      BY <3>1, <3>2
  <2>6. ASSUME NEW q \in Readers, reader[q] \in ReadingStops
        PROVE  asset[q] # Inputs[input][next]
    <3>1. PICK j \in DOMAIN Inputs[input] : j < next /\ asset[q] = Inputs[input][j]
      BY <2>6 DEF ReadingInv
    <3>2. j # next
      BY <1>0, <3>1, Places
    <3>3. QED
      BY <1>0, <2>2, <3>1, <3>2, InputsAssumption
  <2>7. \A p, q \in Readers : p # q /\ {reader'[p], reader'[q]} \subseteq ReadingStops =>
          asset'[p] # asset'[q]
    BY <2>3, <2>4, <2>6 DEF ReadingInv
  <2>8. QED
    BY <2>1, <2>5, <2>7 DEF ReadingInv
<1>2. ASSUME NEW r \in Readers,
             UNCHANGED <<asset, main, input, next>>, reader[r] # "gone",
             \A q \in Readers : q # r => reader'[q] = reader[q] /\ row'[q] = row[q],
             reader'[r] \in ReadingStops => reader[r] \in ReadingStops
      PROVE  ReadingInv'
  <2>1. \A q \in Readers : reader'[q] \in ReadingStops => reader[q] \in ReadingStops
    BY <1>2
  <2>2. QED
    BY <1>2, <2>1 DEF ReadingInv
<1>3. ASSUME UNCHANGED <<reader, asset, row>>,
             UNCHANGED <<input, next>> \/ \A r \in Readers : reader[r] = "gone"
      PROVE  ReadingInv'
  BY <1>3 DEF ReadingInv, ReadingStops
<1>4. CASE OpenPhase
  BY <1>4 DEF OpenPhase, ReadingInv, ReadingStops
<1>5. QED
  <2>1. ASSUME NEW r \in Readers, AddRow(r)
        PROVE  reader[r] \in ReadingStops
    BY <2>1 DEF AddRow, Reading, ReadingStops
  <2>2. QED
    BY <1>1, <1>2, <1>3, <1>4, <2>1, ReaderWays DEF ReadingStops

\* What was sent stays sent.
LEMMA SentLasts ==
  ASSUME TypeOK, ControlInv, WatchInv, [Next]_vars,
         NEW k \in DOMAIN Inputs, NEW j \in DOMAIN Inputs[k], Sent(k, j)
  PROVE  Sent(k, j)'
<1>0. k \in Nat /\ j \in Nat /\ input \in Nat /\ next \in Nat
  BY Places
<1>1. CASE main \notin {"open", "send", "join"}
  <2>1. main' \notin {"open", "send", "join"}
    <3>1. \A r \in Readers : ReaderStep(r) => main' = main
      BY DEF ReaderStep, SendAsset, AddRow, StageRow, AppendRows, FailAsset, FinishAsset,
             LeavePhase, control
    <3>2. \A p \in Procs : SubmitStep(p) => main' \in {main, "close"}
      BY DEF SubmitStep, SubmitBatch, FailSubmit, GiveUp, control
    <3>3. \A w \in Writers : WriterStep(w) => main' = main
      BY DEF WriterStep, TakeBatch, Write, FailWrite, LeaveQueue, control
    <3>4. MainStep => main' \notin {"open", "send", "join"}
      BY <1>1 DEF MainStep, OpenPhase, FailOpen, StopSending, EndPhase, FlushRows, QueryJoin,
                  EmitRow, EndJoin, AfterJoin, FlushPending, FailJoin, CloseQueue, Return,
                  GiveUp, control
    <3>5. Cancel \/ UNCHANGED vars => main' = main
      BY DEF Cancel, vars, control
    <3>6. QED
      BY <1>1, <3>1, <3>2, <3>3, <3>4, <3>5 DEF Next, Returned
  <2>2. QED
    BY <2>1 DEF Sent
<1>2. CASE main \in {"open", "send", "join"}
  <2>1. k < input \/ (k = input /\ main \in {"send", "join"} /\ j < next)
    BY <1>2 DEF Sent
  <2>2. ASSUME UNCHANGED <<main, input, next>> PROVE Sent(k, j)'
    BY <2>1, <2>2 DEF Sent
  <2>3. ASSUME NEW r \in Readers, ReaderStep(r) PROVE Sent(k, j)'
    <3>1. CASE SendAsset(r)
      BY <1>0, <2>1, <3>1 DEF SendAsset, Sent
    <3>2. CASE ~SendAsset(r)
      BY <2>2, <2>3, <3>2 DEF ReaderStep, AddRow, StageRow, AppendRows, FailAsset, FinishAsset,
                              LeavePhase, control
    <3>3. QED
      BY <3>1, <3>2
  <2>4. ASSUME NEW p \in Procs, SubmitStep(p) PROVE Sent(k, j)'
    <3>1. main' = "close" \/ UNCHANGED <<main, input, next>>
      BY <2>4 DEF SubmitStep, SubmitBatch, FailSubmit, GiveUp, control
    <3>2. QED
      BY <2>2, <3>1 DEF Sent
  <2>5. ASSUME MainStep PROVE Sent(k, j)'
    <3>1. CASE OpenPhase
      BY <2>1, <3>1 DEF OpenPhase, Sent
    <3>2. CASE StopSending
      BY <2>1, <3>2 DEF StopSending, Sent
    <3>3. CASE EndPhase
      <4>1. \/ main' \notin {"open", "send", "join"}
            \/ main' = "open" /\ input' = input + 1
        BY <3>3 DEF EndPhase, GiveUp
      <4>2. QED
        BY <1>0, <2>1, <4>1 DEF Sent
    <3>4. CASE ~(OpenPhase \/ StopSending \/ EndPhase)
      <4>1. main' \notin {"open", "send", "join"}
        BY <1>2, <2>5, <3>4 DEF MainStep, FailOpen, FlushRows, QueryJoin, EmitRow, Emitting,
                                EndJoin, FlushPending, FailJoin, CloseQueue, Return, GiveUp
      <4>2. QED
        BY <4>1 DEF Sent
    <3>5. QED
      BY <3>1, <3>2, <3>3, <3>4
  <2>6. ASSUME NEW w \in Writers, WriterStep(w) PROVE Sent(k, j)'
    BY <2>2, <2>6 DEF WriterStep, TakeBatch, Write, FailWrite, LeaveQueue, control
  <2>7. Cancel \/ UNCHANGED vars => Sent(k, j)'
    BY <2>2 DEF Cancel, vars, control
  <2>8. QED
    BY <2>3, <2>4, <2>5, <2>6, <2>7 DEF Next, Returned
<1>3. QED
  BY <1>1, <1>2

\* No row is read again.
LEMMA ReadLasts ==
  ASSUME TypeOK, ControlInv, WatchInv, ReadingInv, [Next]_vars,
         NEW k \in DOMAIN Inputs, NEW j \in DOMAIN Inputs[k],
         NEW i \in DOMAIN Content[Inputs[k][j]], RowRead(k, j, i)
  PROVE  RowRead(k, j, i)'
<1>0. /\ Sent(k, j) /\ Sent(k, j)' /\ i \in Nat
      /\ k \in Nat /\ j \in Nat /\ input \in Nat /\ next \in Nat
  BY SentLasts, Places DEF RowRead
<1>1. /\ reader \in [Readers -> {"gone", "idle", "read", "stage", "append"}]
      /\ row \in [Readers -> Nat] /\ asset \in [Readers -> Assets]
  BY DEF TypeOK
<1>2. \A r \in Readers : reader[r] \in ReadingStops /\ asset[r] = Inputs[k][j] =>
        i < row[r] \/ (reader[r] = "stage" /\ i = row[r])
  BY DEF RowRead
<1>3. SUFFICES ASSUME NEW r \in Readers, reader'[r] \in ReadingStops, asset'[r] = Inputs[k][j]
               PROVE  i < row'[r] \/ (reader'[r] = "stage" /\ i = row'[r])
  BY <1>0 DEF RowRead
<1>4. CASE UNCHANGED <<reader, asset, row>>
  BY <1>2, <1>3, <1>4
<1>5. CASE OpenPhase
  BY <1>3, <1>5 DEF OpenPhase, ReadingStops
<1>6. ASSUME NEW q \in Readers, SendAsset(q)
      PROVE  i < row'[r] \/ (reader'[r] = "stage" /\ i = row'[r])
  <2>1. /\ \A p \in Readers : p # q => reader'[p] = reader[p] /\ asset'[p] = asset[p]
                                      /\ row'[p] = row[p]
        /\ asset'[q] = Inputs[input][next] /\ main = "send" /\ next <= Len(Inputs[input])
    BY <1>1, <1>6 DEF SendAsset
  <2>2. Inputs[k][j] # Inputs[input][next]
    <3>1. ~(k = input /\ j = next)
      BY <1>0, <2>1 DEF Sent
    <3>2. input \in DOMAIN Inputs /\ next > 0
      BY DEF TypeOK
    <3>3. Inputs[input] \in Seq(Assets)
      BY <3>2, InputsFacts
    <3>4. next \in DOMAIN Inputs[input]
      BY <1>0, <2>1, <3>2, <3>3, SeqFacts
    <3>5. QED
      BY <3>1, <3>2, <3>4, InputsAssumption
  <2>3. r # q
    BY <1>3, <2>1, <2>2
  <2>4. QED
    BY <1>2, <1>3, <2>1, <2>3
<1>7. ASSUME NEW q \in Readers, asset' = asset,
             \A p \in Readers : p # q => reader'[p] = reader[p] /\ row'[p] = row[p],
             \/ AddRow(q)
             \/ reader[q] = "stage" /\ reader'[q] = "append" /\ row'[q] = row[q] + 1
             \/ reader[q] = "append" /\ reader'[q] = "read" /\ row'[q] = row[q]
             \/ reader'[q] \in {"gone", "idle"} /\ row'[q] = row[q]
      PROVE  i < row'[r] \/ (reader'[r] = "stage" /\ i = row'[r])
  <2>1. CASE r # q
    BY <1>2, <1>3, <1>7, <2>1
  <2>2. CASE r = q /\ AddRow(q)
    <3>1. /\ reader[q] = "read"
          /\ row'[q] \in {row[q], row[q] + 1}
      BY <1>1, <2>2 DEF AddRow, Reading
    <3>2. i < row[q]
      BY <1>2, <1>3, <1>7, <2>2, <3>1 DEF ReadingStops
    <3>3. QED
      BY <1>0, <1>1, <2>2, <3>1, <3>2
  <2>3. CASE r = q /\ ~AddRow(q)
    BY <1>0, <1>1, <1>2, <1>3, <1>7, <2>3 DEF ReadingStops
  <2>4. QED
    BY <2>1, <2>2, <2>3
<1>8. QED
  BY <1>4, <1>5, <1>6, <1>7, ReaderWays

\* A row yields nothing before it is read.
LEMMA UnreadStep ==
  ASSUME TypeOK, StageInv, ControlInv, WatchInv, ReadingInv, UnreadInv, UnjoinedInv,
         [Next]_vars
  PROVE  UnreadInv'
<1>1. SUFFICES ASSUME NEW k \in DOMAIN Inputs, NEW j \in DOMAIN Inputs[k],
                      NEW i \in DOMAIN Content[Inputs[k][j]], ~RowRead(k, j, i)'
               PROVE  DirectItems(<<Inputs[k][j], i>>) \cap Held' = {}
  BY DEF UnreadInv
<1> DEFINE source == <<Inputs[k][j], i>>
<1>2. ~RowRead(k, j, i) /\ DirectItems(source) \cap Held = {}
  BY <1>1, ReadLasts DEF UnreadInv
<1>3. source \in Rows
  BY InputsAreAssets DEF Rows
<1>4. CASE Held' \subseteq Held
  BY <1>2, <1>4
<1>5. ASSUME NEW r \in Readers, AddRow(r), Held' = Held \cup DirectItems(Current(r))
      PROVE  DirectItems(source) \cap Held' = {}
  <2>1. Current(r) \in Rows
    BY <1>5, CurrentIsRow DEF AddRow
  <2>2. source # Current(r)
    <3>1. ASSUME asset[r] = Inputs[k][j], i = row[r] PROVE FALSE
      <4>1. /\ reader[r] = "read" /\ UNCHANGED <<asset, control>>
            /\ \A q \in Readers : q # r => reader'[q] = reader[q] /\ row'[q] = row[q]
            /\ \/ row'[r] = row[r] + 1
               \/ row'[r] = row[r] /\ reader'[r] = "stage"
        BY <1>5 DEF AddRow, Reading, TypeOK
      <4>2. row[r] \in Nat
        BY DEF TypeOK
      <4>3. \A q \in Readers : q # r /\ reader[q] \in ReadingStops => asset[q] # Inputs[k][j]
        BY <3>1, <4>1 DEF ReadingInv, ReadingStops
      <4>4. Sent(k, j)'
        <5>1. r \in Readers /\ reader[r] \in ReadingStops
          BY <4>1 DEF ReadingStops
        <5>2. PICK l \in DOMAIN Inputs[input] : l < next /\ asset[r] = Inputs[input][l]
          BY <5>1 DEF ReadingInv
        <5>3. input \in DOMAIN Inputs /\ main \in {"send", "join"}
          BY <4>1 DEF TypeOK, ControlInv
        <5>4. k = input /\ j = l
          <6>1. Inputs[k][j] = Inputs[input][l]
            BY <3>1, <5>2
          <6>2. QED
            BY <5>2, <5>3, <6>1, InputsAssumption
        <5>5. QED
          BY <4>1, <5>2, <5>3, <5>4 DEF Sent, control
      <4>5. RowRead(k, j, i)'
        BY <3>1, <4>1, <4>2, <4>3, <4>4 DEF RowRead
      <4>6. QED
        BY <1>1, <4>5
    <3>2. QED
      BY <3>1 DEF Current
  <2>3. QED
    BY <1>2, <1>3, <1>5, <2>1, <2>2, ItemsDiffer
<1>6. ASSUME NEW staged \in joinLeft, Held' = Held \cup JoinedItems(staged)
      PROVE  DirectItems(source) \cap Held' = {}
  <2>1. staged \in Rows
    BY DEF TypeOK
  <2>2. QED
    BY <1>2, <1>3, <1>6, <2>1, ItemsDiffer
<1>7. QED
  BY <1>4, <1>5, <1>6, HeldSteps

\* A join yields nothing for a row before it has listed the row.
LEMMA UnjoinedStep ==
  ASSUME TypeOK, StageInv, ControlInv, WatchInv, UnreadInv, UnjoinedInv, [Next]_vars
  PROVE  UnjoinedInv'
<1> DEFINE Emit(stage) == IF stage = "divisions" THEN "emit divisions" ELSE "emit links"
           Left == \A stage \in {"divisions", "links"} : main = Emit(stage) =>
                     \A staged \in joinLeft : Shape(staged).table \in JoinOf(stage)
<1>1. Left /\ \A source \in Rows : Unjoined(source) => JoinedItems(source) \cap Held = {}
  BY DEF UnjoinedInv
<1>2. ASSUME UNCHANGED joinLeft, main' = main
             \/ {main, main'} \subseteq {"open", "send", "join", "flush", "divisions"}
             \/ main' \in {"pending", "close", "wait", "returned"}
      PROVE  /\ Left'
             /\ \A source \in Rows : Unjoined(source)' => Unjoined(source)
  BY <1>1, <1>2 DEF Unjoined, JoinStops
<1>3. ASSUME ~QueryJoin, ~EmitRow, ~EndJoin
      PROVE  UNCHANGED joinLeft /\ \/ main' = main
                                   \/ {main, main'} \subseteq {"open", "send", "join", "flush", "divisions"}
                                   \/ main' \in {"pending", "close", "wait", "returned"}
  <2>1. \A r \in Readers : ReaderStep(r) => UNCHANGED <<joinLeft, main>>
    BY DEF ReaderStep, SendAsset, AddRow, StageRow, AppendRows, FailAsset, FinishAsset,
           LeavePhase, control, joinVars
  <2>2. \A p \in Procs : SubmitStep(p) => UNCHANGED joinLeft /\ main' \in {main, "close"}
    BY DEF SubmitStep, SubmitBatch, FailSubmit, GiveUp, control, joinVars
  <2>3. \A w \in Writers : WriterStep(w) => UNCHANGED <<joinLeft, main>>
    BY DEF WriterStep, TakeBatch, Write, FailWrite, LeaveQueue, control, joinVars
  <2>4. Cancel \/ UNCHANGED vars => UNCHANGED <<joinLeft, main>>
    BY DEF Cancel, vars, control, joinVars
  <2>5. MainStep => /\ UNCHANGED joinLeft
                    /\ \/ {main, main'} \subseteq {"open", "send", "join", "flush", "divisions"}
                       \/ main' \in {"close", "wait", "returned"}
    BY <1>3 DEF MainStep, OpenPhase, FailOpen, StopSending, EndPhase, FlushRows, FlushPending,
                FailJoin, CloseQueue, Return, GiveUp, joinVars
  <2>6. QED
    BY <2>1, <2>2, <2>3, <2>4, <2>5 DEF Next, Returned
<1>4. CASE QueryJoin
  <2>1. /\ joinLeft' = {staged \in table : Shape(staged).table \in JoinOf(main)}
        /\ \/ main = "divisions" /\ main' = "emit divisions"
           \/ main = "links" /\ main' = "emit links"
    BY <1>4 DEF QueryJoin
  <2>2. Held' \subseteq Held
    BY <1>4, HeldSteps DEF QueryJoin, AddRow, Reading, EmitRow, Emitting, ControlInv
  <2>3. \A source \in Rows : Unjoined(source)' => Unjoined(source)
    BY <2>1 DEF Unjoined, JoinStops, JoinOf
  <2>4. Left'
    BY <2>1 DEF JoinOf
  <2>5. QED
    BY <1>1, <2>2, <2>3, <2>4 DEF UnjoinedInv
<1>5. CASE EndJoin
  <2>1. /\ joinLeft = {} /\ UNCHANGED joinLeft
        /\ \/ main = "emit divisions" /\ main' = "links"
           \/ main = "emit links" /\ main' = "pending"
    BY <1>5 DEF EndJoin, Emitting, AfterJoin
  <2>2. Held' \subseteq Held
    BY <1>5, FlushesHold
  <2>3. \A source \in Rows : Unjoined(source)' => Unjoined(source)
    BY <2>1 DEF Unjoined, JoinStops, JoinOf
  <2>4. Left'
    BY <2>1
  <2>5. QED
    BY <1>1, <2>2, <2>3, <2>4 DEF UnjoinedInv
<1>6. CASE EmitRow
  <2>1. PICK staged \in joinLeft : /\ joinLeft' = joinLeft \ {staged}
                                   /\ Held' = Held \cup JoinedItems(staged)
    BY <1>6, EmitRowHolds
  <2>2. main' = main /\ main \in {"emit divisions", "emit links"} /\ joinLeft \subseteq Rows
    BY <1>6 DEF EmitRow, Emitting, control, TypeOK
  <2>3. Left'
    BY <1>1, <2>1, <2>2
  <2>4. ASSUME NEW source \in Rows, Unjoined(source)'
        PROVE  JoinedItems(source) \cap Held' = {}
    <3>1. Unjoined(source)
      BY <2>1, <2>2, <2>4 DEF Unjoined
    <3>2. source # staged
      <4>1. ASSUME source = staged PROVE FALSE
        <5>1. PICK stage \in {"divisions", "links"} :
                /\ Shape(staged).table \in JoinOf(stage)
                /\ main \notin JoinStops(stage) \/ (main = Emit(stage) /\ staged \in joinLeft')
          BY <2>2, <2>4, <4>1 DEF Unjoined
        <5>2. main \notin JoinStops(stage)
          BY <2>1, <5>1
        <5>3. \E at \in {"divisions", "links"} : /\ main = Emit(at)
                                                /\ Shape(staged).table \in JoinOf(at)
          BY <1>1, <2>2
        <5>4. QED
          BY <5>1, <5>2, <5>3 DEF JoinStops, JoinOf
      <4>2. QED
        BY <4>1
    <3>3. QED
      BY <1>1, <2>1, <2>2, <3>1, <3>2, ItemsDiffer
  <2>5. QED
    BY <2>3, <2>4 DEF UnjoinedInv
<1>7. ASSUME NEW r \in Readers, AddRow(r), Held' = Held \cup DirectItems(Current(r))
      PROVE  UnjoinedInv'
  <2>1. Current(r) \in Rows
    BY <1>7, CurrentIsRow DEF AddRow
  <2>2. UNCHANGED <<joinLeft, main>>
    BY <1>7 DEF AddRow, joinVars, control
  <2>3. Left' /\ \A source \in Rows : Unjoined(source)' => Unjoined(source)
    BY <1>2, <2>2
  <2>4. \A source \in Rows : JoinedItems(source) \cap DirectItems(Current(r)) = {}
    BY <2>1, ItemsDiffer
  <2>5. QED
    BY <1>1, <1>7, <2>3, <2>4 DEF UnjoinedInv
<1>8. ASSUME Held' \subseteq Held, ~QueryJoin, ~EmitRow, ~EndJoin PROVE UnjoinedInv'
  <2>1. Left' /\ \A source \in Rows : Unjoined(source)' => Unjoined(source)
    BY <1>2, <1>3, <1>8
  <2>2. QED
    BY <1>1, <1>8, <2>1 DEF UnjoinedInv
<1>9. QED
  BY <1>4, <1>5, <1>6, <1>7, <1>8, HeldSteps

-----------------------------------------------------------------------------
(* Batches that are apart.                                                 *)

LEMMA ApartOne == \A items : Apart(<<items>>) /\ Apart(<<>>)
BY DEF Apart

LEMMA ApartTail ==
  ASSUME NEW S, NEW batches \in Seq(S), batches # <<>>, Apart(batches)
  PROVE  /\ Apart(Tail(batches))
         /\ Head(batches) \cap Parts(Tail(batches)) = {}
<1>1. /\ 1 \in DOMAIN batches /\ Head(batches) = batches[1]
      /\ \A i \in DOMAIN Tail(batches) : /\ i + 1 \in DOMAIN batches /\ i + 1 # 1
                                         /\ Tail(batches)[i] = batches[i + 1]
      /\ \A i, j \in DOMAIN Tail(batches) : i # j => i + 1 # j + 1
  OBVIOUS
<1>2. Apart(Tail(batches))
  BY <1>1 DEF Apart
<1>3. \A i \in DOMAIN Tail(batches) : Head(batches) \cap Tail(batches)[i] = {}
  BY <1>1 DEF Apart
<1>4. QED
  BY <1>2, <1>3 DEF Parts

LEMMA ApartAppend ==
  ASSUME NEW S, NEW batches \in Seq(S), NEW items \in S, Apart(batches),
         items \cap Parts(batches) = {}
  PROVE  Apart(Append(batches, items))
<1>1. /\ DOMAIN Append(batches, items) = DOMAIN batches \cup {Len(batches) + 1}
      /\ Len(batches) + 1 \notin DOMAIN batches
      /\ \A i \in DOMAIN batches : Append(batches, items)[i] = batches[i]
      /\ Append(batches, items)[Len(batches) + 1] = items
  OBVIOUS
<1>2. \A i \in DOMAIN batches : items \cap batches[i] = {}
  BY DEF Parts
<1>3. QED
  BY <1>1, <1>2 DEF Apart

LEMMA ApartConcat ==
  ASSUME NEW S, NEW s \in Seq(S), NEW t \in Seq(S), Apart(s), Apart(t),
         Parts(s) \cap Parts(t) = {}
  PROVE  Apart(s \o t)
<1>1. /\ Len(s) \in Nat /\ Len(t) \in Nat
      /\ DOMAIN s = 1..Len(s) /\ DOMAIN t = 1..Len(t) /\ DOMAIN (s \o t) = 1..(Len(s) + Len(t))
      /\ \A i \in DOMAIN s : (s \o t)[i] = s[i]
      /\ \A i \in DOMAIN t : (s \o t)[Len(s) + i] = t[i]
  OBVIOUS
<1>2. \A i \in DOMAIN s : \A j \in DOMAIN t : s[i] \cap t[j] = {}
  BY DEF Parts
<1>3. ASSUME NEW i \in DOMAIN (s \o t)
      PROVE  \/ i \in DOMAIN s /\ (s \o t)[i] = s[i]
             \/ i - Len(s) \in DOMAIN t /\ i > Len(s) /\ (s \o t)[i] = t[i - Len(s)]
  <2>1. CASE i <= Len(s)
    BY <1>1, <2>1
  <2>2. CASE i > Len(s)
    <3>1. i - Len(s) \in DOMAIN t /\ Len(s) + (i - Len(s)) = i
      BY <1>1, <2>2
    <3>2. QED
      BY <1>1, <2>2, <3>1
  <2>3. QED
    BY <1>1, <2>1, <2>2
<1>4. SUFFICES ASSUME NEW i \in DOMAIN (s \o t), NEW j \in DOMAIN (s \o t), i # j
               PROVE  (s \o t)[i] \cap (s \o t)[j] = {}
  BY DEF Apart
<1>5. i \in Nat /\ j \in Nat /\ i - Len(s) # j - Len(s)
  BY <1>1, <1>4
<1>6. CASE i \in DOMAIN s /\ (s \o t)[i] = s[i]
  <2>1. CASE j \in DOMAIN s /\ (s \o t)[j] = s[j]
    BY <1>4, <1>6, <2>1 DEF Apart
  <2>2. CASE j - Len(s) \in DOMAIN t /\ (s \o t)[j] = t[j - Len(s)]
    BY <1>2, <1>6, <2>2
  <2>3. QED
    BY <1>3, <2>1, <2>2
<1>7. CASE i - Len(s) \in DOMAIN t /\ (s \o t)[i] = t[i - Len(s)]
  <2>1. CASE j \in DOMAIN s /\ (s \o t)[j] = s[j]
    BY <1>2, <1>7, <2>1
  <2>2. CASE j - Len(s) \in DOMAIN t /\ (s \o t)[j] = t[j - Len(s)]
    BY <1>5, <1>7, <2>2 DEF Apart
  <2>3. QED
    BY <1>3, <2>1, <2>2
<1>8. QED
  BY <1>3, <1>6, <1>7

\* The batches of one flush have nothing in common: each has its output.
LEMMA ApartBatches ==
  ASSUME NEW items \in SUBSET Items
  PROVE  Apart(Batches(items))
<1>1. ASSUME NEW part \in SUBSET Items
      PROVE  /\ Batch(part) \in Seq(SUBSET Items) /\ Parts(Batch(part)) = part
             /\ Apart(Batch(part))
  <2>1. CASE part = {}
    <3>1. Batch(part) = <<>>
      BY <2>1 DEF Batch
    <3>2. <<>> \in Seq(SUBSET Items)
      OBVIOUS
    <3>3. QED
      BY <2>1, <3>1, <3>2, PartsOfEmpty, ApartOne
  <2>2. CASE part # {}
    <3>1. Batch(part) = <<part>>
      BY <2>2 DEF Batch
    <3>2. <<part>> \in Seq(SUBSET Items)
      OBVIOUS
    <3>3. QED
      BY <3>1, <3>2, PartsOfOne, ApartOne
  <2>3. QED
    BY <2>1, <2>2
<1> DEFINE b1 == Batch(Of("records", items))
           b2 == Batch(Of("relationships", items))
           b3 == Batch(Of("rejections", items))
<1>2. \A output : Of(output, items) \in SUBSET Items
  BY DEF Of
<1>3. /\ b1 \in Seq(SUBSET Items) /\ Parts(b1) = Of("records", items) /\ Apart(b1)
      /\ b2 \in Seq(SUBSET Items) /\ Parts(b2) = Of("relationships", items) /\ Apart(b2)
      /\ b3 \in Seq(SUBSET Items) /\ Parts(b3) = Of("rejections", items) /\ Apart(b3)
  BY <1>1, <1>2
<1>4. /\ Of("records", items) \cap Of("relationships", items) = {}
      /\ (Of("records", items) \cup Of("relationships", items)) \cap Of("rejections", items) = {}
  BY DEF Of
<1> DEFINE b12 == b1 \o b2
<1>5. Batches(items) = b12 \o b3
  BY DEF Batches
<1> HIDE DEF b1, b2, b3
<1>6. b12 \in Seq(SUBSET Items) /\ Parts(b12) = Parts(b1) \cup Parts(b2) /\ Apart(b12)
  BY <1>3, <1>4, PartsOfConcat, ApartConcat
<1> HIDE DEF b12
<1>7. Apart(b12 \o b3)
  BY <1>3, <1>4, <1>6, ApartConcat
<1>8. QED
  BY <1>5, <1>7

\* What one place holds changes: the others stay apart from it.
LEMMA ApartExcept ==
  ASSUME NEW parts, NEW place \in DOMAIN parts, NEW items, Apart(parts),
         (items \ parts[place]) \cap Parts(parts) = {}
  PROVE  /\ Apart([parts EXCEPT ![place] = items])
         /\ Parts([parts EXCEPT ![place] = items]) = (Parts(parts) \ parts[place]) \cup items
<1> DEFINE changed == [parts EXCEPT ![place] = items]
<1>1. /\ DOMAIN changed = DOMAIN parts /\ changed[place] = items
      /\ \A i \in DOMAIN parts : i # place => changed[i] = parts[i]
  OBVIOUS
<1>2. \A i \in DOMAIN parts : i # place => parts[i] \cap parts[place] = {}
                                           /\ parts[i] \subseteq Parts(parts)
  BY DEF Apart, Parts
<1>3. \A i \in DOMAIN parts : i # place => parts[i] \cap items = {}
  BY <1>2
<1> HIDE DEF changed
<1>4. Apart(changed)
  BY <1>1, <1>3 DEF Apart
<1>5. \A item : item \in Parts(changed) <=> \E i \in DOMAIN parts : item \in changed[i]
  BY <1>1 DEF Parts
<1>6. \A item : item \in Parts(parts) <=> \E i \in DOMAIN parts : item \in parts[i]
  BY DEF Parts
<1>7. Parts(changed) = (Parts(parts) \ parts[place]) \cup items
  BY <1>1, <1>2, <1>5, <1>6
<1>8. QED
  BY <1>4, <1>7 DEF changed

-----------------------------------------------------------------------------
(* The places stay apart.                                                  *)

\* What is held is what the six kinds of places hold.
LEMMA HeldIs ==
  ASSUME TypeOK
  PROVE  Held = pending \cup joinBuf \cup Parts(Submitting) \cup Parts(queue)
                  \cup Parts(writing) \cup written
<1>1. DOMAIN writing = Writers /\ DOMAIN Submitting = Procs
      /\ \A p \in Procs : Submitting[p] = Parts(toSubmit[p])
  BY DEF TypeOK, Submitting
<1>2. \A item : item \in Parts(writing) <=> \E w \in Writers : item \in writing[w]
  BY <1>1 DEF Parts
<1>3. \A item : item \in Parts(Submitting) <=> \E p \in Procs : item \in Submitting[p]
  BY <1>1 DEF Parts
<1>4. QED
  BY <1>1, <1>2, <1>3, HeldPlaces

\* What one goroutine submits changes.
LEMMA SubmittingChanges ==
  ASSUME NEW p, NEW items, Apart(Submitting), p \in DOMAIN Submitting,
         (items \ Submitting[p]) \cap Parts(Submitting) = {},
         Submitting' = [Submitting EXCEPT ![p] = items]
  PROVE  /\ Apart(Submitting')
         /\ Parts(Submitting') = (Parts(Submitting) \ Submitting[p]) \cup items
<1>1. /\ Apart([Submitting EXCEPT ![p] = items])
      /\ Parts([Submitting EXCEPT ![p] = items]) = (Parts(Submitting) \ Submitting[p]) \cup items
  BY ApartExcept, Zenon
<1>2. QED
  BY <1>1

\* A goroutine with nothing to submit gets batches, of items that no batch has.
LEMMA Submits ==
  ASSUME TypeOK, PlaceInv, NEW p \in Procs, toSubmit[p] = <<>>,
         NEW batches, Apart(batches), Parts(batches) \cap Parts(Submitting) = {},
         toSubmit' = [toSubmit EXCEPT ![p] = batches]
  PROVE  /\ Apart(Submitting') /\ Parts(Submitting') = Parts(Submitting) \cup Parts(batches)
         /\ \A q \in Procs : Apart(toSubmit'[q])
<1>1. /\ toSubmit \in [Procs -> Seq(SUBSET Items)]
      /\ DOMAIN Submitting = Procs /\ \A q \in Procs : Submitting[q] = Parts(toSubmit[q])
      /\ Apart(Submitting) /\ \A q \in Procs : Apart(toSubmit[q])
  BY DEF TypeOK, Submitting, PlaceInv
<1>2. Submitting[p] = {}
  BY <1>1, PartsOfEmpty
<1>3. Submitting' = [Submitting EXCEPT ![p] = Parts(batches)]
  BY <1>1 DEF Submitting
<1>4. p \in DOMAIN Submitting /\ (Parts(batches) \ Submitting[p]) \cap Parts(Submitting) = {}
  BY <1>1
<1>5. /\ Apart(Submitting')
      /\ Parts(Submitting') = (Parts(Submitting) \ Submitting[p]) \cup Parts(batches)
  <2>1. Apart(Submitting)
    BY <1>1
  <2>2. QED
    BY <1>3, <1>4, <2>1, SubmittingChanges, Zenon
<1>6. \A q \in Procs : Apart(toSubmit'[q])
  BY <1>1
<1>7. QED
  BY <1>2, <1>5, <1>6

\* The batch that is submitted next leaves its goroutine.
LEMMA SubmitsNext ==
  ASSUME TypeOK, PlaceInv, NEW p \in Procs, toSubmit[p] # <<>>,
         toSubmit' = [toSubmit EXCEPT ![p] = Tail(toSubmit[p])]
  PROVE  /\ Apart(Submitting') /\ \A q \in Procs : Apart(toSubmit'[q])
         /\ Parts(Submitting') = Parts(Submitting) \ Head(toSubmit[p])
         /\ Head(toSubmit[p]) \subseteq Parts(Submitting)
<1> DEFINE batch == Head(toSubmit[p])
           rest == Tail(toSubmit[p])
<1>1. /\ toSubmit \in [Procs -> Seq(SUBSET Items)]
      /\ DOMAIN Submitting = Procs /\ \A q \in Procs : Submitting[q] = Parts(toSubmit[q])
      /\ Apart(Submitting) /\ \A q \in Procs : Apart(toSubmit[q])
  BY DEF TypeOK, Submitting, PlaceInv
<1>2. Apart(rest) /\ batch \cap Parts(rest) = {} /\ Parts(toSubmit[p]) = batch \cup Parts(rest)
  BY <1>1, ApartTail, PartsOfHeadAndTail
<1> HIDE DEF batch, rest
<1>3. Submitting' = [Submitting EXCEPT ![p] = Parts(rest)]
  BY <1>1 DEF Submitting, rest
<1>4. Submitting[p] = batch \cup Parts(rest) /\ Submitting[p] \subseteq Parts(Submitting)
  BY <1>1, <1>2 DEF Parts
<1>5. /\ Apart(Submitting')
      /\ Parts(Submitting') = (Parts(Submitting) \ Submitting[p]) \cup Parts(rest)
  <2>1. p \in DOMAIN Submitting /\ (Parts(rest) \ Submitting[p]) \cap Parts(Submitting) = {}
    BY <1>1, <1>4
  <2>2. Apart(Submitting)
    BY <1>1
  <2>3. QED
    BY <1>3, <2>1, <2>2, SubmittingChanges, Zenon
<1>6. Parts(Submitting') = Parts(Submitting) \ batch
  BY <1>2, <1>4, <1>5
<1>7. \A q \in Procs : Apart(toSubmit'[q])
  BY <1>1, <1>2 DEF rest
<1>8. QED
  BY <1>4, <1>5, <1>6, <1>7 DEF batch

\* A goroutine drops what it has not submitted.
LEMMA Drops ==
  ASSUME TypeOK, PlaceInv, NEW p \in Procs, toSubmit' = [toSubmit EXCEPT ![p] = <<>>]
  PROVE  /\ Apart(Submitting') /\ \A q \in Procs : Apart(toSubmit'[q])
         /\ Parts(Submitting') \subseteq Parts(Submitting)
<1>1. /\ toSubmit \in [Procs -> Seq(SUBSET Items)]
      /\ DOMAIN Submitting = Procs /\ \A q \in Procs : Submitting[q] = Parts(toSubmit[q])
      /\ Apart(Submitting) /\ \A q \in Procs : Apart(toSubmit[q])
  BY DEF TypeOK, Submitting, PlaceInv
<1>2. Submitting' = [Submitting EXCEPT ![p] = {}]
  BY <1>1, PartsOfEmpty DEF Submitting
<1>3. p \in DOMAIN Submitting /\ ({} \ Submitting[p]) \cap Parts(Submitting) = {}
  BY <1>1
<1>4. /\ Apart(Submitting')
      /\ Parts(Submitting') = (Parts(Submitting) \ Submitting[p]) \cup {}
  <2>1. Apart(Submitting)
    BY <1>1
  <2>2. QED
    BY <1>2, <1>3, <2>1, SubmittingChanges, Zenon
<1>5. \A q \in Procs : Apart(toSubmit'[q])
  BY <1>1, ApartOne
<1>6. QED
  BY <1>4, <1>5

\* Items go from one kind of place to the next, and new ones are new.
LEMMA PlaceStep ==
  ASSUME TypeOK, StageInv, ControlInv, WatchInv, ReadingInv, UnreadInv, UnjoinedInv, PlaceInv,
         [Next]_vars
  PROVE  PlaceInv'
<1>1. /\ Apart(queue) /\ Apart(writing) /\ Apart(Submitting)
      /\ \A p \in Procs : Apart(toSubmit[p])
      /\ Disjoint(pending, joinBuf, Parts(Submitting), Parts(queue), Parts(writing), written)
  BY DEF PlaceInv
<1>2. /\ queue \in Seq(SUBSET Items) /\ writing \in [Writers -> SUBSET Items]
      /\ toSubmit \in [Procs -> Seq(SUBSET Items)]
      /\ pending \in SUBSET Items /\ joinBuf \in SUBSET Items
  BY DEF TypeOK
<1>3. ASSUME UNCHANGED <<pending, joinBuf, toSubmit, queue, writing, written>> PROVE PlaceInv'
  BY <1>1, <1>3 DEF Submitting, PlaceInv
<1>4. ASSUME UNCHANGED <<queue, writing, written>>,
             Apart(Submitting'), \A p \in Procs : Apart(toSubmit'[p]),
             Disjoint(pending', joinBuf', Parts(Submitting'), Parts(queue), Parts(writing), written)
      PROVE  PlaceInv'
  BY <1>1, <1>4 DEF PlaceInv
<1>5. ASSUME NEW r \in Readers, AddRow(r) PROVE PlaceInv'
  <2> DEFINE items == DirectItems(Current(r))
             added == pending \cup items
             full == UNION {Of(item[1], added) : item \in items}
  <2>1. r \in Procs /\ toSubmit[r] = <<>>
    BY <1>5 DEF AddRow, Reading, Procs
  <2>2. UNCHANGED <<joinBuf, queue, writing, written>>
    BY <1>5 DEF AddRow, joinVars, queueVars, sinkVars
  <2>3. items \cap Held = {}
    <3>1. r \in Readers /\ reader[r] = "read" /\ HasRow(r) /\ row[r] \in Nat
      BY <1>5 DEF AddRow, Reading, TypeOK
    <3>2. PICK j \in DOMAIN Inputs[input] : asset[r] = Inputs[input][j]
      BY <3>1 DEF ReadingInv, ReadingStops
    <3>3. input \in DOMAIN Inputs
      BY DEF TypeOK
    <3>4. row[r] \in DOMAIN Content[Inputs[input][j]]
      BY <3>1, <3>2 DEF HasRow
    <3>5. ~RowRead(input, j, row[r])
      BY <3>1, <3>2 DEF RowRead, ReadingStops
    <3>6. DirectItems(<<Inputs[input][j], row[r]>>) \cap Held = {}
      BY <3>3, <3>4, <3>5 DEF UnreadInv
    <3>7. QED
      BY <3>2, <3>6 DEF Current
  <2>4. full \subseteq added
    BY DEF Of
  <2>5. Disjoint(added, joinBuf, Parts(Submitting), Parts(queue), Parts(writing), written)
    <3> HIDE DEF items
    <3>1. QED
      BY <1>1, <2>3, HeldIs DEF Disjoint
  <2>6. CASE Full(full)
    <3>1. pending' = added \ full /\ toSubmit' = [toSubmit EXCEPT ![r] = <<full>>]
      BY <1>5, <2>6 DEF AddRow, Rest
    <3> HIDE DEF added, full
    <3>2. Parts(<<full>>) = full /\ Apart(<<full>>)
      BY PartsOfOne, ApartOne
    <3>3. full \cap Parts(Submitting) = {}
      BY <2>4, <2>5 DEF Disjoint
    <3>4. /\ Apart(Submitting') /\ Parts(Submitting') = Parts(Submitting) \cup full
          /\ \A q \in Procs : Apart(toSubmit'[q])
      BY <2>1, <3>1, <3>2, <3>3, Submits
    <3>5. Disjoint(pending', joinBuf', Parts(Submitting'), Parts(queue), Parts(writing), written)
      BY <2>2, <2>4, <2>5, <3>1, <3>4 DEF Disjoint
    <3>6. QED
      BY <1>4, <2>2, <3>4, <3>5
  <2>7. CASE ~Full(full)
    <3>1. pending' = added /\ toSubmit' = toSubmit
      BY <1>5, <2>7 DEF AddRow
    <3>2. Submitting' = Submitting
      BY <3>1 DEF Submitting
    <3>3. QED
      BY <1>1, <1>4, <2>2, <2>5, <3>1, <3>2
  <2>8. QED
    BY <2>6, <2>7
<1>6. ASSUME EmitRow PROVE PlaceInv'
  <2>1. PICK staged \in joinLeft :
          LET added == joinBuf \cup JoinedItems(staged) IN
          /\ joinLeft' = joinLeft \ {staged}
          /\ IF \E output \in Outputs : Full(Of(output, added))
             THEN joinBuf' = Rest(added, added)
                  /\ toSubmit' = [toSubmit EXCEPT ![MAIN] = Batches(added)]
             ELSE joinBuf' = added /\ UNCHANGED toSubmit
    BY <1>6 DEF EmitRow
  <2> DEFINE items == JoinedItems(staged)
             added == joinBuf \cup items
  <2>2. MAIN \in Procs /\ toSubmit[MAIN] = <<>>
    BY <1>6 DEF EmitRow, Emitting, Procs
  <2>3. UNCHANGED <<pending, queue, writing, written>>
    BY <1>6 DEF EmitRow, queueVars, sinkVars
  <2>4. items \cap Held = {} /\ added \in SUBSET Items
    <3>1. staged \in Rows /\ main \in {"emit divisions", "emit links"}
      BY <1>6 DEF TypeOK, EmitRow, Emitting
    <3>2. Unjoined(staged)
      BY <3>1 DEF UnjoinedInv, Unjoined
    <3>3. QED
      BY <1>2, <3>1, <3>2, RowsYieldItems DEF UnjoinedInv
  <2>5. Disjoint(pending, added, Parts(Submitting), Parts(queue), Parts(writing), written)
    <3> HIDE DEF items
    <3>1. QED
      BY <1>1, <2>4, HeldIs DEF Disjoint
  <2>6. CASE \E output \in Outputs : Full(Of(output, added))
    <3>1. joinBuf' = {} /\ toSubmit' = [toSubmit EXCEPT ![MAIN] = Batches(added)]
      BY <2>1, <2>6 DEF Rest
    <3> HIDE DEF added
    <3>2. Parts(Batches(added)) = added /\ Apart(Batches(added))
      BY <2>4, PartsOfBatches, ApartBatches
    <3>3. added \cap Parts(Submitting) = {}
      BY <2>5 DEF Disjoint
    <3>4. /\ Apart(Submitting') /\ Parts(Submitting') = Parts(Submitting) \cup added
          /\ \A q \in Procs : Apart(toSubmit'[q])
      BY <2>2, <3>1, <3>2, <3>3, Submits
    <3>5. Disjoint(pending', joinBuf', Parts(Submitting'), Parts(queue), Parts(writing), written)
      BY <2>3, <2>5, <3>1, <3>4 DEF Disjoint
    <3>6. QED
      BY <1>4, <2>3, <3>4, <3>5
  <2>7. CASE ~\E output \in Outputs : Full(Of(output, added))
    <3>1. joinBuf' = added /\ toSubmit' = toSubmit
      BY <2>1, <2>7
    <3>2. Submitting' = Submitting
      BY <3>1 DEF Submitting
    <3>3. QED
      BY <1>1, <1>4, <2>3, <2>5, <3>1, <3>2
  <2>8. QED
    BY <2>6, <2>7
<1>7. ASSUME EndJoin \/ FlushPending PROVE PlaceInv'
  <2>1. MAIN \in Procs /\ toSubmit[MAIN] = <<>>
    BY <1>7 DEF EndJoin, FlushPending, Emitting, Procs
  <2>2. UNCHANGED <<queue, writing, written>>
    BY <1>7 DEF EndJoin, FlushPending, queueVars, sinkVars
  <2>3. PICK items \in {pending, joinBuf} :
          /\ toSubmit' = [toSubmit EXCEPT ![MAIN] = Batches(items)]
          /\ \/ items = joinBuf /\ joinBuf' = {} /\ pending' = pending
             \/ items = pending /\ pending' = {} /\ joinBuf' = joinBuf
    BY <1>7 DEF EndJoin, FlushPending, Rest, joinVars
  <2>4. Parts(Batches(items)) = items /\ Apart(Batches(items))
    BY <1>2, PartsOfBatches, ApartBatches
  <2>5. items \cap Parts(Submitting) = {}
    BY <1>1 DEF Disjoint
  <2>6. /\ Apart(Submitting') /\ Parts(Submitting') = Parts(Submitting) \cup items
        /\ \A q \in Procs : Apart(toSubmit'[q])
    BY <2>1, <2>3, <2>4, <2>5, Submits
  <2>7. Disjoint(pending', joinBuf', Parts(Submitting'), Parts(queue), Parts(writing), written)
    BY <1>1, <2>3, <2>6 DEF Disjoint
  <2>8. QED
    BY <1>4, <2>2, <2>6, <2>7
<1>8. ASSUME NEW p \in Procs, SubmitBatch(p) PROVE PlaceInv'
  <2> DEFINE batch == Head(toSubmit[p])
  <2>1. /\ toSubmit[p] # <<>> /\ toSubmit' = [toSubmit EXCEPT ![p] = Tail(toSubmit[p])]
        /\ queue' = Append(queue, batch)
        /\ UNCHANGED <<pending, joinBuf, writing, written>>
    BY <1>8 DEF SubmitBatch, joinVars, sinkVars
  <2>2. /\ Apart(Submitting') /\ \A q \in Procs : Apart(toSubmit'[q])
        /\ Parts(Submitting') = Parts(Submitting) \ batch /\ batch \subseteq Parts(Submitting)
    BY <2>1, SubmitsNext
  <2>3. batch \in SUBSET Items
    BY <1>2, <2>1, SeqFacts
  <2> HIDE DEF batch
  <2>4. batch \cap Parts(queue) = {}
    BY <1>1, <2>2 DEF Disjoint
  <2>5. Apart(queue') /\ Parts(queue') = Parts(queue) \cup batch
    <3>1. Apart(Append(queue, batch)) /\ Parts(Append(queue, batch)) = Parts(queue) \cup batch
      <4>1. Apart(queue) /\ queue \in Seq(SUBSET Items)
        BY <1>1, <1>2
      <4>2. Apart(Append(queue, batch))
        BY <2>3, <2>4, <4>1, ApartAppend
      <4>3. Parts(Append(queue, batch)) = Parts(queue) \cup batch
        BY <2>3, <4>1, PartsOfAppend
      <4>4. QED
        BY <4>2, <4>3
    <3>2. QED
      BY <2>1, <3>1
  <2>6. Disjoint(pending, joinBuf, Parts(Submitting'), Parts(queue'), Parts(writing), written)
    BY <1>1, <2>2, <2>5 DEF Disjoint
  <2>7. QED
    BY <1>1, <2>1, <2>2, <2>5, <2>6 DEF PlaceInv
<1>9. ASSUME NEW p \in Procs, FailSubmit(p) PROVE PlaceInv'
  <2>1. /\ toSubmit' = [toSubmit EXCEPT ![p] = <<>>]
        /\ UNCHANGED <<pending, joinBuf, queue, writing, written>>
    BY <1>9 DEF FailSubmit, joinVars, queueVars, sinkVars
  <2>2. /\ Apart(Submitting') /\ \A q \in Procs : Apart(toSubmit'[q])
        /\ Parts(Submitting') \subseteq Parts(Submitting)
    BY <2>1, Drops
  <2>3. Disjoint(pending, joinBuf, Parts(Submitting'), Parts(queue), Parts(writing), written)
    BY <1>1, <2>2 DEF Disjoint
  <2>4. QED
    BY <1>4, <2>1, <2>2, <2>3
<1>10. ASSUME NEW w \in Writers, TakeBatch(w) PROVE PlaceInv'
  <2>1. /\ queue # <<>> /\ queue' = Tail(queue) /\ writing[w] = {}
        /\ UNCHANGED <<pending, joinBuf, toSubmit, written>>
    BY <1>10 DEF TakeBatch, WatchInv, joinVars
  <2>2. /\ Apart(queue') /\ Head(queue) \cap Parts(queue') = {}
        /\ Parts(queue) = Head(queue) \cup Parts(queue')
    BY <1>1, <1>2, <2>1, ApartTail, PartsOfHeadAndTail
  <2>3. Submitting' = Submitting
    BY <2>1 DEF Submitting
  <2>4. \/ writing' = writing
        \/ writing' = [writing EXCEPT ![w] = Head(queue)]
    BY <1>10 DEF TakeBatch
  <2>5. /\ Apart(writing')
        /\ Parts(writing') \subseteq Parts(writing) \cup Head(queue)
    <3>1. CASE writing' = writing
      BY <1>1, <3>1
    <3>2. CASE writing' = [writing EXCEPT ![w] = Head(queue)]
      <4>1. w \in DOMAIN writing
        BY <1>2
      <4>2. Head(queue) \cap Parts(writing) = {}
        BY <1>1, <2>2 DEF Disjoint
      <4>3. (Head(queue) \ writing[w]) \cap Parts(writing) = {}
        BY <4>2
      <4>4. Apart(writing') /\ Parts(writing') = (Parts(writing) \ writing[w]) \cup Head(queue)
        <5>1. Apart(writing)
          BY <1>1
        <5>2. /\ Apart([writing EXCEPT ![w] = Head(queue)])
              /\ Parts([writing EXCEPT ![w] = Head(queue)])
                   = (Parts(writing) \ writing[w]) \cup Head(queue)
          BY <4>1, <4>3, <5>1, ApartExcept
        <5>3. QED
          BY <3>2, <5>2
      <4>5. QED
        BY <4>4
    <3>3. QED
      BY <2>4, <3>1, <3>2
  <2>6. Disjoint(pending, joinBuf, Parts(Submitting), Parts(queue'), Parts(writing'), written)
    BY <1>1, <2>2, <2>5 DEF Disjoint
  <2>7. QED
    BY <1>1, <2>1, <2>2, <2>3, <2>5, <2>6 DEF PlaceInv
<1>11. ASSUME NEW w \in Writers, Write(w) \/ FailWrite(w) PROVE PlaceInv'
  <2>1. /\ UNCHANGED <<pending, joinBuf, toSubmit, queue>>
        /\ writing' = [writing EXCEPT ![w] = {}]
        /\ written' = written \cup writing[w] \/ written' = written
    BY <1>11 DEF Write, FailWrite, joinVars, queueVars
  <2>2. w \in DOMAIN writing /\ writing[w] \subseteq Parts(writing)
    BY <1>2 DEF Parts
  <2>3. Apart(writing') /\ Parts(writing') = Parts(writing) \ writing[w]
    <3>1. ({} \ writing[w]) \cap Parts(writing) = {}
      OBVIOUS
    <3>2. Apart(writing') /\ Parts(writing') = (Parts(writing) \ writing[w]) \cup {}
      BY <1>1, <2>1, <2>2, <3>1, ApartExcept, Zenon
    <3>3. QED
      BY <3>2
  <2>4. Submitting' = Submitting
    BY <2>1 DEF Submitting
  <2>5. Disjoint(pending, joinBuf, Parts(Submitting), Parts(queue), Parts(writing'), written')
    BY <1>1, <2>1, <2>2, <2>3 DEF Disjoint
  <2>6. QED
    BY <1>1, <2>1, <2>3, <2>4, <2>5 DEF PlaceInv
<1>12. ASSUME NEW r \in Readers, ReaderStep(r), ~AddRow(r) PROVE PlaceInv'
  BY <1>3, <1>12 DEF ReaderStep, SendAsset, StageRow, AppendRows, FailAsset, FinishAsset,
                     LeavePhase, joinVars, queueVars, sinkVars
<1>13. ASSUME MainStep, ~EmitRow, ~EndJoin, ~FlushPending PROVE PlaceInv'
  BY <1>3, <1>13 DEF MainStep, OpenPhase, FailOpen, StopSending, EndPhase, FlushRows, QueryJoin,
                     FailJoin, CloseQueue, Return, joinVars, queueVars, sinkVars
<1>14. ASSUME NEW w \in Writers, LeaveQueue(w) PROVE PlaceInv'
  BY <1>3, <1>14 DEF LeaveQueue, joinVars, queueVars
<1>15. ASSUME Cancel \/ UNCHANGED vars PROVE PlaceInv'
  BY <1>3, <1>15 DEF Cancel, vars, joinVars, queueVars, sinkVars
<1>16. QED
  BY <1>5, <1>6, <1>7, <1>8, <1>9, <1>10, <1>11, <1>12, <1>13, <1>14, <1>15
     DEF Next, SubmitStep, WriterStep, Returned

-----------------------------------------------------------------------------
(* Nothing twice.                                                          *)

LEMMA InitOnce == Init => OInv
<1> SUFFICES ASSUME Init PROVE OInv
  OBVIOUS
<1>1. Held = {}
  BY PartsOfEmpty, HeldPlaces DEF Init
<1>2. ReadingInv /\ UnreadInv
  BY <1>1 DEF Init, ReadingInv, ReadingStops, UnreadInv
<1>3. UnjoinedInv
  BY <1>1 DEF Init, UnjoinedInv
<1>4. \A p \in Procs : Submitting[p] = {}
  BY PartsOfEmpty DEF Init, Submitting
<1>5. Apart(Submitting) /\ Parts(Submitting) = {}
  BY <1>4 DEF Apart, Parts, Submitting
<1>6. Apart(writing) /\ Parts(writing) = {}
  BY DEF Init, Apart, Parts
<1>7. PlaceInv
  BY <1>5, <1>6, PartsOfEmpty, ApartOne DEF Init, PlaceInv, Disjoint
<1>8. QED
  BY <1>2, <1>3, <1>7 DEF OInv

\* What a batch in flight holds, by the place it is in.
LEMMA BatchedPlaces ==
  ASSUME TypeOK, NEW q \in DOMAIN Batched
  PROVE  \/ \E i \in DOMAIN queue : q = <<"queue", i>> /\ Batched[q] = queue[i]
         \/ \E w \in Writers : q = <<"writer", w>> /\ Batched[q] = writing[w]
         \/ \E p \in Procs : \E i \in DOMAIN toSubmit[p] :
              q = <<"submit", <<p, i>>>> /\ Batched[q] = toSubmit[p][i]
<1> DEFINE Queued == {"queue"} \X DOMAIN queue
           Taken == {"writer"} \X Writers
           Waiting == {"submit"} \X UNION {{p} \X DOMAIN toSubmit[p] : p \in Procs}
<1>1. /\ DOMAIN Batched = Queued \cup Taken \cup Waiting
      /\ Batched[q] = CASE q[1] = "queue" -> queue[q[2]]
                        [] q[1] = "writer" -> writing[q[2]]
                        [] q[1] = "submit" -> toSubmit[q[2][1]][q[2][2]]
  BY DEF Batched
<1>2. CASE q \in Queued
  <2>1. PICK i \in DOMAIN queue : q = <<"queue", i>>
    BY <1>2
  <2>2. Batched[q] = queue[i]
    BY <1>1, <2>1
  <2>3. QED
    BY <2>1, <2>2
<1>3. CASE q \in Taken
  <2>1. PICK w \in Writers : q = <<"writer", w>>
    BY <1>3
  <2>2. Batched[q] = writing[w]
    BY <1>1, <2>1
  <2>3. QED
    BY <2>1, <2>2
<1>4. CASE q \in Waiting
  <2>1. PICK p \in Procs : \E i \in DOMAIN toSubmit[p] : q = <<"submit", <<p, i>>>>
    BY <1>4
  <2>2. PICK i \in DOMAIN toSubmit[p] : q = <<"submit", <<p, i>>>>
    BY <2>1
  <2>3. Batched[q] = toSubmit[p][i]
    BY <1>1, <2>2
  <2>4. QED
    BY <2>2, <2>3
<1>5. QED
  BY <1>1, <1>2, <1>3, <1>4

\* Places that stay apart are what the property says of the batches.
LEMMA PlacesAreOne == TypeOK /\ PlaceInv => ItemsInOnePlace
<1> SUFFICES ASSUME TypeOK, PlaceInv PROVE ItemsInOnePlace
  OBVIOUS
<1>1. /\ DOMAIN writing = Writers /\ DOMAIN Submitting = Procs
      /\ \A p \in Procs : Submitting[p] = Parts(toSubmit[p])
  BY DEF TypeOK, Submitting
<1>2. /\ \A i \in DOMAIN queue : queue[i] \subseteq Parts(queue)
      /\ \A w \in Writers : writing[w] \subseteq Parts(writing)
      /\ \A p \in Procs : \A i \in DOMAIN toSubmit[p] :
           toSubmit[p][i] \subseteq Submitting[p]
      /\ \A p \in Procs : Submitting[p] \subseteq Parts(Submitting)
  BY <1>1 DEF Parts
<1>3. /\ Apart(queue) /\ Apart(writing) /\ Apart(Submitting)
      /\ \A p \in Procs : Apart(toSubmit[p])
      /\ Disjoint(pending, joinBuf, Parts(Submitting), Parts(queue), Parts(writing), written)
  BY DEF PlaceInv
<1>4. ASSUME NEW q \in DOMAIN Batched
      PROVE  Batched[q] \subseteq Parts(queue) \cup Parts(writing) \cup Parts(Submitting)
  <2>1. CASE \E i \in DOMAIN queue : q = <<"queue", i>> /\ Batched[q] = queue[i]
    BY <1>2, <2>1
  <2>2. CASE \E w \in Writers : q = <<"writer", w>> /\ Batched[q] = writing[w]
    BY <1>2, <2>2
  <2>3. CASE \E p \in Procs : \E i \in DOMAIN toSubmit[p] :
               q = <<"submit", <<p, i>>>> /\ Batched[q] = toSubmit[p][i]
    <3>1. PICK p \in Procs : \E i \in DOMAIN toSubmit[p] : Batched[q] = toSubmit[p][i]
      BY <2>3
    <3>2. Batched[q] \subseteq Submitting[p]
      BY <1>2, <3>1
    <3>3. QED
      BY <1>2, <3>2
  <2>4. QED
    BY <2>1, <2>2, <2>3, BatchedPlaces
<1>5. /\ \A q \in DOMAIN Batched : Batched[q] \cap (pending \cup joinBuf \cup written) = {}
      /\ pending \cap joinBuf = {} /\ written \cap (pending \cup joinBuf) = {}
  BY <1>3, <1>4 DEF Disjoint
<1>6. ASSUME NEW q1 \in DOMAIN Batched, NEW q2 \in DOMAIN Batched, q1 # q2
      PROVE  Batched[q1] \cap Batched[q2] = {}
  <2> DEFINE InQueue(q) == \E i \in DOMAIN queue : q = <<"queue", i>> /\ Batched[q] = queue[i]
             AtWriter(q) == \E w \in Writers : q = <<"writer", w>> /\ Batched[q] = writing[w]
             Submitted(q) == \E p \in Procs : \E i \in DOMAIN toSubmit[p] :
                               q = <<"submit", <<p, i>>>> /\ Batched[q] = toSubmit[p][i]
  <2>1. \A q \in {q1, q2} : InQueue(q) => Batched[q] \subseteq Parts(queue)
    BY <1>2
  <2>2. \A q \in {q1, q2} : AtWriter(q) => Batched[q] \subseteq Parts(writing)
    BY <1>2
  <2>3. \A q \in {q1, q2} : Submitted(q) => Batched[q] \subseteq Parts(Submitting)
    <3>1. ASSUME NEW q \in {q1, q2}, Submitted(q) PROVE Batched[q] \subseteq Parts(Submitting)
      <4>1. PICK p \in Procs : \E i \in DOMAIN toSubmit[p] : Batched[q] = toSubmit[p][i]
        BY <3>1
      <4>2. Batched[q] \subseteq Submitting[p]
        BY <1>2, <4>1
      <4>3. QED
        BY <1>2, <4>2
    <3>2. QED
      BY <3>1
  <2>4. CASE InQueue(q1) /\ InQueue(q2)
    BY <1>3, <1>6, <2>4 DEF Apart
  <2>5. CASE AtWriter(q1) /\ AtWriter(q2)
    BY <1>1, <1>3, <1>6, <2>5 DEF Apart
  <2>6. CASE Submitted(q1) /\ Submitted(q2)
    <3>1. PICK p1 \in Procs : \E i \in DOMAIN toSubmit[p1] :
            q1 = <<"submit", <<p1, i>>>> /\ Batched[q1] = toSubmit[p1][i]
      BY <2>6
    <3>2. PICK i1 \in DOMAIN toSubmit[p1] :
            q1 = <<"submit", <<p1, i1>>>> /\ Batched[q1] = toSubmit[p1][i1]
      BY <3>1
    <3>3. PICK p2 \in Procs : \E i \in DOMAIN toSubmit[p2] :
            q2 = <<"submit", <<p2, i>>>> /\ Batched[q2] = toSubmit[p2][i]
      BY <2>6
    <3>4. PICK i2 \in DOMAIN toSubmit[p2] :
            q2 = <<"submit", <<p2, i2>>>> /\ Batched[q2] = toSubmit[p2][i2]
      BY <3>3
    <3>5. CASE p1 = p2
      BY <1>3, <1>6, <3>2, <3>4, <3>5 DEF Apart
    <3>6. CASE p1 # p2
      <4>1. Submitting[p1] \cap Submitting[p2] = {}
        BY <1>1, <1>3, <3>6 DEF Apart
      <4>2. QED
        BY <1>2, <3>2, <3>4, <4>1
    <3>7. QED
      BY <3>5, <3>6
  <2>7. /\ InQueue(q1) \/ AtWriter(q1) \/ Submitted(q1)
        /\ InQueue(q2) \/ AtWriter(q2) \/ Submitted(q2)
    BY BatchedPlaces
  <2> HIDE DEF InQueue, AtWriter, Submitted
  <2>8. QED
    BY <1>3, <2>1, <2>2, <2>3, <2>4, <2>5, <2>6, <2>7 DEF Disjoint
<1>7. QED
  BY <1>5, <1>6 DEF ItemsInOnePlace

\* No output is in two places, whatever fails: no row of a shared batch is taken by
\* two readers, no batch is flushed twice, nothing is written twice.
THEOREM NothingTwice == Spec => []ItemsInOnePlace
<1>1. Init => IInv /\ CInv /\ OInv
  BY InitType, InitControl, InitConservation, InitOnce DEF IInv
<1>2. IInv /\ CInv /\ OInv /\ [Next]_vars => OInv'
  BY ReadingStep, UnreadStep, UnjoinedStep, PlaceStep DEF IInv, CInv, OInv
<1>3. IInv /\ OInv => ItemsInOnePlace
  BY PlacesAreOne DEF IInv, OInv
<1>4. QED
  BY <1>1, <1>2, <1>3, Conservation, PTL DEF Spec
===============================================================================
