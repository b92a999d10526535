-------------------------- MODULE SelectionFileProofs --------------------------
(***************************************************************************)
(* Proofs about SelectionFile for every number of processes, directories   *)
(* and contents.                                                           *)
(*                                                                         *)
(* That an acknowledged change survives follows from two facts that the    *)
(* properties do not state: a process between its creation and its removal *)
(* of the lock file holds in `draft` what the file held or holds now, and  *)
(* everything a power loss can leave is at least as new as the last change *)
(* that was acknowledged.                                                  *)
(***************************************************************************)
EXTENDS SelectionFile, TLAPS

\* s is what init, activate or rollback by p makes of the selection f.
Succeeds(p, s, f) ==
  /\ s \in Selections
  /\ IF f = NONE
     THEN op[p] = "init"
     ELSE /\ op[p] # "init"
          /\ s.previous = f.current
          /\ s.version = f.version + 1
          /\ op[p] = "rollback" => s.current = f.previous

\* What a writer holds, by how far it has come.
DraftInv ==
  \A p \in Processes :
    /\ pc[p] = "change" => draft[p] = file
    /\ pc[p] = "write" => Succeeds(p, draft[p], file)
    /\ pc[p] \in {"sync", "release"} => draft[p] = file /\ file \in Selections
    /\ pc[p] = "release" => durable = {file}

\* What a power loss can leave is not older than what was acknowledged.
DurableInv ==
  /\ file \in durable
  /\ \A s \in durable : acked > 0 => s # NONE /\ s.version >= acked

IInv == TypeOK /\ OneWriter /\ LockLeftOnlyByCrash /\ DraftInv /\ DurableInv

-----------------------------------------------------------------------------
(* One process moves.                                                      *)

\* What changeSelection makes of a selection, or of none, is a selection.
LEMMA SuccessorIsASelection ==
  ASSUME NEW c \in References, NEW d \in Selections \cup {NONE}
  PROVE  [current |-> c,
          previous |-> IF d = NONE THEN NONE ELSE d.current,
          version |-> IF d = NONE THEN 1 ELSE d.version + 1] \in Selections
  <1>1. CASE d = NONE
    BY <1>1 DEF Selections
  <1>2. CASE d # NONE
    <2>1. d.current \in References /\ d.version \in Nat \ {0}
      BY <1>2 DEF Selections
    <2>2. d.version + 1 \in Nat \ {0}
      BY <2>1
    <2>3. QED
      BY <1>2, <2>1, <2>2 DEF Selections
  <1>3. QED
    BY <1>1, <1>2

\* The fields of that selection, as the next command reads them.
LEMMA SuccessorFields ==
  ASSUME NEW c, NEW d, NEW s,
         s = [current |-> c,
              previous |-> IF d = NONE THEN NONE ELSE d.current,
              version |-> IF d = NONE THEN 1 ELSE d.version + 1]
  PROVE  /\ s.current = c
         /\ d # NONE => s.previous = d.current
         /\ d # NONE => s.version = d.version + 1
  <1>1. s.current = c
    OBVIOUS
  <1>2. d # NONE => s.previous = d.current
    OBVIOUS
  <1>3. d # NONE => s.version = d.version + 1
    OBVIOUS
  <1>4. QED
    BY <1>1, <1>2, <1>3

\* Only p moves, and with the lock as it is it does not enter the section and
\* leaves it only by dying.
LEMMA SectionKept ==
  ASSUME IInv, NEW p \in Processes,
         \A q \in Processes \ {p} : pc'[q] = pc[q], lock' = lock,
         pc'[p] \in Critical => pc[p] \in Critical,
         pc[p] \in Critical \cup {"killed"} => pc'[p] \in Critical \cup {"killed"}
  PROVE  (OneWriter /\ LockLeftOnlyByCrash)'
  BY NoneAssumption DEF IInv, OneWriter, LockLeftOnlyByCrash, TypeOK

\* Only p moves, the file is left alone, and p has no draft to account for.
LEMMA DraftsKept ==
  ASSUME IInv, NEW p \in Processes,
         \A q \in Processes \ {p} : pc'[q] = pc[q] /\ op'[q] = op[q] /\ draft'[q] = draft[q],
         UNCHANGED files,
         pc'[p] \notin {"change", "write", "sync", "release"}
  PROVE  (DraftInv /\ DurableInv)'
  BY DEF IInv, DraftInv, DurableInv, Succeeds, files

\* The writer moves: nobody else has a draft to account for.
LEMMA WriterMoves ==
  ASSUME IInv, NEW p \in Processes, pc[p] \in Critical,
         \A q \in Processes \ {p} : pc'[q] = pc[q]
  PROVE  \A q \in Processes \ {p} : pc'[q] \notin {"change", "write", "sync", "release"}
  BY DEF IInv, OneWriter, Critical

-----------------------------------------------------------------------------
(* Each step keeps the invariant.                                          *)

\* A command before changeSelection touches neither the lock nor the file.
LEMMA PreludeKeepsIInv ==
  ASSUME IInv, NEW p \in Processes,
         \/ StartInit(p) \/ StartRollback(p) \/ StartImport(p) \/ CompareAndReview(p)
         \/ CheckBaseline(p) \/ CheckCandidate(p)
  PROVE  IInv'
  <1> USE NoneAssumption DEF IInv
  \* `op` is "init" from the start.
  <1>1. ASSUME StartInit(p) PROVE IInv'
    <2> USE <1>1 DEF StartInit, Goto, Draft, files, session
    <2>1. TypeOK'
      BY DEF TypeOK, Critical
    <2>2. (OneWriter /\ LockLeftOnlyByCrash)'
      BY SectionKept DEF TypeOK, Critical
    <2>3. (DraftInv /\ DurableInv)'
      BY DraftsKept DEF TypeOK
    <2>4. QED
      BY <2>1, <2>2, <2>3
  \* p has no draft yet that `op` could speak of.
  <1>2. ASSUME StartRollback(p) PROVE IInv'
    <2> USE <1>2 DEF StartRollback, Goto, Draft, files, session
    <2>1. TypeOK'
      BY DEF TypeOK, Critical
    <2>2. (OneWriter /\ LockLeftOnlyByCrash)'
      BY SectionKept DEF TypeOK, Critical
    <2>3. (DraftInv /\ DurableInv)'
      BY DraftsKept DEF TypeOK
    <2>4. QED
      BY <2>1, <2>2, <2>3
  \* The file is read without the lock; nothing is kept of it but `op`.
  <1>3. ASSUME StartImport(p) PROVE IInv'
    <2> USE <1>3 DEF StartImport, Goto, Draft, files, session
    <2>1. TypeOK'
      BY DEF TypeOK, Critical
    <2>2. (OneWriter /\ LockLeftOnlyByCrash)'
      BY SectionKept DEF TypeOK, Critical
    <2>3. (DraftInv /\ DurableInv)'
      BY DraftsKept DEF TypeOK
    <2>4. QED
      BY <2>1, <2>2, <2>3
  \* The report names what two directories hold now.
  <1>4. ASSUME CompareAndReview(p) PROVE IInv'
    <2> USE <1>4 DEF CompareAndReview, Goto, Draft, files, session
    <2>1. TypeOK'
      <3>1. ASSUME NEW b \in References, NEW c \in References
            PROVE  [baseline |-> b, candidate |-> c] \in Reports
        BY DEF Reports
      <3>2. QED
        BY <3>1 DEF TypeOK
    <2>2. (OneWriter /\ LockLeftOnlyByCrash)'
      BY SectionKept DEF TypeOK, Critical
    <2>3. (DraftInv /\ DurableInv)'
      BY DraftsKept DEF TypeOK
    <2>4. QED
      BY <2>1, <2>2, <2>3
  \* A refused command is done without ever having had the lock.
  <1>5. ASSUME CheckBaseline(p) PROVE IInv'
    <2> USE <1>5 DEF CheckBaseline, Goto, Draft, files, session
    <2>1. TypeOK'
      BY DEF TypeOK, Critical
    <2>2. (OneWriter /\ LockLeftOnlyByCrash)'
      BY SectionKept DEF TypeOK, Critical
    <2>3. (DraftInv /\ DurableInv)'
      BY DraftsKept DEF TypeOK
    <2>4. QED
      BY <2>1, <2>2, <2>3
  \* The same for the candidate.
  <1>6. ASSUME CheckCandidate(p) PROVE IInv'
    <2> USE <1>6 DEF CheckCandidate, Goto, Draft, files, session
    <2>1. TypeOK'
      BY DEF TypeOK, Critical
    <2>2. (OneWriter /\ LockLeftOnlyByCrash)'
      BY SectionKept DEF TypeOK, Critical
    <2>3. (DraftInv /\ DurableInv)'
      BY DraftsKept DEF TypeOK
    <2>4. QED
      BY <2>1, <2>2, <2>3
  <1>7. QED
    BY <1>1, <1>2, <1>3, <1>4, <1>5, <1>6

\* changeSelection, from creating the lock file to removing it.
LEMMA ChangeKeepsIInv ==
  ASSUME IInv, NEW p \in Processes,
         \/ Lock(p) \/ ReadFile(p) \/ Change(p) \/ Rename(p) \/ FailWrite(p)
         \/ SyncDirectory(p) \/ FailSync(p) \/ Release(p)
  PROVE  IInv'
  <1> USE NoneAssumption DEF IInv
  \* O_EXCL: nobody is in the section when p enters it.
  <1>1. ASSUME Lock(p) PROVE IInv'
    <2> USE <1>1 DEF Lock, Goto, Draft, files, session
    <2>1. TypeOK'
      BY DEF TypeOK, Critical
    <2>2. (OneWriter /\ LockLeftOnlyByCrash)'
      <3>1. CASE lock = NONE
        <4>1. \A q \in Processes : pc[q] \notin Critical
          BY <3>1 DEF OneWriter
        <4>2. lock' = p /\ pc'[p] \in Critical /\ \A q \in Processes \ {p} : pc'[q] = pc[q]
          BY <3>1 DEF TypeOK, Critical
        <4>3. QED
          BY <4>1, <4>2 DEF OneWriter, LockLeftOnlyByCrash
      <3>2. CASE lock # NONE
        BY <3>2, SectionKept DEF TypeOK, Critical
      <3>3. QED
        BY <3>1, <3>2
    <2>3. (DraftInv /\ DurableInv)'
      BY DraftsKept DEF TypeOK
    <2>4. QED
      BY <2>1, <2>2, <2>3
  \* From here on the file changes by p's rename or not at all.
  <1>2. ASSUME ReadFile(p) PROVE IInv'
    <2> USE <1>2 DEF ReadFile, Goto, Draft, files, session
    <2>1. TypeOK'
      BY DEF TypeOK, Critical
    <2>2. (OneWriter /\ LockLeftOnlyByCrash)'
      BY SectionKept DEF TypeOK, Critical
    <2>3. (DraftInv /\ DurableInv)'
      <3>1. \A q \in Processes \ {p} : pc'[q] \notin {"change", "write", "sync", "release"}
        BY WriterMoves DEF TypeOK, Critical
      <3>2. QED
        BY <3>1 DEF DraftInv, DurableInv, TypeOK
    <2>4. QED
      BY <2>1, <2>2, <2>3
  \* The callback works on what the file still holds.
  <1>3. ASSUME Change(p) PROVE IInv'
    <2> USE <1>3 DEF Change, Goto, Draft, files, session
    <2>1. TypeOK'
      <3>1. ASSUME NEW c \in References
            PROVE  [current |-> c,
                    previous |-> IF draft[p] = NONE THEN NONE ELSE draft[p].current,
                    version |-> IF draft[p] = NONE THEN 1 ELSE draft[p].version + 1]
                     \in Selections
        BY <3>1, SuccessorIsASelection DEF TypeOK
      <3>2. NewCurrent(p, draft[p]) \subseteq References
        BY DEF NewCurrent
      <3>3. draft' \in [Processes -> Selections \cup {NONE}]
        <4>1. CASE NewCurrent(p, draft[p]) = {}
          BY <4>1 DEF TypeOK
        <4>2. CASE NewCurrent(p, draft[p]) # {}
          <5>1. \E s \in Selections : draft' = [draft EXCEPT ![p] = s]
            BY <3>1, <3>2, <4>2
          <5>2. QED
            BY <5>1 DEF TypeOK
        <4>3. QED
          BY <4>1, <4>2
      <3>4. pc' \in [Processes -> Critical \cup
              {"idle", "reviewed", "checked", "lock", "succeeded", "failed", "killed"}]
        BY DEF TypeOK, Critical
      <3>5. QED
        BY <3>3, <3>4 DEF TypeOK
    <2>2. (OneWriter /\ LockLeftOnlyByCrash)'
      BY SectionKept DEF TypeOK, Critical
    <2>3. (DraftInv /\ DurableInv)'
      <3>1. \A q \in Processes \ {p} : pc'[q] \notin {"change", "write", "sync", "release"}
        BY WriterMoves DEF TypeOK, Critical
      <3>2. draft[p] = file
        BY DEF DraftInv
      <3>3. ASSUME NewCurrent(p, draft[p]) # {}
            PROVE  pc'[p] = "write" /\ Succeeds(p, draft'[p], file)
        <4>1. PICK c \in NewCurrent(p, draft[p]) :
                draft'[p] = [current |-> c,
                             previous |-> IF file = NONE THEN NONE ELSE file.current,
                             version |-> IF file = NONE THEN 1 ELSE file.version + 1]
          BY <3>2, <3>3 DEF TypeOK
        <4>2. draft'[p] \in Selections
          <5>1. c \in References
            BY <4>1 DEF NewCurrent
          <5>2. QED
            BY <4>1, <5>1, SuccessorIsASelection DEF TypeOK
        <4>3. file = NONE => op[p] = "init"
          BY <3>2, <3>3 DEF NewCurrent
        <4>4. file # NONE => op[p] # "init" /\ (op[p] = "rollback" => c = file.previous)
          BY <3>2, <4>1 DEF NewCurrent
        <4>5. pc'[p] = "write"
          BY <3>3 DEF TypeOK
        <4>6. /\ draft'[p].current = c
              /\ file # NONE => draft'[p].previous = file.current
              /\ file # NONE => draft'[p].version = file.version + 1
          BY ONLY <4>1, SuccessorFields
        <4>7. op'[p] = op[p]
          OBVIOUS
        <4>8. Succeeds(p, draft'[p], file)
          BY <4>2, <4>3, <4>4, <4>6 DEF Succeeds
        <4>9. QED
          BY <4>5, <4>8
      <3>4. ASSUME NewCurrent(p, draft[p]) = {}
            PROVE  pc'[p] = "release failed"
        BY <3>4 DEF TypeOK
      <3>5. QED
        BY <3>1, <3>3, <3>4 DEF DraftInv, DurableInv, Succeeds
    <2>4. QED
      BY <2>1, <2>2, <2>3
  \* What a power loss can leave grows by a newer selection.
  <1>4. ASSUME Rename(p) PROVE IInv'
    <2> USE <1>4 DEF Rename, Goto, Draft, files, session
    <2>1. TypeOK'
      BY DEF TypeOK, Critical
    <2>2. (OneWriter /\ LockLeftOnlyByCrash)'
      BY SectionKept DEF TypeOK, Critical
    <2>3. (DraftInv /\ DurableInv)'
      <3>1. \A q \in Processes \ {p} : pc'[q] \notin {"change", "write", "sync", "release"}
        BY WriterMoves DEF TypeOK, Critical
      <3>2. pc'[p] = "sync" /\ draft'[p] = file' /\ file' \in Selections
        BY DEF DraftInv, Succeeds, TypeOK
      <3>3. acked > 0 => file' # NONE /\ file'.version >= acked
        BY DEF DraftInv, Succeeds, DurableInv, TypeOK, Selections
      <3>4. QED
        BY <3>1, <3>2, <3>3 DEF DraftInv, DurableInv
    <2>4. QED
      BY <2>1, <2>2, <2>3
  \* The file is as before.
  <1>5. ASSUME FailWrite(p) PROVE IInv'
    <2> USE <1>5 DEF FailWrite, Goto, Draft, files, session
    <2>1. TypeOK'
      BY DEF TypeOK, Critical
    <2>2. (OneWriter /\ LockLeftOnlyByCrash)'
      BY SectionKept DEF TypeOK, Critical
    <2>3. (DraftInv /\ DurableInv)'
      BY DraftsKept DEF TypeOK
    <2>4. QED
      BY <2>1, <2>2, <2>3
  \* Only now the change can be acknowledged.
  <1>6. ASSUME SyncDirectory(p) PROVE IInv'
    <2> USE <1>6 DEF SyncDirectory, Goto, Draft, files, session
    <2>1. TypeOK'
      BY DEF TypeOK, Critical
    <2>2. (OneWriter /\ LockLeftOnlyByCrash)'
      BY SectionKept DEF TypeOK, Critical
    <2>3. (DraftInv /\ DurableInv)'
      <3>1. \A q \in Processes \ {p} : pc'[q] \notin {"change", "write", "sync", "release"}
        BY WriterMoves DEF TypeOK, Critical
      <3>2. QED
        BY <3>1 DEF DraftInv, DurableInv, TypeOK
    <2>4. QED
      BY <2>1, <2>2, <2>3
  \* The change is visible but never acknowledged.
  <1>7. ASSUME FailSync(p) PROVE IInv'
    <2> USE <1>7 DEF FailSync, Goto, Draft, files, session
    <2>1. TypeOK'
      BY DEF TypeOK, Critical
    <2>2. (OneWriter /\ LockLeftOnlyByCrash)'
      BY SectionKept DEF TypeOK, Critical
    <2>3. (DraftInv /\ DurableInv)'
      BY DraftsKept DEF TypeOK
    <2>4. QED
      BY <2>1, <2>2, <2>3
  \* The lock file that is removed is p's own.
  <1>8. ASSUME Release(p) PROVE IInv'
    <2> USE <1>8 DEF Release, Goto, Draft, files, session
    <2>1. TypeOK'
      <3>1. pc[p] = "release" => draft[p] \in Selections
        BY DEF DraftInv
      <3>2. acked' \in Nat
        BY <3>1 DEF Selections, TypeOK
      <3>3. QED
        BY <3>2 DEF TypeOK
    <2>2. (OneWriter /\ LockLeftOnlyByCrash)'
      <3>1. \A q \in Processes \ {p} : pc'[q] = pc[q] /\ pc[q] \notin Critical
        BY DEF OneWriter, TypeOK, Critical
      <3>2. pc'[p] \notin Critical
        BY DEF TypeOK, Critical
      <3>3. QED
        BY <3>1, <3>2 DEF OneWriter, LockLeftOnlyByCrash
    <2>3. (DraftInv /\ DurableInv)'
      <3>1. \A q \in Processes : pc'[q] \notin {"change", "write", "sync", "release"}
        BY WriterMoves DEF TypeOK, Critical
      <3>2. CASE pc[p] = "release"
        BY <3>1, <3>2 DEF DraftInv, DurableInv, TypeOK, Selections
      <3>3. CASE pc[p] = "release failed"
        BY <3>1, <3>3 DEF DraftInv, DurableInv
      <3>4. QED
        BY <3>2, <3>3
    <2>4. QED
      BY <2>1, <2>2, <2>3
  <1>9. QED
    BY <1>1, <1>2, <1>3, <1>4, <1>5, <1>6, <1>7, <1>8

\* Kills, power losses, the removal of a stale lock, changing directories.
LEMMA EnvironmentKeepsIInv ==
  ASSUME IInv, \/ \E p \in Processes : Kill(p)
         \/ LosePower \/ RemoveStaleLock \/ ContentChange
  PROVE  IInv'
  <1> USE NoneAssumption DEF IInv
  \* A killed process is in no section; its lock file stays.
  <1>1. ASSUME NEW p \in Processes, Kill(p) PROVE IInv'
    <2> USE <1>1 DEF Kill, Goto, Draft, files, session
    <2>1. TypeOK'
      BY DEF TypeOK, Critical
    <2>2. (OneWriter /\ LockLeftOnlyByCrash)'
      BY SectionKept DEF TypeOK, Critical, Running
    <2>3. (DraftInv /\ DurableInv)'
      BY DraftsKept DEF TypeOK
    <2>4. QED
      BY <2>1, <2>2, <2>3
  \* Every writer dies, and what is left is durable.
  <1>2. ASSUME LosePower PROVE IInv'
    <2> USE <1>2 DEF LosePower, Goto, Draft, files, session
    <2>1. TypeOK'
      BY DEF TypeOK, Critical
    <2>2. (OneWriter /\ LockLeftOnlyByCrash)'
      <3>1. \A q \in Processes : pc'[q] \notin Critical
        BY DEF Running, Critical
      <3>2. ASSUME lock' # NONE
            PROVE  pc'[lock'] = "killed"
        <4>1. lock' = lock /\ lock \in Processes /\ pc[lock] \in Critical \cup {"killed"}
          BY <3>2 DEF LockLeftOnlyByCrash, TypeOK
        <4>2. QED
          BY <4>1 DEF Running, Critical
      <3>3. QED
        BY <3>1, <3>2 DEF OneWriter, LockLeftOnlyByCrash
    <2>3. (DraftInv /\ DurableInv)'
      <3>1. \A q \in Processes : pc'[q] \notin {"change", "write", "sync", "release"}
        BY DEF Running
      <3>2. QED
        BY <3>1 DEF DraftInv, DurableInv
    <2>4. QED
      BY <2>1, <2>2, <2>3
  \* Nobody is running, so nobody is in the section.
  <1>3. ASSUME RemoveStaleLock PROVE IInv'
    <2> USE <1>3 DEF RemoveStaleLock, Goto, Draft, files, session
    <2>1. TypeOK'
      BY DEF TypeOK, Critical
    <2>2. (OneWriter /\ LockLeftOnlyByCrash)'
      BY DEF OneWriter, LockLeftOnlyByCrash, Running, Critical
    <2>3. (DraftInv /\ DurableInv)'
      BY DEF DraftInv, DurableInv, Succeeds
    <2>4. QED
      BY <2>1, <2>2, <2>3
  \* The selection file and its lock are no part of a generation.
  <1>4. ASSUME ContentChange PROVE IInv'
    <2> USE <1>4 DEF ContentChange, Goto, Draft, files, session
    <2>1. TypeOK'
      <3>1. content' \in [Paths -> Digests \cup {NONE}]
        BY DEF TypeOK
      <3>2. QED
        BY <3>1 DEF TypeOK
    <2>2. (OneWriter /\ LockLeftOnlyByCrash)'
      BY DEF OneWriter, LockLeftOnlyByCrash
    <2>3. (DraftInv /\ DurableInv)'
      BY DEF DraftInv, DurableInv, Succeeds
    <2>4. QED
      BY <2>1, <2>2, <2>3
  <1>5. QED
    BY <1>1, <1>2, <1>3, <1>4

\* The invariant holds before the first init.
LEMMA InitImpliesIInv == Init => IInv
  <1> SUFFICES ASSUME Init PROVE IInv
    OBVIOUS
  <1> USE NoneAssumption DEF Init, Critical
  <1>1. TypeOK
    BY DEF TypeOK
  <1>2. OneWriter /\ LockLeftOnlyByCrash
    BY DEF OneWriter, LockLeftOnlyByCrash
  <1>3. DraftInv /\ DurableInv
    BY DEF DraftInv, DurableInv
  <1>4. QED
    BY <1>1, <1>2, <1>3 DEF IInv

\* A stuttering step keeps the invariant.
LEMMA StutterKeepsIInv ==
  ASSUME IInv, UNCHANGED vars
  PROVE  IInv'
  BY DEF IInv, vars, files, session, TypeOK, OneWriter, LockLeftOnlyByCrash, DraftInv,
     Succeeds, DurableInv

\* The lock, the drafts and what is durable agree in every reachable state.
THEOREM InductiveInvariant == Spec => []IInv
  <1>1. ASSUME IInv, [Next]_vars
        PROVE  IInv'
    BY <1>1, PreludeKeepsIInv, ChangeKeepsIInv, EnvironmentKeepsIInv, StutterKeepsIInv
       DEF Next, Step
  <1>2. QED
    BY InitImpliesIInv, <1>1, PTL DEF Spec

-----------------------------------------------------------------------------
(* What it says of the commands.                                           *)

\* Every variable keeps its type.
THEOREM TypeCorrect == Spec => []TypeOK
  <1>1. IInv => TypeOK
    BY DEF IInv
  <1>2. QED
    BY <1>1, InductiveInvariant, PTL

\* A lock serializes local writers, however many of them are killed.
THEOREM WritersAreSerialized == Spec => []OneWriter
  <1>1. IInv => OneWriter
    BY DEF IInv
  <1>2. QED
    BY <1>1, InductiveInvariant, PTL

\* A lock file without a writer is the trace of a crash.
THEOREM StaleLocksComeFromCrashes == Spec => []LockLeftOnlyByCrash
  <1>1. IInv => LockLeftOnlyByCrash
    BY DEF IInv
  <1>2. QED
    BY <1>1, InductiveInvariant, PTL

\* A change whose command reported success is not taken back by a power loss
\* or by a later command that fails.
THEOREM SuccessIsDurable == Spec => []AcknowledgedChangesSurvive
  <1>1. IInv => AcknowledgedChangesSurvive
    BY DEF IInv, DurableInv, AcknowledgedChangesSurvive
  <1>2. QED
    BY <1>1, InductiveInvariant, PTL

\* No publication is lost: each selection is the successor of the one it
\* replaces, and a rollback returns to what that one displaced.
THEOREM NoLostUpdate == Spec => ChangesBuildOnTheFile
  <1> DEFINE Builds(p) ==
        Publishes(p) =>
          IF file = NONE
          THEN op[p] = "init"
          ELSE /\ op[p] # "init"
               /\ file'.previous = file.current
               /\ op[p] = "rollback" => file'.current = file.previous
  <1>1. ASSUME IInv, Next, NEW p \in Processes, Publishes(p)
        PROVE  Rename(p)
    <2>1. ASSUME NEW q \in Processes, Step(q), q # p
          PROVE  pc'[p] = pc[p]
      BY <2>1, <1>1 DEF IInv, TypeOK, Step, StartInit, StartRollback, StartImport,
         CompareAndReview, CheckBaseline, CheckCandidate, Lock, ReadFile, Change, Rename,
         FailWrite, SyncDirectory, FailSync, Release, Kill, Goto
    <2>2. ASSUME Step(p)
          PROVE  Rename(p)
      BY <2>2, <1>1 DEF Publishes, IInv, TypeOK, Step, StartInit, StartRollback, StartImport,
         CompareAndReview, CheckBaseline, CheckCandidate, Lock, ReadFile, Change,
         FailWrite, SyncDirectory, FailSync, Release, Kill, Goto
    <2>3. ~(LosePower \/ RemoveStaleLock \/ ContentChange)
      BY <1>1 DEF Publishes, LosePower, RemoveStaleLock, ContentChange
    <2>4. QED
      BY <1>1, <2>1, <2>2, <2>3 DEF Next, Publishes
  <1>2. ASSUME IInv, NEW p \in Processes, Rename(p)
        PROVE  Builds(p)
    BY <1>2 DEF IInv, DraftInv, Succeeds, Rename
  <1>3. IInv /\ [Next]_vars => [\A p \in Processes : Builds(p)]_vars
    BY <1>1, <1>2
  <1>4. QED
    BY <1>3, InductiveInvariant, PTL DEF Spec, ChangesBuildOnTheFile
================================================================================
