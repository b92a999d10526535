------------------------- MODULE RoutingServiceProofs -------------------------
(***************************************************************************)
(* Proofs about RoutingService for every number of requests, controllers,  *)
(* snapshots and workers.                                                  *)
(*                                                                         *)
(* The safety properties are not inductive: that a token is backed by a    *)
(* reader follows from two counts, of tokens and of readers, that every    *)
(* step keeps.  IInv adds them, and what the steps rely on: who is inside  *)
(* Acquire, which snapshots can be open, and how far a load has come.      *)
(***************************************************************************)
EXTENDS RoutingService, FiniteSetTheorems, TLAPS

\* Requests that own a token, and requests that own a reader of snapshot s.
Holders == {r \in Requests : pc[r] # "idle"}
LeasedOn(s) == {r \in Requests : pc[r] = "leased" /\ lease[r].snapshot = s}

\* Snapshots whose readers a request may be using or may obtain.
Usable == {s \in Snapshots : s = snapshot \/ leases[s] # {}}

\* `mu` names the request between the two receives of Acquire.
MuInv == \A r \in Requests : pc[r] = "slotted" <=> mu = r

\* A request is counted by exactly the WaitGroup of the snapshot it leases.
LeaseInv ==
  \A r \in Requests :
    /\ pc[r] \in {"leased", "returned"} <=> lease[r].snapshot # NONE
    /\ \A s \in Snapshots : r \in leases[s] <=> lease[r].snapshot = s
    /\ pc[r] = "leased" => lease[r].reader \in Reader

\* What the holder of `replacement` is doing, and which snapshots that allows
\* to be open: the current one and the one being loaded or closed.
ControlInv ==
  /\ closed <=> snapshot = NONE
  /\ mu # NONE => ~closed
  /\ replacement # NONE <=> (next # NONE \/ retiring # NONE)
  /\ next # NONE => retiring = NONE /\ ~closed /\ next # snapshot
  /\ retiring # NONE => retiring # snapshot
  /\ \A s \in Snapshots : open[s] # {} => s \in {snapshot, next, retiring}
  /\ \A s \in Snapshots : leases[s] # {} => s \in {snapshot, retiring}

\* A usable snapshot is completely open and its readers agree with its metadata.
WholeInv ==
  \A s \in Usable :
    /\ open[s] = Reader
    /\ \A i \in Reader : print[s][i] = metadata[s]

\* The snapshot being loaded has exactly its first `count` readers.
LoadInv ==
  next # NONE =>
    /\ open[next] = 1 .. count
    /\ available[next] = 1 .. count
    /\ leases[next] = {}
    /\ \A i \in 1 .. count : print[next][i] = metadata[next]

\* Readers leased from one snapshot are distinct and not on offer.
OwnerInv ==
  \A r \in Requests : pc[r] = "leased" =>
    /\ lease[r].reader \notin available[lease[r].snapshot]
    /\ \A q \in Requests \ {r} : pc[q] = "leased" => lease[q] # lease[r]

\* Tokens are conserved.
SlotCount == slots + Cardinality(Holders) = Workers

\* The readers of a usable snapshot are conserved.
ReaderCount ==
  \A s \in Usable : Cardinality(available[s]) + Cardinality(LeasedOn(s)) = Workers

IInv ==
  /\ TypeOK /\ MuInv /\ LeaseInv /\ ControlInv /\ WholeInv /\ LoadInv /\ OwnerInv
  /\ SlotCount /\ ReaderCount

-----------------------------------------------------------------------------
(* Finite sets: the two counts.                                            *)

\* Holders, the readers on offer and the readers leased are finite, so their
\* cardinalities are naturals.
LEMMA Finiteness ==
  ASSUME TypeOK
  PROVE  /\ IsFiniteSet(Holders)
         /\ \A s \in Snapshots : IsFiniteSet(available[s]) /\ IsFiniteSet(LeasedOn(s))
  <1>1. IsFiniteSet(Holders) /\ \A s \in Snapshots : IsFiniteSet(LeasedOn(s))
    BY RequestsAssumption, FS_Subset DEF Holders, LeasedOn
  <1>2. IsFiniteSet(Reader)
    BY WorkersAssumption, FS_Interval DEF Reader
  <1>3. QED
    BY <1>1, <1>2, FS_Subset DEF TypeOK

\* Adding a new element to a finite set adds one to its cardinality.
LEMMA CountUp ==
  ASSUME NEW S, IsFiniteSet(S), NEW x, x \notin S
  PROVE  Cardinality(S \cup {x}) = Cardinality(S) + 1 /\ Cardinality(S) \in Nat
  BY FS_AddElement, FS_CardinalityType

\* Removing an element of a finite set takes one from its cardinality.
LEMMA CountDown ==
  ASSUME NEW S, IsFiniteSet(S), NEW x \in S
  PROVE  Cardinality(S \ {x}) = Cardinality(S) - 1 /\ Cardinality(S) \in Nat \ {0}
  BY FS_RemoveElement, FS_CardinalityType, FS_EmptySet

\* The two counts together: a request that holds a token but no reader, or a
\* token still in the channel, leaves a reader on offer.
LEMMA IInvImpliesTokenBacksReader ==
  ASSUME IInv
  PROVE  TokenBacksReader
  <1> USE DEF IInv
  <1>1. ASSUME mu = NONE, snapshot # NONE, slots > 0
        PROVE  available[snapshot] # {}
    <2>1. snapshot \in Snapshots /\ snapshot \in Usable
      BY <1>1 DEF TypeOK, Usable
    <2>2. Cardinality(available[snapshot]) + Cardinality(LeasedOn(snapshot)) = Workers
      BY <2>1 DEF ReaderCount
    <2>3. /\ LeasedOn(snapshot) \in SUBSET Holders
          /\ IsFiniteSet(Holders)
      BY Finiteness DEF LeasedOn, Holders
    <2>4. /\ Cardinality(LeasedOn(snapshot)) <= Cardinality(Holders)
          /\ Cardinality(LeasedOn(snapshot)) \in Nat
          /\ Cardinality(Holders) \in Nat
      BY <2>3, FS_Subset, FS_CardinalityType
    <2>5. IsFiniteSet(available[snapshot])
      BY <2>1, Finiteness
    <2>6. Cardinality(available[snapshot]) \in Nat
      BY <2>5, FS_CardinalityType
    <2>7. Cardinality(available[snapshot]) # 0
      BY <1>1, <2>2, <2>4, <2>6, WorkersAssumption DEF SlotCount, TypeOK
    <2>8. QED
      BY <2>5, <2>7, FS_EmptySet
  <1>2. ASSUME NEW r \in Requests, pc[r] = "slotted"
        PROVE  available[snapshot] # {}
    <2>1. snapshot \in Snapshots /\ snapshot \in Usable
      BY <1>2, NoneAssumption DEF TypeOK, Usable, MuInv, ControlInv
    <2>2. Cardinality(available[snapshot]) + Cardinality(LeasedOn(snapshot)) = Workers
      BY <2>1 DEF ReaderCount
    <2>3. /\ LeasedOn(snapshot) \in SUBSET (Holders \ {r})
          /\ IsFiniteSet(Holders) /\ r \in Holders
      BY <1>2, Finiteness DEF LeasedOn, Holders
    <2>4. /\ Cardinality(Holders \ {r}) = Cardinality(Holders) - 1
          /\ IsFiniteSet(Holders \ {r})
          /\ Cardinality(Holders) \in Nat
      BY <2>3, CountDown, FS_RemoveElement
    <2>5. /\ Cardinality(LeasedOn(snapshot)) <= Cardinality(Holders \ {r})
          /\ Cardinality(LeasedOn(snapshot)) \in Nat
      BY <2>3, <2>4, FS_Subset, FS_CardinalityType
    <2>6. IsFiniteSet(available[snapshot])
      BY <2>1, Finiteness
    <2>7. Cardinality(available[snapshot]) \in Nat
      BY <2>6, FS_CardinalityType
    <2>8. Cardinality(available[snapshot]) # 0
      BY <2>2, <2>4, <2>5, <2>7, WorkersAssumption DEF SlotCount, TypeOK
    <2>9. QED
      BY <2>6, <2>8, FS_EmptySet
  <1>3. QED
    BY <1>1, <1>2 DEF TokenBacksReader

-----------------------------------------------------------------------------
(* The inductive invariant.                                                *)

\* OpenService returns a service that satisfies the invariant.
LEMMA InitIInv == Init => IInv
  <1> SUFFICES ASSUME Init PROVE IInv
    OBVIOUS
  <1> USE WorkersAssumption, NoneAssumption DEF Init, NoLease, Reader
  <1>1. TypeOK
    <2>1. open \in [Snapshots -> SUBSET Reader] /\ available \in [Snapshots -> SUBSET Reader]
      OBVIOUS
    <2>2. print \in [Snapshots -> [Reader -> Fingerprints]]
      OBVIOUS
    <2>3. lease \in [Requests -> [snapshot : Snapshots \cup {NONE}, reader : 0 .. Workers]]
      OBVIOUS
    <2>4. /\ pc \in [Requests -> {"idle", "slotted", "leased", "returned", "ended"}]
          /\ leases \in [Snapshots -> SUBSET Requests]
      OBVIOUS
    <2>5. slots \in 0 .. Workers /\ count \in 0 .. Workers
      OBVIOUS
    <2>6. QED
      BY <2>1, <2>2, <2>3, <2>4, <2>5 DEF TypeOK
  <1>2. MuInv /\ LeaseInv /\ ControlInv /\ WholeInv /\ LoadInv /\ OwnerInv
    BY DEF MuInv, LeaseInv, ControlInv, WholeInv, LoadInv, OwnerInv, Usable
  <1>3. SlotCount
    <2>1. Holders = {}
      BY DEF Holders
    <2>2. QED
      BY <2>1, FS_EmptySet DEF SlotCount
  <1>4. ReaderCount
    <2>1. SUFFICES ASSUME NEW s \in Usable
                   PROVE  Cardinality(available[s]) + Cardinality(LeasedOn(s)) = Workers
      BY DEF ReaderCount
    <2>2. available[s] = 1 .. Workers /\ LeasedOn(s) = {}
      BY DEF Usable, LeasedOn
    <2>3. Cardinality(1 .. Workers) = Workers /\ Cardinality({}) = 0
      BY FS_Interval, FS_EmptySet
    <2>4. QED
      BY <2>2, <2>3
  <1>5. QED
    BY <1>1, <1>2, <1>3, <1>4 DEF IInv

LEMMA TakeSlotIInv ==
  ASSUME IInv, NEW r \in Requests, TakeSlot(r)
  PROVE  IInv'
  <1> USE NoneAssumption, WorkersAssumption DEF IInv, TakeSlot, loadVars
  <1>1. TypeOK'
    BY DEF TypeOK
  <1>2. MuInv' /\ LeaseInv' /\ ControlInv' /\ WholeInv' /\ LoadInv' /\ OwnerInv'
    BY DEF TypeOK, MuInv, LeaseInv, ControlInv, WholeInv, LoadInv, OwnerInv, Usable
  <1>3. SlotCount'
    <2>1. Holders' = Holders \cup {r} /\ r \notin Holders
      BY DEF Holders, TypeOK
    <2>2. Cardinality(Holders') = Cardinality(Holders) + 1 /\ Cardinality(Holders) \in Nat
      BY <2>1, Finiteness, CountUp
    <2>3. QED
      BY <2>2 DEF SlotCount, TypeOK
  <1>4. ReaderCount'
    <2>1. \A s : LeasedOn(s)' = LeasedOn(s)
      BY DEF LeasedOn, TypeOK
    <2>2. QED
      BY <2>1 DEF ReaderCount, Usable
  <1>5. QED
    BY <1>1, <1>2, <1>3, <1>4 DEF IInv

LEMMA TakeReaderIInv ==
  ASSUME IInv, NEW r \in Requests, TakeReader(r)
  PROVE  IInv'
  <1> USE NoneAssumption, WorkersAssumption DEF IInv, loadVars
  <1>1. snapshot \in Snapshots /\ snapshot \in Usable /\ ~closed /\ mu = r
    BY DEF TypeOK, Usable, MuInv, ControlInv, TakeReader
  <1>2. PICK i \in available[snapshot] :
          /\ available' = [available EXCEPT ![snapshot] = @ \ {i}]
          /\ leases' = [leases EXCEPT ![snapshot] = @ \cup {r}]
          /\ lease' = [lease EXCEPT ![r] = [snapshot |-> snapshot, reader |-> i]]
          /\ pc' = [pc EXCEPT ![r] = "leased"]
          /\ UNCHANGED slots
    BY IInvImpliesTokenBacksReader DEF TakeReader, TokenBacksReader
  <1>3. /\ mu' = NONE /\ pc[r] = "slotted"
        /\ UNCHANGED <<snapshot, closed, reloadError, replacement, next, count, print,
                       metadata, retiring, open>>
    BY DEF TakeReader
  <1>4. i \in Reader /\ lease[r].snapshot = NONE
    BY <1>1, <1>2, <1>3 DEF TypeOK, LeaseInv
  <1>5. TypeOK'
    BY <1>1, <1>2, <1>3, <1>4 DEF TypeOK, Reader
  <1>6. MuInv' /\ ControlInv' /\ LoadInv'
    BY <1>1, <1>2, <1>3 DEF TypeOK, MuInv, ControlInv, LoadInv
  <1>7. LeaseInv'
    BY <1>1, <1>2, <1>3, <1>4 DEF TypeOK, LeaseInv
  <1>8. WholeInv'
    BY <1>1, <1>2, <1>3 DEF TypeOK, WholeInv, Usable
  <1>9. OwnerInv'
    BY <1>1, <1>2, <1>3, <1>4 DEF TypeOK, OwnerInv, LeaseInv
  <1>10. SlotCount'
    <2>1. Holders' = Holders
      BY <1>2, <1>3 DEF Holders, TypeOK
    <2>2. QED
      BY <1>2, <2>1 DEF SlotCount
  <1>11. ReaderCount'
    <2>1. SUFFICES ASSUME NEW s \in Snapshots, s \in Usable'
                   PROVE  Cardinality(available'[s]) + Cardinality(LeasedOn(s)') = Workers
      BY DEF ReaderCount, Usable
    <2>2. CASE s = snapshot
      <3>1. /\ available'[s] = available[s] \ {i} /\ i \in available[s]
            /\ LeasedOn(s)' = LeasedOn(s) \cup {r} /\ r \notin LeasedOn(s)
        BY <1>1, <1>2, <1>3, <2>2 DEF TypeOK, LeasedOn
      <3>2. /\ Cardinality(available'[s]) = Cardinality(available[s]) - 1
            /\ Cardinality(available[s]) \in Nat
        BY <3>1, Finiteness, CountDown
      <3>3. /\ Cardinality(LeasedOn(s)') = Cardinality(LeasedOn(s)) + 1
            /\ Cardinality(LeasedOn(s)) \in Nat
        BY <3>1, Finiteness, CountUp
      <3>4. QED
        BY <1>1, <2>2, <3>2, <3>3 DEF ReaderCount
    <2>3. CASE s # snapshot
      <3>1. available'[s] = available[s] /\ LeasedOn(s)' = LeasedOn(s) /\ s \in Usable
        BY <1>1, <1>2, <1>3, <2>1, <2>3 DEF TypeOK, LeasedOn, Usable
      <3>2. QED
        BY <3>1 DEF ReaderCount
    <2>4. QED
      BY <2>2, <2>3
  <1>12. QED
    BY <1>5, <1>6, <1>7, <1>8, <1>9, <1>10, <1>11 DEF IInv

LEMMA ReturnReaderIInv ==
  ASSUME IInv, NEW r \in Requests, ReturnReader(r)
  PROVE  IInv'
  <1> USE NoneAssumption, WorkersAssumption DEF IInv, loadVars, ReturnReader
  <1> DEFINE t == lease[r].snapshot
             i == lease[r].reader
  <1>1. t \in Snapshots /\ i \in Reader /\ t \in Usable /\ i \notin available[t]
    BY DEF TypeOK, LeaseInv, Usable, OwnerInv
  <1>2. TypeOK'
    BY <1>1 DEF TypeOK
  <1>3. MuInv' /\ LeaseInv' /\ ControlInv' /\ WholeInv'
    BY <1>1 DEF TypeOK, MuInv, LeaseInv, ControlInv, WholeInv, Usable
  <1>4. LoadInv'
    BY <1>1 DEF TypeOK, LoadInv, Usable, ControlInv
  <1>5. OwnerInv'
    BY <1>1 DEF TypeOK, OwnerInv, LeaseInv
  <1>6. SlotCount'
    <2>1. Holders' = Holders
      BY DEF Holders, TypeOK
    <2>2. QED
      BY <2>1 DEF SlotCount
  <1>7. ReaderCount'
    <2>1. SUFFICES ASSUME NEW s \in Usable
                   PROVE  Cardinality(available'[s]) + Cardinality(LeasedOn(s)') = Workers
      BY DEF ReaderCount, Usable
    <2>2. CASE s = t
      <3>1. /\ available'[s] = available[s] \cup {i}
            /\ LeasedOn(s)' = LeasedOn(s) \ {r} /\ r \in LeasedOn(s)
        BY <1>1, <2>2 DEF TypeOK, LeasedOn
      <3>2. /\ Cardinality(available'[s]) = Cardinality(available[s]) + 1
            /\ Cardinality(available[s]) \in Nat
        BY <1>1, <2>2, <3>1, Finiteness, CountUp
      <3>3. /\ Cardinality(LeasedOn(s)') = Cardinality(LeasedOn(s)) - 1
            /\ Cardinality(LeasedOn(s)) \in Nat
        BY <1>1, <2>2, <3>1, Finiteness, CountDown
      <3>4. QED
        BY <3>2, <3>3 DEF ReaderCount
    <2>3. CASE s # t
      <3>1. available'[s] = available[s] /\ LeasedOn(s)' = LeasedOn(s)
        BY <1>1, <2>3 DEF TypeOK, LeasedOn, Usable
      <3>2. QED
        BY <3>1 DEF ReaderCount
    <2>4. QED
      BY <2>2, <2>3
  <1>8. QED
    BY <1>2, <1>3, <1>4, <1>5, <1>6, <1>7 DEF IInv

LEMMA EndLeaseIInv ==
  ASSUME IInv, NEW r \in Requests, EndLease(r)
  PROVE  IInv'
  <1> USE NoneAssumption, WorkersAssumption DEF IInv, loadVars, EndLease, NoLease
  <1> DEFINE t == lease[r].snapshot
  <1>1. t \in Snapshots /\ r \in leases[t]
    BY DEF TypeOK, LeaseInv
  <1>2. TypeOK'
    BY <1>1 DEF TypeOK
  <1>3. MuInv' /\ LeaseInv' /\ ControlInv'
    BY <1>1 DEF TypeOK, MuInv, LeaseInv, ControlInv
  <1>4. WholeInv' /\ LoadInv' /\ OwnerInv'
    BY <1>1 DEF TypeOK, WholeInv, LoadInv, OwnerInv, Usable
  <1>5. SlotCount'
    <2>1. Holders' = Holders
      BY DEF Holders, TypeOK
    <2>2. QED
      BY <2>1 DEF SlotCount
  <1>6. ReaderCount'
    <2>1. \A s \in Snapshots : LeasedOn(s)' = LeasedOn(s)
      BY DEF TypeOK, LeasedOn
    <2>2. Usable' \subseteq Usable
      BY <1>1 DEF TypeOK, Usable
    <2>3. QED
      BY <2>1, <2>2 DEF ReaderCount, Usable
  <1>7. QED
    BY <1>2, <1>3, <1>4, <1>5, <1>6 DEF IInv

LEMMA ReturnSlotIInv ==
  ASSUME IInv, NEW r \in Requests, ReturnSlot(r)
  PROVE  IInv'
  <1> USE NoneAssumption, WorkersAssumption DEF IInv, loadVars, ReturnSlot
  <1>1. TypeOK'
    BY DEF TypeOK
  <1>2. MuInv' /\ LeaseInv' /\ ControlInv' /\ WholeInv' /\ LoadInv' /\ OwnerInv'
    BY DEF TypeOK, MuInv, LeaseInv, ControlInv, WholeInv, LoadInv, OwnerInv, Usable
  <1>3. SlotCount'
    <2>1. Holders' = Holders \ {r} /\ r \in Holders
      BY DEF Holders, TypeOK
    <2>2. Cardinality(Holders') = Cardinality(Holders) - 1 /\ Cardinality(Holders) \in Nat
      BY <2>1, Finiteness, CountDown
    <2>3. QED
      BY <2>2 DEF SlotCount, TypeOK
  <1>4. ReaderCount'
    <2>1. \A s : LeasedOn(s)' = LeasedOn(s)
      BY DEF LeasedOn, TypeOK
    <2>2. QED
      BY <2>1 DEF ReaderCount, Usable
  <1>5. QED
    BY <1>1, <1>2, <1>3, <1>4 DEF IInv

LEMMA BeginReplaceIInv ==
  ASSUME IInv, NEW c \in Controllers, BeginReplace(c)
  PROVE  IInv'
  <1> USE NoneAssumption, WorkersAssumption DEF IInv, loadVars, BeginReplace
  <1>1. TypeOK'
    BY DEF TypeOK, Reader
  <1>2. MuInv' /\ LeaseInv' /\ OwnerInv'
    BY DEF TypeOK, MuInv, LeaseInv, OwnerInv, ControlInv, LoadInv, Unused
  <1>3. ControlInv'
    BY DEF TypeOK, MuInv, LeaseInv, ControlInv, LoadInv, Unused
  <1>4. WholeInv' /\ LoadInv'
    BY DEF TypeOK, ControlInv, WholeInv, LoadInv, Usable, Reader, Unused
  <1>5. SlotCount'
    BY DEF SlotCount, Holders
  <1>6. ReaderCount'
    BY DEF TypeOK, ReaderCount, LeasedOn, Usable, ControlInv, Unused
  <1>7. QED
    BY <1>1, <1>2, <1>3, <1>4, <1>5, <1>6 DEF IInv

LEMMA LoadReaderIInv ==
  ASSUME IInv, NEW c \in Controllers, LoadReader(c)
  PROVE  IInv'
  <1> USE NoneAssumption, WorkersAssumption DEF IInv, loadVars, LoadReader
  <1>1. TypeOK'
    BY DEF TypeOK, Reader
  <1>2. MuInv' /\ LeaseInv' /\ OwnerInv'
    BY DEF TypeOK, MuInv, LeaseInv, OwnerInv, ControlInv, LoadInv
  <1>3. ControlInv'
    BY DEF TypeOK, MuInv, LeaseInv, ControlInv, LoadInv
  <1>4. WholeInv' /\ LoadInv'
    <2>1. next \in Snapshots /\ next \notin Usable
      BY DEF TypeOK, ControlInv, LoadInv, Usable
    <2>2. WholeInv'
      BY <2>1 DEF TypeOK, WholeInv, Usable
    <2>3. 1 .. (count + 1) = (1 .. count) \cup {count + 1} /\ count + 1 \in Reader
      BY DEF TypeOK, Reader
    <2>4. /\ open'[next] = 1 .. count' /\ available'[next] = 1 .. count'
          /\ leases'[next] = {}
      BY <2>1, <2>3 DEF TypeOK, LoadInv
    <2>5. \A i \in 1 .. count' : print'[next][i] = metadata'[next]
      BY <2>1, <2>3 DEF TypeOK, LoadInv
    <2>6. QED
      BY <2>2, <2>4, <2>5 DEF LoadInv
  <1>5. SlotCount'
    BY DEF SlotCount, Holders
  <1>6. ReaderCount'
    <2>1. Usable' = Usable /\ next \notin Usable
      BY DEF TypeOK, ControlInv, LoadInv, Usable
    <2>2. \A s \in Usable : available'[s] = available[s] /\ LeasedOn(s)' = LeasedOn(s)
      BY <2>1 DEF TypeOK, Usable, LeasedOn
    <2>3. QED
      BY <2>1, <2>2 DEF ReaderCount
  <1>7. QED
    BY <1>1, <1>2, <1>3, <1>4, <1>5, <1>6 DEF IInv

LEMMA FailLoadIInv ==
  ASSUME IInv, NEW c \in Controllers, FailLoad(c)
  PROVE  IInv'
  <1> USE NoneAssumption, WorkersAssumption DEF IInv, loadVars, FailLoad
  <1>1. TypeOK'
    BY DEF TypeOK, Reader
  <1>2. MuInv' /\ LeaseInv' /\ OwnerInv'
    BY DEF TypeOK, MuInv, LeaseInv, OwnerInv, ControlInv, LoadInv
  <1>3. ControlInv'
    BY DEF TypeOK, MuInv, LeaseInv, ControlInv, LoadInv
  <1>4. WholeInv' /\ LoadInv'
    BY DEF TypeOK, ControlInv, WholeInv, LoadInv, Usable, Reader
  <1>5. SlotCount'
    BY DEF SlotCount, Holders
  <1>6. ReaderCount'
    BY DEF TypeOK, ReaderCount, LeasedOn, Usable, ControlInv
  <1>7. QED
    BY <1>1, <1>2, <1>3, <1>4, <1>5, <1>6 DEF IInv

LEMMA AbandonIInv ==
  ASSUME IInv, NEW c \in Controllers, Abandon(c)
  PROVE  IInv'
  <1> USE NoneAssumption, WorkersAssumption DEF IInv, loadVars, Abandon
  <1>1. TypeOK'
    BY DEF TypeOK, Reader
  <1>2. MuInv' /\ LeaseInv' /\ OwnerInv'
    BY DEF TypeOK, MuInv, LeaseInv, OwnerInv, ControlInv, LoadInv
  <1>3. ControlInv'
    <2>1. next \in Snapshots /\ next # NONE /\ retiring = NONE /\ replacement # NONE
      BY DEF TypeOK, ControlInv
    <2>2. QED
      BY <2>1 DEF TypeOK, ControlInv
  <1>4. WholeInv' /\ LoadInv'
    BY DEF TypeOK, ControlInv, WholeInv, LoadInv, Usable, Reader
  <1>5. SlotCount'
    BY DEF SlotCount, Holders
  <1>6. ReaderCount'
    BY DEF TypeOK, ReaderCount, LeasedOn, Usable, ControlInv
  <1>7. QED
    BY <1>1, <1>2, <1>3, <1>4, <1>5, <1>6 DEF IInv

LEMMA PublishIInv ==
  ASSUME IInv, NEW c \in Controllers, Publish(c)
  PROVE  IInv'
  <1> USE NoneAssumption, WorkersAssumption DEF IInv, loadVars, Publish
  <1>1. TypeOK'
    BY DEF TypeOK, Reader
  <1>2. MuInv' /\ LeaseInv' /\ OwnerInv'
    BY DEF TypeOK, MuInv, LeaseInv, OwnerInv, ControlInv, LoadInv
  <1>3. ControlInv'
    BY DEF TypeOK, MuInv, LeaseInv, ControlInv, LoadInv
  <1>4. WholeInv' /\ LoadInv'
    BY DEF TypeOK, ControlInv, WholeInv, LoadInv, Usable, Reader
  <1>5. SlotCount'
    BY DEF SlotCount, Holders
  <1>6. ReaderCount'
    <2>1. SUFFICES ASSUME NEW s \in Usable'
                   PROVE  Cardinality(available[s]) + Cardinality(LeasedOn(s)) = Workers
      BY DEF ReaderCount, LeasedOn
    <2>2. CASE s = next
      <3>1. available[s] = 1 .. Workers /\ LeasedOn(s) = {}
        BY <2>2 DEF TypeOK, LoadInv, LeasedOn, LeaseInv
      <3>2. QED
        BY <3>1, FS_Interval, FS_EmptySet
    <2>3. CASE s # next
      BY <2>1, <2>3 DEF ReaderCount, Usable
    <2>4. QED
      BY <2>2, <2>3
  <1>7. QED
    BY <1>1, <1>2, <1>3, <1>4, <1>5, <1>6 DEF IInv

LEMMA BeginCloseIInv ==
  ASSUME IInv, NEW c \in Controllers, BeginClose(c)
  PROVE  IInv'
  <1> USE NoneAssumption, WorkersAssumption DEF IInv, loadVars, BeginClose
  <1>1. TypeOK'
    BY DEF TypeOK, Reader
  <1>2. MuInv' /\ LeaseInv' /\ OwnerInv'
    BY DEF TypeOK, MuInv, LeaseInv, OwnerInv, ControlInv, LoadInv
  <1>3. ControlInv'
    BY DEF TypeOK, MuInv, LeaseInv, ControlInv, LoadInv
  <1>4. WholeInv' /\ LoadInv'
    BY DEF TypeOK, ControlInv, WholeInv, LoadInv, Usable, Reader
  <1>5. SlotCount'
    BY DEF SlotCount, Holders
  <1>6. ReaderCount'
    BY DEF TypeOK, ReaderCount, LeasedOn, Usable, ControlInv
  <1>7. QED
    BY <1>1, <1>2, <1>3, <1>4, <1>5, <1>6 DEF IInv

LEMMA CloseReaderIInv ==
  ASSUME IInv, NEW c \in Controllers, CloseReader(c)
  PROVE  IInv'
  <1> USE NoneAssumption, WorkersAssumption DEF IInv, loadVars, CloseReader
  <1>1. TypeOK'
    BY DEF TypeOK, Reader
  <1>2. MuInv' /\ LeaseInv' /\ OwnerInv'
    BY DEF TypeOK, MuInv, LeaseInv, OwnerInv, ControlInv, LoadInv
  <1>3. ControlInv'
    BY DEF TypeOK, MuInv, LeaseInv, ControlInv, LoadInv
  <1>4. WholeInv' /\ LoadInv'
    BY DEF TypeOK, ControlInv, WholeInv, LoadInv, Usable, Reader
  <1>5. SlotCount'
    BY DEF SlotCount, Holders
  <1>6. ReaderCount'
    BY DEF TypeOK, ReaderCount, LeasedOn, Usable, ControlInv
  <1>7. QED
    BY <1>1, <1>2, <1>3, <1>4, <1>5, <1>6 DEF IInv

LEMMA FinishRetiringIInv ==
  ASSUME IInv, NEW c \in Controllers, FinishRetiring(c)
  PROVE  IInv'
  <1> USE NoneAssumption, WorkersAssumption DEF IInv, loadVars, FinishRetiring
  <1>1. TypeOK'
    BY DEF TypeOK, Reader
  <1>2. MuInv' /\ LeaseInv' /\ OwnerInv'
    BY DEF TypeOK, MuInv, LeaseInv, OwnerInv, ControlInv, LoadInv
  <1>3. ControlInv'
    BY DEF TypeOK, MuInv, LeaseInv, ControlInv, LoadInv
  <1>4. WholeInv' /\ LoadInv'
    BY DEF TypeOK, ControlInv, WholeInv, LoadInv, Usable, Reader
  <1>5. SlotCount'
    BY DEF SlotCount, Holders
  <1>6. ReaderCount'
    BY DEF TypeOK, ReaderCount, LeasedOn, Usable, ControlInv
  <1>7. QED
    BY <1>1, <1>2, <1>3, <1>4, <1>5, <1>6 DEF IInv

LEMMA RecordSelectionErrorIInv ==
  ASSUME IInv, RecordSelectionError
  PROVE  IInv'
  <1> USE NoneAssumption, WorkersAssumption DEF IInv, loadVars, RecordSelectionError
  <1>1. TypeOK'
    BY DEF TypeOK, Reader
  <1>2. MuInv' /\ LeaseInv' /\ OwnerInv'
    BY DEF TypeOK, MuInv, LeaseInv, OwnerInv, ControlInv, LoadInv
  <1>3. ControlInv'
    BY DEF TypeOK, MuInv, LeaseInv, ControlInv, LoadInv
  <1>4. WholeInv' /\ LoadInv'
    BY DEF TypeOK, ControlInv, WholeInv, LoadInv, Usable, Reader
  <1>5. SlotCount'
    BY DEF SlotCount, Holders
  <1>6. ReaderCount'
    BY DEF TypeOK, ReaderCount, LeasedOn, Usable, ControlInv
  <1>7. QED
    BY <1>1, <1>2, <1>3, <1>4, <1>5, <1>6 DEF IInv

\* The invariant holds in every reachable state.
THEOREM InductiveInvariant == Spec => []IInv
  <1>1. Init => IInv
    BY InitIInv
  <1>2. IInv /\ [Next]_vars => IInv'
    <2> SUFFICES ASSUME IInv, [Next]_vars PROVE IInv'
      OBVIOUS
    <2>1. ASSUME NEW r \in Requests, TakeSlot(r) \/ RequestStep(r) PROVE IInv'
      BY <2>1, TakeSlotIInv, TakeReaderIInv, ReturnReaderIInv, EndLeaseIInv,
         ReturnSlotIInv DEF RequestStep
    <2>2. ASSUME NEW c \in Controllers, BeginReplace(c) \/ BeginClose(c) PROVE IInv'
      BY <2>2, BeginReplaceIInv, BeginCloseIInv
    <2>3. ASSUME NEW c \in Controllers, ReplacementStep(c) PROVE IInv'
      BY <2>3, LoadReaderIInv, FailLoadIInv, AbandonIInv, PublishIInv,
         CloseReaderIInv, FinishRetiringIInv DEF ReplacementStep
    <2>4. CASE RecordSelectionError
      BY <2>4, RecordSelectionErrorIInv
    <2>5. CASE UNCHANGED vars
      BY <2>5 DEF vars, IInv, TypeOK, MuInv, LeaseInv, ControlInv, WholeInv, LoadInv,
         OwnerInv, SlotCount, ReaderCount, Usable, Holders, LeasedOn
    <2>6. QED
      BY <2>1, <2>2, <2>3, <2>4, <2>5 DEF Next
  <1>3. QED
    BY <1>1, <1>2, PTL DEF Spec

-----------------------------------------------------------------------------
(* The safety properties.                                                  *)

\* Every variable keeps its type; in particular no reader index leaves the pool
\* and the token channel never holds more than `workers` tokens.
THEOREM TypeCorrect == Spec => []TypeOK
  <1>1. IInv => TypeOK
    BY DEF IInv
  <1>2. QED
    BY <1>1, InductiveInvariant, PTL

\* A reader in use is open and has one owner until Lease.Close, whatever is
\* replaced or closed meanwhile.
THEOREM OwnedReaders == Spec => []LeasedReaderIsOwned
  <1>1. IInv => LeasedReaderIsOwned
    <2> SUFFICES ASSUME IInv, NEW r \in Requests, pc[r] = "leased"
                 PROVE  /\ lease[r].reader \in open[lease[r].snapshot]
                                                 \ available[lease[r].snapshot]
                        /\ \A q \in Requests \ {r} : pc[q] = "leased" => lease[q] # lease[r]
      BY DEF LeasedReaderIsOwned
    <2>1. lease[r].snapshot \in Usable /\ lease[r].reader \in Reader
      BY DEF IInv, TypeOK, LeaseInv, Usable
    <2>2. QED
      BY <2>1 DEF IInv, WholeInv, OwnerInv
  <1>2. QED
    BY <1>1, InductiveInvariant, PTL

\* A token is always backed by a reader of the current snapshot, so a request
\* that obtained one is never refused.
THEOREM BackedTokens == Spec => []TokenBacksReader
  <1>1. QED
    BY IInvImpliesTokenBacksReader, InductiveInvariant, PTL

\* Lease.Close never blocks on a full channel.
THEOREM RoomForSends == Spec => []SendsNeverBlock
  <1>1. IInv => SendsNeverBlock
    <2> SUFFICES ASSUME IInv, NEW r \in Requests
                 PROVE  /\ pc[r] = "leased" => Cardinality(available[lease[r].snapshot]) < Workers
                        /\ pc[r] = "ended" => slots < Workers
      BY DEF SendsNeverBlock
    <2> USE WorkersAssumption DEF IInv
    <2>1. ASSUME pc[r] = "leased"
          PROVE  Cardinality(available[lease[r].snapshot]) < Workers
      <3> DEFINE s == lease[r].snapshot
      <3>1. s \in Snapshots /\ s \in Usable /\ r \in LeasedOn(s)
        BY <2>1 DEF TypeOK, LeaseInv, Usable, LeasedOn
      <3>2. Cardinality(LeasedOn(s)) \in Nat \ {0}
        BY <3>1, Finiteness, CountDown
      <3>3. Cardinality(available[s]) \in Nat
        BY <3>1, Finiteness, FS_CardinalityType
      <3>4. Cardinality(available[s]) + Cardinality(LeasedOn(s)) = Workers
        BY <3>1 DEF ReaderCount
      <3>5. QED
        BY <3>2, <3>3, <3>4
    <2>2. ASSUME pc[r] = "ended"
          PROVE  slots < Workers
      <3>1. r \in Holders
        BY <2>2 DEF Holders
      <3>2. Cardinality(Holders) \in Nat \ {0}
        BY <3>1, Finiteness, CountDown
      <3>3. slots \in Nat /\ slots + Cardinality(Holders) = Workers
        BY DEF SlotCount, TypeOK
      <3>4. QED
        BY <3>2, <3>3
    <2>3. QED
      BY <2>1, <2>2
  <1>2. QED
    BY <1>1, InductiveInvariant, PTL

\* At most two snapshots have files open, for any number of controllers.
THEOREM OverlapIsSerialized == Spec => []AtMostTwoSnapshotsOpen
  <1>1. IInv => AtMostTwoSnapshotsOpen
    <2> SUFFICES ASSUME IInv PROVE AtMostTwoSnapshotsOpen
      OBVIOUS
    <2> DEFINE Opened == {s \in Snapshots : open[s] # {}}
    <2>1. PICK u : Opened \subseteq {snapshot} \cup {u}
      <3>1. CASE next = NONE
        <4>1. Opened \subseteq {snapshot} \cup {retiring}
          BY <3>1, NoneAssumption DEF IInv, ControlInv
        <4>2. QED
          BY <4>1
      <3>2. CASE next # NONE
        <4>1. Opened \subseteq {snapshot} \cup {next}
          BY <3>2, NoneAssumption DEF IInv, ControlInv
        <4>2. QED
          BY <4>1
      <3>3. QED
        BY <3>1, <3>2
    <2>2. IsFiniteSet({snapshot}) /\ Cardinality({snapshot}) = 1
      BY FS_Singleton
    <2>3. /\ IsFiniteSet({snapshot} \cup {u})
          /\ Cardinality({snapshot} \cup {u}) <= 2
      BY <2>2, FS_AddElement
    <2>4. Cardinality(Opened) <= Cardinality({snapshot} \cup {u})
      BY <2>1, <2>3, FS_Subset
    <2>5. Cardinality(Opened) \in Nat /\ Cardinality({snapshot} \cup {u}) \in Nat
      BY <2>1, <2>3, FS_Subset, FS_CardinalityType
    <2>6. QED
      BY <2>3, <2>4, <2>5 DEF AtMostTwoSnapshotsOpen
  <1>2. QED
    BY <1>1, InductiveInvariant, PTL

\* A response names the files its reader has open.
THEOREM HonestResponses == Spec => []ResponseNamesItsData
  <1>1. IInv => ResponseNamesItsData
    BY DEF IInv, TypeOK, LeaseInv, Usable, WholeInv, ResponseNamesItsData
  <1>2. QED
    BY <1>1, InductiveInvariant, PTL

\* Nothing is open when Close has returned.
THEOREM CleanClose == Spec => []CloseReleasesEverything
  <1>1. IInv => CloseReleasesEverything
    BY NoneAssumption DEF IInv, ControlInv, CloseReleasesEverything
  <1>2. QED
    BY <1>1, InductiveInvariant, PTL

-----------------------------------------------------------------------------
(* Refinement.                                                             *)

\* The mapping of RoutingService's state to the abstract one.
Loaded == {s \in Snapshots : open[s] = Reader}
Held == [r \in Requests |-> lease[r].snapshot]

LEMMA InitImplementsInit == Init => Abstract!AInit
  <1> SUFFICES ASSUME Init PROVE Abstract!AInit
    OBVIOUS
  <1>1. Loaded = {snapshot} /\ snapshot \in Snapshots
    BY WorkersAssumption DEF Init, Loaded, Reader
  <1>2. Held = [r \in Requests |-> NONE]
    BY DEF Init, Held, NoLease
  <1>3. QED
    BY <1>1, <1>2 DEF Abstract!AInit, Loaded, Held

\* Every step of the service is a step of leased generations or leaves the
\* mapped state alone: the last reader loaded is Load, the first one closed is
\* Retire, the swap is Publish, leases.Done is EndLease.
LEMMA NextImplementsNext ==
  ASSUME IInv, IInv', [Next]_vars
  PROVE  [Abstract!ANext]_(Abstract!avars)
  <1> USE NoneAssumption, WorkersAssumption
  <1> DEFINE Stutter == snapshot' = snapshot /\ Loaded' = Loaded /\ Held' = Held
  <1>1. Stutter => Abstract!avars' = Abstract!avars
    BY DEF Abstract!avars, Loaded, Held
  <1>2. ASSUME NEW r \in Requests, TakeSlot(r) \/ ReturnReader(r) \/ ReturnSlot(r)
        PROVE  Stutter
    BY <1>2 DEF TakeSlot, ReturnReader, ReturnSlot, Loaded, Held
  <1>3. ASSUME NEW r \in Requests, TakeReader(r)
        PROVE  Abstract!TakeLease(r)
    <2>1. /\ snapshot \in Snapshots /\ lease[r].snapshot = NONE
          /\ snapshot' = snapshot /\ open' = open
      BY <1>3 DEF IInv, TypeOK, MuInv, LeaseInv, ControlInv, TakeReader
    <2>2. PICK i \in available[snapshot] :
            lease' = [lease EXCEPT ![r] = [snapshot |-> snapshot, reader |-> i]]
      BY <1>3, IInvImpliesTokenBacksReader DEF TakeReader, TokenBacksReader
    <2>3. Held' = [Held EXCEPT ![r] = snapshot] /\ Held[r] = NONE
      BY <2>1, <2>2 DEF Held, IInv, TypeOK
    <2>4. QED
      BY <2>1, <2>3 DEF Abstract!TakeLease, Loaded, Held
  <1>4. ASSUME NEW r \in Requests, EndLease(r)
        PROVE  Abstract!EndLease(r)
    <2>1. /\ lease[r].snapshot # NONE /\ lease' = [lease EXCEPT ![r] = NoLease]
          /\ NoLease.snapshot = NONE
      BY <1>4 DEF IInv, LeaseInv, EndLease, NoLease
    <2>2. Held' = [Held EXCEPT ![r] = NONE] /\ Held[r] # NONE
      BY <2>1 DEF Held, IInv, TypeOK
    <2>3. QED
      BY <1>4, <2>2 DEF EndLease, Abstract!EndLease, Loaded, Held
  <1>5. ASSUME NEW c \in Controllers, BeginReplace(c) \/ Abandon(c) \/ FinishRetiring(c)
        PROVE  Stutter
    BY <1>5 DEF BeginReplace, Abandon, FinishRetiring, loadVars, Loaded, Held
  <1>6. ASSUME NEW c \in Controllers, LoadReader(c) \/ FailLoad(c)
        PROVE  Stutter \/ Abstract!Load(next)
    <2>1. /\ next \in Snapshots /\ snapshot' = snapshot /\ lease' = lease
          /\ open[next] = 1 .. count /\ count < Workers /\ count \in Nat
      BY <1>6 DEF LoadReader, FailLoad, IInv, TypeOK, LoadInv
    <2>2. next \notin Loaded
      BY <2>1 DEF Loaded, Reader
    <2>3. \A s \in Snapshots \ {next} : open'[s] = open[s]
      BY <1>6 DEF LoadReader, FailLoad, IInv, TypeOK
    <2>4. Loaded' = Loaded \/ Loaded' = Loaded \cup {next}
      <3>1. CASE open'[next] = Reader
        BY <2>1, <2>3, <3>1 DEF Loaded
      <3>2. CASE open'[next] # Reader
        BY <2>1, <2>2, <2>3, <3>2 DEF Loaded
      <3>3. QED
        BY <3>1, <3>2
    <2>5. QED
      BY <2>1, <2>2, <2>4 DEF Abstract!Load, Loaded, Held
  <1>7. ASSUME NEW c \in Controllers, Publish(c)
        PROVE  Abstract!Publish(next)
    <2>1. next \in Loaded
      BY <1>7 DEF Publish, IInv, TypeOK, LoadInv, Loaded, Reader
    <2>2. snapshot # NONE
      BY <1>7 DEF Publish, IInv, ControlInv
    <2>3. QED
      BY <1>7, <2>1, <2>2 DEF Publish, Abstract!Publish, Loaded, Held
  <1>8. ASSUME NEW c \in Controllers, BeginClose(c)
        PROVE  Abstract!Shutdown
    BY <1>8 DEF BeginClose, IInv, ControlInv, Abstract!Shutdown, Loaded, Held
  <1>9. ASSUME NEW c \in Controllers, CloseReader(c)
        PROVE  Stutter \/ Abstract!Retire(retiring)
    <2>1. /\ retiring \in Snapshots /\ snapshot' = snapshot /\ lease' = lease
          /\ leases[retiring] = {} /\ retiring # snapshot
      BY <1>9 DEF CloseReader, IInv, TypeOK, ControlInv
    <2>2. retiring \notin Loaded'
      BY <1>9 DEF CloseReader, IInv, TypeOK, Loaded
    <2>3. \A s \in Snapshots \ {retiring} : open'[s] = open[s]
      BY <1>9 DEF CloseReader, IInv, TypeOK
    <2>4. Loaded' = Loaded \ {retiring}
      BY <2>2, <2>3 DEF Loaded
    <2>5. \A r \in Requests : Held[r] # retiring
      BY <2>1 DEF Held, IInv, LeaseInv
    <2>6. CASE retiring \in Loaded
      BY <2>1, <2>4, <2>5, <2>6 DEF Abstract!Retire, Loaded, Held
    <2>7. CASE retiring \notin Loaded
      BY <2>1, <2>4, <2>7 DEF Loaded, Held
    <2>8. QED
      BY <2>6, <2>7
  <1>10. ASSUME RecordSelectionError \/ UNCHANGED vars
         PROVE  Stutter
    BY <1>10 DEF RecordSelectionError, vars, Loaded, Held
  <1>11. ASSUME NEW c \in Controllers, ReplacementStep(c)
         PROVE  [Abstract!ANext]_(Abstract!avars)
    <2>1. CASE LoadReader(c) \/ FailLoad(c)
      <3>1. next \in Snapshots
        BY <2>1 DEF LoadReader, FailLoad, IInv, TypeOK
      <3>2. Stutter \/ Abstract!Load(next)
        BY <1>6, <2>1
      <3>3. CASE Stutter
        BY <1>1, <3>3
      <3>4. CASE Abstract!Load(next)
        <4>1. \E g \in Snapshots : Abstract!Load(g)
          BY <3>1, <3>4 DEF Abstract!Load
        <4>2. Abstract!ANext
          BY <4>1 DEF Abstract!ANext
        <4>3. QED
          BY <4>2
      <3>5. QED
        BY <3>2, <3>3, <3>4
    <2>2. CASE Publish(c)
      <3>1. next \in Snapshots
        BY <2>2 DEF Publish, IInv, TypeOK
      <3>2. QED
        BY <1>7, <2>2, <3>1 DEF Abstract!ANext
    <2>3. CASE CloseReader(c)
      <3>1. retiring \in Snapshots
        BY <2>3 DEF CloseReader, IInv, TypeOK
      <3>2. Stutter \/ Abstract!Retire(retiring)
        BY <1>9, <2>3
      <3>3. CASE Stutter
        BY <1>1, <3>3
      <3>4. CASE Abstract!Retire(retiring)
        <4>1. \E g \in Snapshots : Abstract!Retire(g)
          BY <3>1, <3>4 DEF Abstract!Retire
        <4>2. Abstract!ANext
          BY <4>1 DEF Abstract!ANext
        <4>3. QED
          BY <4>2
      <3>5. QED
        BY <3>2, <3>3, <3>4
    <2>4. CASE Abandon(c) \/ FinishRetiring(c)
      BY <1>1, <1>5, <2>4
    <2>5. QED
      BY <1>11, <2>1, <2>2, <2>3, <2>4 DEF ReplacementStep
  <1>12. QED
    BY <1>1, <1>2, <1>3, <1>4, <1>5, <1>8, <1>10, <1>11
    DEF Next, RequestStep, Abstract!ANext

\* routing.Service implements leased immutable generations.
THEOREM Refinement == Spec => ImplementsLeasedGenerations
  <1>1. QED
    BY InitImplementsInit, NextImplementsNext, InductiveInvariant, PTL
    DEF Spec, ImplementsLeasedGenerations, Abstract!ASpec
=============================================================================
