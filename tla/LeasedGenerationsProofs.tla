------------------------ MODULE LeasedGenerationsProofs ------------------------
(***************************************************************************)
(* What the abstract protocol is for, for every set of clients and         *)
(* generations: a lease is always backed by open files.                    *)
(***************************************************************************)
EXTENDS LeasedGenerations, TLAPS

AInv == held \in [Clients -> Generations \cup {NONE}] /\ live \in Generations \cup {NONE}
          /\ LeasesAreBacked

\* No step takes the files from under a client: Retire asks everybody, and a
\* lease is only taken on the published generation, which is open.
LEMMA StepKeepsLeases ==
  ASSUME AInv, [ANext]_avars
  PROVE  AInv'
  <1> USE DEF AInv, LeasesAreBacked
  <1>1. ASSUME NEW g \in Generations, Load(g) PROVE AInv'
    BY <1>1 DEF Load
  <1>2. ASSUME NEW g \in Generations, Publish(g) PROVE AInv'
    BY <1>2 DEF Publish
  <1>3. ASSUME NEW g \in Generations, Retire(g) PROVE AInv'
    BY <1>3 DEF Retire
  <1>4. ASSUME NEW c \in Clients, TakeLease(c) PROVE AInv'
    BY <1>4 DEF TakeLease
  <1>5. ASSUME NEW c \in Clients, EndLease(c) PROVE AInv'
    BY <1>5 DEF EndLease
  <1>6. ASSUME Shutdown PROVE AInv'
    BY <1>6 DEF Shutdown
  <1>7. CASE UNCHANGED avars
    BY <1>7 DEF avars
  <1>8. QED
    BY <1>1, <1>2, <1>3, <1>4, <1>5, <1>6, <1>7 DEF ANext

\* The published generation and every leased one are open, which is what the
\* comments of routing.Service and duckdb.LiveHandler promise.
THEOREM LeasesStayBacked == ASpec => []LeasesAreBacked
  <1>1. AInit => AInv
    BY DEF AInit, AInv, LeasesAreBacked
  <1>2. AInv => LeasesAreBacked
    BY DEF AInv
  <1>3. QED
    BY <1>1, <1>2, StepKeepsLeases, PTL DEF ASpec
=============================================================================
