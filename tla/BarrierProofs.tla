---------------------------- MODULE BarrierProofs ----------------------------
(***************************************************************************)
(* Proofs about Barrier for every finite set of harts and every number of  *)
(* rounds, whether or not plain stores reach memory in order: out of order *)
(* an arrival may be lost, and what is promised of it is liveness.         *)
(***************************************************************************)
EXTENDS Barrier, FiniteSetTheorems, TLAPS

(* Sense alternates: the parity of a generation flips at the next one.     *)
LEMMA Parity ==
  ASSUME NEW n \in Nat
  PROVE  n % 2 \in 0 .. 1 /\ (n + 1) % 2 = 1 - (n % 2)
  OBVIOUS

(* Sets of harts are finite, and the only one with Ncpu members is CPU.    *)
LEMMA WaitingFinite ==
  ASSUME NEW S \in SUBSET CPU
  PROVE  /\ IsFiniteSet(S)
         /\ Cardinality(S) \in 0 .. Ncpu
         /\ Cardinality(S) = Ncpu => S = CPU
  BY CpuAssumption, NcpuAssumption, FS_Subset, FS_CardinalityType

(* There is at least one hart.                                             *)
LEMMA NcpuPositive == Ncpu \in Nat \ {0}
  BY CpuAssumption, NcpuAssumption, FS_CardinalityType, FS_EmptySet

(* No barrier is over, nobody waits, every threadsense is 0.               *)
LEMMA InitInv == Init => IInv
<1> SUFFICES ASSUME Init PROVE IInv
  OBVIOUS
<1>1. Waiting = {}
  BY DEF Init, Waiting
<1>2. SharedInv
  BY <1>1, CpuAssumption, NcpuPositive, FS_EmptySet DEF Init, SharedInv, StoresInv
<1>3. TypeOK
  BY NcpuPositive, RoundsAssumption DEF Init, TypeOK
<1>4. ASSUME NEW p \in CPU PROVE HartInv(p)
  BY DEF Init, HartInv
<1> QED
  BY <1>2, <1>3, <1>4 DEF IInv

(* Enter only flips threadsense, and with it moves pc out of "out".        *)
LEMMA EnterInv ==
  ASSUME IInv, NEW p \in CPU, Enter(p)
  PROVE  IInv'
<1> USE DEF IInv
<1>1. Waiting' = Waiting
  BY DEF Enter, Waiting
<1>2. TypeOK'
  BY DEF Enter, TypeOK
<1>3. SharedInv'
  BY <1>1 DEF Enter, SharedInv, StoresInv
<1>4. ASSUME NEW q \in CPU PROVE HartInv(q)'
  <2>1. HartInv(p) /\ HartInv(q)
    OBVIOUS
  <2>2. left[p] \in Nat
    BY RoundsAssumption DEF TypeOK
  <2> QED
    BY <2>1, <2>2, Parity DEF Enter, HartInv, TypeOK
<1> QED
  BY <1>2, <1>3, <1>4

(* Before p adds itself nobody's sense is on its way, so count is at most  *)
(* the number waiting, or Ncpu more than it while an overtaken reset is on *)
(* its way; a p that finds itself last makes the waiting harts all of CPU. *)
LEMMA AddInv ==
  ASSUME IInv, NEW p \in CPU, Add(p)
  PROVE  IInv'
<1> USE DEF IInv
<1>1. arrived[p] = gen /\ left[p] = gen /\ gen < Rounds /\ gen \in Nat
  BY DEF Add, HartInv, TypeOK
<1>2. p \notin Waiting /\ Waiting \in SUBSET CPU
  BY <1>1 DEF Waiting
<1>3. \A q \in CPU : "sense" \notin pending[q]
  BY <1>2 DEF SharedInv, StoresInv
<1>4. Waiting' = Waiting \cup {p} /\ Waiting' \in SUBSET CPU
  BY <1>1 DEF Add, Waiting, TypeOK
<1>5. /\ count \in Nat /\ Ncpu \in Nat \ {0} /\ Cardinality(Waiting) \in Nat
      /\ Cardinality(Waiting') = Cardinality(Waiting) + 1
      /\ Cardinality(Waiting') \in 0 .. Ncpu
      /\ Cardinality(Waiting') = Ncpu => Waiting' = CPU
  BY <1>2, <1>4, FS_AddElement, WaitingFinite, NcpuPositive DEF TypeOK
<1>6. CASE \A q \in CPU : pending[q] = {}
  <2>1. /\ count <= Cardinality(Waiting) /\ count < Ncpu
        /\ InOrder => count = Cardinality(Waiting)
    BY <1>6 DEF SharedInv
  <2>2. count' = count + 1 /\ count' <= Cardinality(Waiting') /\ count' <= Ncpu
    BY <1>5, <2>1 DEF Add
  <2>3. TypeOK'
    BY <1>1, <1>5, <2>2, RoundsAssumption DEF Add, TypeOK
  <2>4. ASSUME NEW q \in CPU PROVE HartInv(q)'
    BY <1>1, <1>6 DEF Add, HartInv, TypeOK
  <2>5. CASE IsLast(count)
    <3>1. pending' = [pending EXCEPT ![p] = {"count", "sense"}]
      BY <1>5, <2>5 DEF Add
    <3>2. \A q \in CPU : pending'[q] = IF q = p THEN {"count", "sense"} ELSE {}
      BY <3>1, <1>6 DEF TypeOK
    <3>3. count' = Ncpu /\ Waiting' = CPU
      BY <2>1, <2>2, <2>5, <1>5 DEF IsLast
    <3>4. sense' = gen' % 2
      BY DEF Add, SharedInv
    <3>5. ~ \A q \in CPU : pending'[q] = {}
      BY <3>2
    <3>6. ASSUME NEW q \in CPU PROVE StoresInv(q)'
      BY <3>2, <3>3 DEF StoresInv
    <3> QED
      BY <2>3, <2>4, <3>4, <3>5, <3>6 DEF SharedInv
  <2>6. CASE ~ IsLast(count)
    <3>1. pending' = pending /\ sense' = gen' % 2
      BY <2>6 DEF Add, SharedInv
    <3>2. count' < Ncpu
      BY <1>5, <2>1, <2>2, <2>6 DEF IsLast
    <3>3. InOrder => count' = Cardinality(Waiting')
      BY <1>5, <2>1, <2>2
    <3>4. ASSUME NEW q \in CPU PROVE StoresInv(q)'
      BY <1>6, <3>1 DEF StoresInv
    <3> QED
      BY <2>2, <2>3, <2>4, <3>1, <3>2, <3>3, <3>4 DEF SharedInv
  <2> QED
    BY <2>5, <2>6
<1>7. CASE \E q \in CPU : pending[q] # {}
  <2>1. PICK q \in CPU : pending[q] # {}
    BY <1>7
  <2>2. pending[q] = {"count"} /\ \A r \in CPU : r # q => pending[r] = {}
    BY <2>1, <1>3 DEF SharedInv, StoresInv, TypeOK
  <2>3. ~ InOrder /\ count = Ncpu + Cardinality(Waiting)
    BY <2>2 DEF SharedInv, StoresInv
  <2>4. ~ IsLast(count)
    BY <1>5, <2>3 DEF IsLast
  <2>5. pending' = pending /\ count' = Ncpu + Cardinality(Waiting')
    BY <1>5, <2>3, <2>4 DEF Add
  <2>6. q # p /\ arrived[q] = gen /\ arrived'[q] = gen
    BY <1>1, <2>2 DEF Add, HartInv, TypeOK
  <2>7. Cardinality(Waiting') <= Ncpu - 1
    BY <1>1, <1>5, <2>6 DEF Add, Waiting
  <2>8. TypeOK'
    BY <1>1, <1>5, <2>3, <2>4, <2>5, <2>7, RoundsAssumption DEF Add, TypeOK
  <2>9. ASSUME NEW r \in CPU PROVE HartInv(r)'
    BY <1>1, <1>3, <2>4 DEF Add, HartInv, TypeOK
  <2>10. ASSUME NEW r \in CPU PROVE StoresInv(r)'
    BY <2>2, <2>3, <2>5 DEF StoresInv
  <2>11. sense' = gen' % 2
    BY DEF Add, SharedInv
  <2> QED
    BY <2>2, <2>5, <2>8, <2>9, <2>10, <2>11 DEF SharedInv
<1> QED
  BY <1>6, <1>7

(* count = 0 lands while everybody still waits and the store of sense is   *)
(* still to follow, or after it: then nothing is on its way any more.      *)
LEMMA ResetCountInv ==
  ASSUME IInv, NEW p \in CPU, ResetCount(p)
  PROVE  IInv'
<1> USE DEF IInv
<1>1. Waiting' = Waiting /\ Waiting \in SUBSET CPU
  BY DEF ResetCount, Waiting
<1>2. \A q \in CPU : q # p => pending[q] = {}
  BY DEF ResetCount, SharedInv, StoresInv
<1>3. pending' = [pending EXCEPT ![p] = @ \ {"count"}]
  BY DEF ResetCount
<1>4. TypeOK'
  BY <1>3, NcpuPositive DEF ResetCount, TypeOK
<1>5. ASSUME NEW q \in CPU PROVE HartInv(q)'
  BY <1>3 DEF ResetCount, HartInv, TypeOK
<1>6. ASSUME NEW q \in CPU PROVE StoresInv(q)'
  BY <1>1, <1>2, <1>3 DEF ResetCount, SharedInv, StoresInv, TypeOK
<1>7. sense' = gen' % 2
  BY DEF ResetCount, SharedInv
<1>8. ASSUME \A q \in CPU : pending'[q] = {}
      PROVE  count' <= Cardinality(Waiting') /\ count' < Ncpu /\ ~ InOrder
  <2>1. pending[p] = {"count"}
    BY <1>3, <1>8 DEF ResetCount, TypeOK
  <2>2. ~ InOrder
    BY <2>1 DEF SharedInv, StoresInv
  <2> QED
    BY <1>1, <2>2, WaitingFinite, NcpuPositive DEF ResetCount
<1> QED
  BY <1>4, <1>5, <1>6, <1>7, <1>8 DEF SharedInv

(* Publishing the new sense ends the generation everybody is waiting in:   *)
(* nobody waits in the next one yet, and count is 0, or Ncpu if the reset  *)
(* has been overtaken.                                                     *)
LEMMA PublishSenseInv ==
  ASSUME IInv, NEW p \in CPU, PublishSense(p)
  PROVE  IInv'
<1> USE DEF IInv
<1>1. "sense" \in pending[p] /\ Waiting = CPU
  BY DEF PublishSense, SharedInv, StoresInv
<1>2. \A q \in CPU : arrived[q] = gen + 1
  BY <1>1 DEF Waiting
<1>3. gen \in Nat /\ gen' = gen + 1
  BY DEF PublishSense, TypeOK
<1>4. Waiting' = {} /\ Cardinality(Waiting') = 0
  BY <1>2, <1>3, FS_EmptySet DEF PublishSense, Waiting
<1>5. \A q \in CPU : pending'[q] = IF q = p THEN pending[p] \ {"sense"} ELSE {}
  BY <1>1 DEF PublishSense, SharedInv, StoresInv, TypeOK
<1>6. threadsense[p] = (gen + 1) % 2
  BY <1>1, <1>2 DEF HartInv
<1>7. TypeOK'
  BY <1>3 DEF PublishSense, TypeOK
<1>8. \/ pending[p] = {"sense"} /\ count' = 0
      \/ pending[p] = {"count", "sense"} /\ ~ InOrder /\ count' = Ncpu
  BY <1>1 DEF PublishSense, SharedInv, StoresInv, TypeOK
<1>9. SharedInv'
  <2>1. sense' = gen' % 2
    BY <1>3, <1>6 DEF PublishSense
  <2>2. ASSUME NEW q \in CPU PROVE StoresInv(q)'
    BY <1>4, <1>5, <1>8, NcpuPositive DEF StoresInv
  <2>3. (\A q \in CPU : pending'[q] = {}) => count' = 0
    BY <1>5, <1>8
  <2> QED
    BY <1>4, <2>1, <2>2, <2>3, NcpuPositive DEF SharedInv
<1>10. ASSUME NEW q \in CPU PROVE HartInv(q)'
  <2>1. pc[q] \in {"spin", "release"}
    BY <1>2, <1>3 DEF HartInv, TypeOK
  <2> QED
    BY <2>1, <1>2, <1>3, <1>5 DEF PublishSense, HartInv
<1> QED
  BY <1>7, <1>9, <1>10

(* What a hart that is let go has seen: its generation is over.            *)
LEMMA ReleasedIsOver ==
  ASSUME IInv, NEW p \in CPU, Released(p)
  PROVE  arrived[p] = gen /\ left[p] + 1 = gen /\ left[p] < Rounds
<1> USE DEF IInv
<1>0. gen \in Nat /\ left[p] \in Nat /\ arrived[p] \in Nat
  BY RoundsAssumption DEF TypeOK
<1>1. arrived[p] = left[p] + 1 /\ left[p] < Rounds
  BY DEF Released, HartInv
<1>2. CASE pc[p] = "spin" /\ sense = threadsense[p]
  BY <1>0, <1>1, <1>2, Parity DEF HartInv, SharedInv
<1>3. CASE pc[p] = "release" /\ pending[p] = {}
  BY <1>0, <1>1, <1>3 DEF HartInv
<1> QED
  BY <1>2, <1>3 DEF Released

(* A hart that leaves has passed as many barriers as it has arrived at.    *)
LEMMA LeaveInv ==
  ASSUME IInv, NEW p \in CPU, Leave(p)
  PROVE  IInv'
<1> USE DEF IInv
<1>1. arrived[p] = gen /\ left[p] + 1 = gen /\ left[p] < Rounds
  BY ReleasedIsOver DEF Leave
<1>2. Waiting' = Waiting
  BY DEF Leave, Waiting
<1>3. TypeOK'
  BY <1>1, RoundsAssumption DEF Leave, TypeOK
<1>4. SharedInv'
  BY <1>2 DEF Leave, SharedInv, StoresInv
<1>5. ASSUME NEW q \in CPU PROVE HartInv(q)'
  <2>0. gen \in Nat /\ left[p] \in Nat
    BY RoundsAssumption DEF TypeOK
  <2>1. CASE q = p
    BY <2>0, <2>1, <1>1 DEF Leave, Released, HartInv, TypeOK
  <2>2. CASE q # p
    BY <2>2 DEF Leave, HartInv, TypeOK
  <2> QED
    BY <2>1, <2>2
<1> QED
  BY <1>3, <1>4, <1>5

(* A step that changes nothing.                                            *)
LEMMA StutterInv == IInv /\ UNCHANGED vars => IInv'
  BY DEF vars, IInv, TypeOK, SharedInv, StoresInv, HartInv, Waiting

(* IInv is an inductive invariant.                                         *)
THEOREM Inductive ==
  SafetySpec => []IInv
<1>1. IInv /\ [Next]_vars => IInv'
  <2> SUFFICES ASSUME IInv, [Next]_vars PROVE IInv'
    OBVIOUS
  <2>1. ASSUME NEW p \in CPU, Step(p) PROVE IInv'
    BY <2>1, EnterInv, AddInv, ResetCountInv, PublishSenseInv, LeaveInv DEF Step
  <2>2. CASE Done
    BY <2>2, StutterInv DEF Done
  <2>3. CASE UNCHANGED vars
    BY <2>3, StutterInv
  <2> QED
    BY <2>1, <2>2, <2>3 DEF Next
<1> QED
  BY <1>1, InitInv, PTL DEF SafetySpec

(* The types, count's bound included: whatever the number of rounds, count *)
(* never exceeds Ncpu when stores are in order, nor 2 * Ncpu - 1 when not. *)
THEOREM TypeCorrect ==
  SafetySpec => []TypeOK
<1>1. IInv => TypeOK
  BY DEF IInv
<1> QED
  BY <1>1, Inductive, PTL

(* The reset of count wipes out no arrival at the next barrier unless the  *)
(* store of sense overtook it: when it lands, every hart is inside the     *)
(* barrier it resets.                                                      *)
THEOREM ResetSafe ==
  SafetySpec => ResetLosesNoArrival
<1>1. ASSUME IInv, NEW p \in CPU, ResetCount(p), InOrder \/ "sense" \in pending[p],
             NEW q \in CPU
      PROVE  arrived[q] = arrived[p]
  <2>1. "sense" \in pending[p]
    BY <1>1 DEF ResetCount, IInv, SharedInv, StoresInv, TypeOK
  <2>2. p \in Waiting /\ q \in Waiting
    BY <1>1, <2>1 DEF IInv, SharedInv, StoresInv
  <2> QED BY <2>2 DEF Waiting
<1>2. IInv => [\A p \in CPU : ResetCount(p) /\ (InOrder \/ "sense" \in pending[p])
                 => \A q \in CPU : arrived[q] = arrived[p]]_vars
  BY <1>1
<1> QED BY <1>2, Inductive, PTL DEF ResetLosesNoArrival

(* "wait until all processors arrive here": nobody returns from its r-th   *)
(* barrier before everybody has arrived at its r-th.                       *)
THEOREM WaitsForAll ==
  SafetySpec => []NobodyLeavesEarly
<1>1. IInv => NobodyLeavesEarly
  <2> SUFFICES ASSUME IInv, NEW p \in CPU, NEW q \in CPU
               PROVE  left[p] <= arrived[q]
    BY DEF NobodyLeavesEarly
  <2>1. gen \in Nat /\ left[p] \in Nat /\ arrived[p] \in Nat
    BY RoundsAssumption DEF IInv, TypeOK
  <2>2. left[p] <= gen
    <3>1. CASE pc[p] \in {"spin", "release"}
      BY <3>1, <2>1 DEF IInv, HartInv
    <3>2. CASE pc[p] \in {"out", "add"}
      BY <3>2, <2>1 DEF IInv, HartInv
    <3> QED
      BY <3>1, <3>2 DEF IInv, TypeOK
  <2> QED
    BY <2>1, <2>2 DEF IInv, HartInv
<1> QED
  BY <1>1, Inductive, PTL

(* Every step of the barrier is an arrival, a permitted departure or a     *)
(* stutter of AbstractBarrier.                                             *)
THEOREM RefinesContract ==
  SafetySpec => ImplementsContractSafely
<1>1. Init => Contract!Init
  BY DEF Init, Contract!Init
<1>2. IInv /\ [Next]_vars => [Contract!Next]_(Contract!vars)
  <2> SUFFICES ASSUME IInv, [Next]_vars
               PROVE  [Contract!Next]_(Contract!vars)
    OBVIOUS
  <2>1. ASSUME NEW p \in CPU, Enter(p) \/ ResetCount(p) \/ PublishSense(p)
        PROVE  UNCHANGED Contract!vars
    BY <2>1 DEF Enter, ResetCount, PublishSense, Contract!vars
  <2>2. ASSUME NEW p \in CPU, Add(p) PROVE Contract!Arrive(p)
    <3>1. left[p] = arrived[p] /\ arrived[p] < Rounds
      BY <2>2, RoundsAssumption DEF Add, IInv, HartInv, TypeOK
    <3> QED
      BY <2>2, <3>1 DEF Add, Contract!Arrive
  <2>3. ASSUME NEW p \in CPU, Leave(p) PROVE Contract!Leave(p)
    <3>1. arrived[p] = gen /\ left[p] + 1 = gen
      BY <2>3, ReleasedIsOver DEF Leave
    <3>2. gen \in Nat /\ left[p] \in Nat /\ \A q \in CPU : gen <= arrived[q]
      BY RoundsAssumption DEF IInv, HartInv, TypeOK
    <3>3. left[p] < arrived[p] /\ \A q \in CPU : arrived[p] <= arrived[q]
      BY <3>1, <3>2
    <3> QED
      BY <2>3, <3>3 DEF Leave, Contract!Leave
  <2>4. CASE Done \/ UNCHANGED vars
    BY <2>4 DEF Done, vars, Contract!vars
  <2> QED
    BY <2>1, <2>2, <2>3, <2>4 DEF Next, Step, Contract!Next
<1> QED
  BY <1>1, <1>2, Inductive, PTL
     DEF SafetySpec, Contract!SafetySpec, ImplementsContractSafely
=============================================================================
