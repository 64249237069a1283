------------------------------- MODULE Barrier -------------------------------
(***************************************************************************)
(* The sense-reversing barrier of am/src/xs/isa/riscv/mpe.c.               *)
(*                                                                         *)
(* Two words are shared, count and sense; each processor has its own       *)
(* threadsense in thread-local storage.  A call of _barrier() flips        *)
(* threadsense and adds one to count with amoadd.  The processor that      *)
(* reads Ncpu-1 is the last: it stores count = 0 and sense = threadsense   *)
(* with plain stores; the others spin on sense.                            *)
(*                                                                         *)
(* No fence separates the two plain stores.  InOrder says whether they     *)
(* reach memory in program order (sequential consistency, TSO, or both     *)
(* words merged in one store-buffer line); with InOrder = FALSE the second *)
(* may overtake the first, which the RISC-V memory model allows.  The      *)
(* closing fence waits for both.                                           *)
(*                                                                         *)
(* arrived, left and gen are history variables: they count the amoadds,    *)
(* the returns and the flips of sense.                                     *)
(***************************************************************************)
EXTENDS Naturals, FiniteSets

CONSTANTS
  CPU,      (* the harts that run the program *)
  Ncpu,     (* what _ncpu() returns *)
  Rounds,   (* how many times each hart calls _barrier() *)
  InOrder   (* do a hart's plain stores reach memory in program order? *)

ASSUME CpuAssumption == IsFiniteSet(CPU) /\ CPU # {}
ASSUME NcpuAssumption == Ncpu = Cardinality(CPU)
ASSUME RoundsAssumption == Rounds \in Nat
ASSUME InOrderAssumption == InOrder \in BOOLEAN

VARIABLES
  count,        (* static volatile intptr_t count *)
  sense,        (* static volatile intptr_t sense *)
  threadsense,  (* static __thread intptr_t threadsense *)
  pending,      (* stores of each hart not yet visible to the others *)
  pc,           (* where each hart is in (or outside) _barrier() *)
  arrived, left, gen

vars == <<count, sense, threadsense, pending, pc, arrived, left, gen>>

Init ==
  /\ count = 0
  /\ sense = 0
  /\ threadsense = [p \in CPU |-> 0]
  /\ pending = [p \in CPU |-> {}]
  /\ pc = [p \in CPU |-> "out"]
  /\ arrived = [p \in CPU |-> 0]
  /\ left = [p \in CPU |-> 0]
  /\ gen = 0

(* Mutant: threadsense is not flipped.                                     *)
EnterKeepsSense(p) ==
  /\ pc[p] = "out"
  /\ arrived[p] < Rounds
  /\ pc' = [pc EXCEPT ![p] = "add"]
  /\ UNCHANGED <<count, sense, threadsense, pending, arrived, left, gen>>

(* The call: opening fence, then threadsense = !threadsense.               *)
Enter(p) ==
  /\ pc[p] = "out"
  /\ arrived[p] < Rounds
  /\ threadsense' = [threadsense EXCEPT ![p] = 1 - @]
  /\ pc' = [pc EXCEPT ![p] = "add"]
  /\ UNCHANGED <<count, sense, pending, arrived, left, gen>>

(* Mutants: the last arriver is recognised one too early, or never.        *)
IsLastEarly(old) == old = Ncpu - 2
IsLastNever(old) == old = Ncpu

(* if (_atomic_add(&count, 1) == _ncpu()-1): the last one goes on to issue *)
(* the stores of count and sense, the others spin.                         *)
IsLast(old) == old = Ncpu - 1

Add(p) ==
  /\ pc[p] = "add"
  /\ count' = count + 1
  /\ arrived' = [arrived EXCEPT ![p] = @ + 1]
  /\ \/ /\ IsLast(count)
        /\ pc' = [pc EXCEPT ![p] = "release"]
        /\ pending' = [pending EXCEPT ![p] = {"count", "sense"}]
     \/ /\ ~ IsLast(count)
        /\ pc' = [pc EXCEPT ![p] = "spin"]
        /\ UNCHANGED pending
  /\ UNCHANGED <<sense, threadsense, left, gen>>

(* Mutant: the last arriver forgets count = 0.                             *)
ResetCountMissing(p) ==
  /\ "count" \in pending[p]
  /\ pending' = [pending EXCEPT ![p] = @ \ {"count"}]
  /\ UNCHANGED <<count, sense, threadsense, pc, arrived, left, gen>>

(* The store count = 0 becomes visible.                                    *)
ResetCount(p) ==
  /\ "count" \in pending[p]
  /\ count' = 0
  /\ pending' = [pending EXCEPT ![p] = @ \ {"count"}]
  /\ UNCHANGED <<sense, threadsense, pc, arrived, left, gen>>

(* Mutant: sense = threadsense is written before count = 0.                *)
PublishSenseFirst(p) ==
  /\ "sense" \in pending[p]
  /\ sense' = threadsense[p]
  /\ gen' = gen + 1
  /\ pending' = [pending EXCEPT ![p] = @ \ {"sense"}]
  /\ UNCHANGED <<count, threadsense, pc, arrived, left>>

(* The store sense = threadsense becomes visible.                          *)
PublishSense(p) ==
  /\ "sense" \in pending[p]
  /\ InOrder => "count" \notin pending[p]
  /\ sense' = threadsense[p]
  /\ gen' = gen + 1
  /\ pending' = [pending EXCEPT ![p] = @ \ {"sense"}]
  /\ UNCHANGED <<count, threadsense, pc, arrived, left>>

(* A spinning hart reads sense = threadsense, or the last arriver's stores *)
(* are done; then the closing fence and the return.                        *)
Released(p) ==
  \/ pc[p] = "spin" /\ sense = threadsense[p]
  \/ pc[p] = "release" /\ pending[p] = {}

Leave(p) ==
  /\ Released(p)
  /\ pc' = [pc EXCEPT ![p] = "out"]
  /\ left' = [left EXCEPT ![p] = @ + 1]
  /\ UNCHANGED <<count, sense, threadsense, pending, arrived, gen>>

(* Every hart has made its Rounds calls: the program goes on elsewhere.    *)
Done ==
  /\ \A p \in CPU : left[p] = Rounds
  /\ UNCHANGED vars

Step(p) ==
  Enter(p) \/ Add(p) \/ ResetCount(p) \/ PublishSense(p) \/ Leave(p)

Next == (\E p \in CPU : Step(p)) \/ Done

(* A hart keeps executing instructions and its stores eventually drain.    *)
Fairness == \A p \in CPU : WF_vars(Step(p))

SafetySpec == Init /\ [][Next]_vars
Spec == SafetySpec /\ Fairness

-----------------------------------------------------------------------------

(* Types.  count is reset once per barrier, so it never runs past Ncpu     *)
(* when stores are in order; when the reset is overtaken, the others can   *)
(* at most all add themselves again before it lands.                       *)
TypeOK ==
  /\ count \in 0 .. (IF InOrder THEN Ncpu ELSE 2 * Ncpu - 1)
  /\ sense \in 0 .. 1
  /\ threadsense \in [CPU -> 0 .. 1]
  /\ pending \in [CPU -> SUBSET {"count", "sense"}]
  /\ pc \in [CPU -> {"out", "add", "spin", "release"}]
  /\ arrived \in [CPU -> 0 .. Rounds]
  /\ left \in [CPU -> 0 .. Rounds]
  /\ gen \in Nat

(* README.md: "wait until all processors arrive here".  Whoever has        *)
(* returned from its r-th barrier, every hart has arrived at its r-th.     *)
NobodyLeavesEarly == \A p, q \in CPU : left[p] <= arrived[q]

(* The barrier is reusable: no amoadd of the next call is counted before   *)
(* the reset of this one and then wiped out by it.  When the store of      *)
(* count = 0 lands, every hart is still inside the call it resets, unless  *)
(* the store of sense behind it has overtaken it.  So in-order stores lose *)
(* no arrival, and out of order only an overtaken reset can.               *)
ResetLosesNoArrival ==
  [][\A p \in CPU :
       ResetCount(p) /\ (InOrder \/ "sense" \in pending[p])
         => \A q \in CPU : arrived[q] = arrived[p]]_vars

(* The barrier implements its contract, liveness included: the counts of   *)
(* arrivals and returns move as AbstractBarrier lets them.                 *)
Contract == INSTANCE AbstractBarrier
ImplementsContract == Contract!Spec

(* Its safety half, which needs no order of the stores: a lost arrival     *)
(* makes harts wait for ever, never return early.                          *)
ImplementsContractSafely == Contract!SafetySpec

(* Nobody is left spinning: every hart returns from all its calls.         *)
EverybodyReturns == <>(\A p \in CPU : left[p] = Rounds)

-----------------------------------------------------------------------------
(* The inductive invariant behind NobodyLeavesEarly, for either order of   *)
(* the stores.  gen barriers are over; a hart is outside after gen of      *)
(* them, inside the next one, or inside the last one and already released. *)
(* count is the number waiting in the next barrier, or more by Ncpu while  *)
(* a reset overtaken by its sense has not landed; once such a reset has    *)
(* wiped arrivals out, count stays behind.                                 *)

Waiting == {p \in CPU : arrived[p] = gen + 1}

HartInv(p) ==
  /\ arrived[p] = (IF pc[p] \in {"spin", "release"} THEN left[p] + 1 ELSE left[p])
  /\ arrived[p] \in {gen, gen + 1}
  /\ pc[p] \in {"out", "add"} => arrived[p] = gen
  /\ threadsense[p] = (IF pc[p] = "out" THEN left[p] ELSE left[p] + 1) % 2
  /\ pc[p] # "release" => pending[p] = {}
  /\ pc[p] = "release" => ("sense" \in pending[p] <=> arrived[p] = gen + 1)
  /\ pc[p] # "out" => left[p] < Rounds

(* What p's undrained stores say of count and of the others.               *)
StoresInv(p) ==
  /\ "sense" \in pending[p] => Waiting = CPU
  /\ pending[p] = {"sense"} => count = 0
  /\ pending[p] = {"count", "sense"} => count = Ncpu
  /\ pending[p] = {"count"} => ~ InOrder /\ count = Ncpu + Cardinality(Waiting)
  /\ \A q \in CPU : pending[p] # {} /\ pending[q] # {} => p = q

SharedInv ==
  /\ sense = gen % 2
  /\ \A p \in CPU : StoresInv(p)
  /\ (\A p \in CPU : pending[p] = {}) =>
       /\ count <= Cardinality(Waiting)
       /\ count < Ncpu
       /\ InOrder => count = Cardinality(Waiting)

IInv == TypeOK /\ SharedInv /\ \A p \in CPU : HartInv(p)
=============================================================================
