------------------------------- MODULE MpDemo -------------------------------
(***************************************************************************)
(* Multi-processor bring-up and the demo of tests/amtest/src/tests/mp.c:   *)
(*   _start -> _trm_init -> main -> _mpe_setncpu -> _mpe_init(mp_print)    *)
(*   -> finalize                                                           *)
(* Every hart runs this same path; the second one is parked until a hart   *)
(* calls _mpe_wakeup(1).  The harts share print_lock (taken with amoswap), *)
(* sum (a plain volatile ++), atomic_sum (amoadd), the UART and the        *)
(* barrier of module Barrier, which this module composes.                  *)
(*                                                                         *)
(* A printf is one token in the transmit FIFO of the UART; the assertion   *)
(* of _mpe_setncpu ends the simulation (_halt), so every hart stops.       *)
(***************************************************************************)
EXTENDS Naturals, FiniteSets

CONSTANTS
  Iters,     (* increments per hart: 100 in mp_print *)
  NextByte   (* what atoi may find behind the one-byte argument *)

ASSUME ItersAssumption == Iters \in Nat \ {0}
ASSUME NextByteAssumption == NextByte \in SUBSET {"digit", "other"}

Hart == {0, 1}      (* MAX_CPU is 2; mainargs is "m2" *)
Boot == 0

VARIABLES
  pc,           (* what each hart executes *)
  halted,       (* an assertion has ended the run *)
  print_lock, sum, atomic_sum,
  reg,          (* the register of each hart between load and store of sum *)
  i,            (* loop counter of mp_print *)
  seen,         (* what finalize printed: the sums, or <<>> before that *)
  fifo, shown,  (* UART: tokens in the transmit FIFO, tokens sent out *)
  count, sense, threadsense, pending, bpc, arrived, left, gen

shared == <<print_lock, sum, atomic_sum>>
uart == <<fifo, shown>>
loop == <<reg, i>>
bar == <<count, sense, threadsense, pending, bpc, arrived, left, gen>>
vars == <<pc, halted, shared, loop, seen, uart, bar>>

B == INSTANCE Barrier WITH
       CPU <- Hart, Ncpu <- Cardinality(Hart), Rounds <- 1,
       InOrder <- TRUE, pc <- bpc

(* Thread-local storage holds garbage until init_tls.                      *)
Init ==
  /\ pc = [p \in Hart |-> IF p = Boot THEN "trm_init" ELSE "parked"]
  /\ halted = FALSE
  /\ print_lock = 0 /\ sum = 0 /\ atomic_sum = 0
  /\ reg = [p \in Hart |-> 0]
  /\ i = [p \in Hart |-> 0]
  /\ seen = [p \in Hart |-> <<>>]
  /\ fifo = {} /\ shown = {}
  /\ count = 0 /\ sense = 0 /\ gen = 0
  /\ threadsense \in [Hart -> 0 .. 1]
  /\ pending = [p \in Hart |-> {}]
  /\ bpc = [p \in Hart |-> "out"]
  /\ arrived = [p \in Hart |-> 0]
  /\ left = [p \in Hart |-> 0]

Goto(p, from, to) ==
  /\ pc[p] = from
  /\ pc' = [pc EXCEPT ![p] = to]

(* _trm_init: __am_init_uartlite writes RST_FIFO to the control register.  *)
InitUartlite(p) ==
  /\ Goto(p, "trm_init", "setncpu")
  /\ fifo' = {}
  /\ UNCHANGED <<halted, shared, loop, seen, shown, bar>>

(* _mpe_setncpu(char arg): atoi(&arg) reads on behind the byte of arg; if  *)
(* the stack holds a digit there the number is above MAX_CPU.              *)
SetNcpu(p) ==
  /\ \/ /\ "other" \in NextByte
        /\ Goto(p, "setncpu", "init_tls")
        /\ UNCHANGED halted
     \/ /\ "digit" \in NextByte
        /\ Goto(p, "setncpu", "assert")
        /\ halted' = TRUE
  /\ UNCHANGED <<shared, loop, seen, uart, bar>>

(* Mutant: init_tls leaves .tbss as it was (a build without DUAL_CORE).    *)
InitTlsMissing(p) ==
  /\ Goto(p, "init_tls", "wakeup")
  /\ UNCHANGED <<halted, shared, loop, seen, uart, bar>>

(* init_tls: .tbss, where threadsense lives, is zeroed.                    *)
InitTls(p) ==
  /\ Goto(p, "init_tls", "wakeup")
  /\ threadsense' = [threadsense EXCEPT ![p] = 0]
  /\ UNCHANGED <<halted, shared, loop, seen, uart,
                 count, sense, pending, bpc, arrived, left, gen>>

(* _mpe_wakeup(1): releases hart 1 from reset; no effect on a running one. *)
Wakeup(p) ==
  /\ pc[p] = "wakeup"
  /\ pc' = [q \in Hart |-> IF q = p THEN "lock"
                           ELSE IF pc[q] = "parked" THEN "trm_init" ELSE pc[q]]
  /\ UNCHANGED <<halted, shared, loop, seen, uart, bar>>

(* Mutant: test and set are two instructions apart; the test is ignored.   *)
AcquireAnyway(p) ==
  /\ \/ Goto(p, "lock", "print")
     \/ Goto(p, "flock", "fprint")
  /\ print_lock' = 1
  /\ UNCHANGED <<halted, sum, atomic_sum, loop, seen, uart, bar>>

(* while (_atomic_xchg(&print_lock, 1) == 1): the exchange that reads 0.   *)
Acquire(p) ==
  /\ print_lock = 0
  /\ \/ Goto(p, "lock", "print")
     \/ Goto(p, "flock", "fprint")
  /\ print_lock' = 1
  /\ UNCHANGED <<halted, sum, atomic_sum, loop, seen, uart, bar>>

(* printf("My CPU ID ...")                                                 *)
PrintId(p) ==
  /\ Goto(p, "print", "unlock")
  /\ fifo' = fifo \cup {<<p, "id">>}
  /\ UNCHANGED <<halted, shared, loop, seen, shown, bar>>

(* Mutant: the lock is not given back.                                     *)
ReleaseMissing(p) ==
  /\ Goto(p, "unlock", "load") \/ Goto(p, "funlock", "end")
  /\ UNCHANGED <<halted, shared, loop, seen, uart, bar>>

(* _atomic_xchg(&print_lock, 0)                                            *)
Release(p) ==
  /\ Goto(p, "unlock", "load") \/ Goto(p, "funlock", "end")
  /\ print_lock' = 0
  /\ UNCHANGED <<halted, sum, atomic_sum, loop, seen, uart, bar>>

(* sum++ is a load, an addition and a store.                               *)
LoadSum(p) ==
  /\ Goto(p, "load", "store")
  /\ reg' = [reg EXCEPT ![p] = sum]
  /\ UNCHANGED <<halted, shared, i, seen, uart, bar>>

StoreSum(p) ==
  /\ Goto(p, "store", "atomic")
  /\ sum' = reg[p] + 1
  /\ UNCHANGED <<halted, print_lock, atomic_sum, loop, seen, uart, bar>>

(* Mutant: atomic_sum is incremented from the value sum was loaded with.   *)
AddNotAtomic(p) ==
  /\ pc[p] = "atomic"
  /\ atomic_sum' = reg[p] + 1
  /\ i' = [i EXCEPT ![p] = @ + 1]
  /\ pc' = [pc EXCEPT ![p] = IF i'[p] < Iters THEN "load" ELSE "barrier"]
  /\ UNCHANGED <<halted, print_lock, sum, reg, seen, uart, bar>>

(* Mutant: one increment too many.                                         *)
AddOnceMore(p) ==
  /\ pc[p] = "atomic"
  /\ atomic_sum' = atomic_sum + 1
  /\ i' = [i EXCEPT ![p] = @ + 1]
  /\ pc' = [pc EXCEPT ![p] = IF i'[p] <= Iters THEN "load" ELSE "barrier"]
  /\ UNCHANGED <<halted, print_lock, sum, reg, seen, uart, bar>>

(* _atomic_add(&atomic_sum, 1), the end of the loop body; after the last   *)
(* iteration mp_print returns to _mpe_init and main calls finalize.        *)
AddAtomic(p) ==
  /\ pc[p] = "atomic"
  /\ atomic_sum' = atomic_sum + 1
  /\ i' = [i EXCEPT ![p] = @ + 1]
  /\ pc' = [pc EXCEPT ![p] = IF i'[p] < Iters THEN "load" ELSE "barrier"]
  /\ UNCHANGED <<halted, print_lock, sum, reg, seen, uart, bar>>

(* finalize calls _barrier(): the steps of module Barrier.                 *)
InBarrier(p) ==
  /\ pc[p] = "barrier"
  /\ \/ /\ B!Enter(p) \/ B!Add(p) \/ B!ResetCount(p) \/ B!PublishSense(p)
        /\ UNCHANGED pc
     \/ /\ B!Leave(p)
        /\ pc' = [pc EXCEPT ![p] = "flock"]
  /\ UNCHANGED <<halted, shared, loop, seen, uart>>

(* printf("sum = ...", sum, atomic_sum); printf("Finalize CPU ID ...")     *)
PrintSums(p) ==
  /\ Goto(p, "fprint", "funlock")
  /\ seen' = [seen EXCEPT ![p] = <<sum, atomic_sum>>]
  /\ fifo' = fifo \cup {<<p, "sums">>}
  /\ UNCHANGED <<halted, shared, loop, shown, bar>>

(* The UART sends what its FIFO holds (external hardware).                 *)
Transmit ==
  /\ \E t \in fifo : fifo' = fifo \ {t} /\ shown' = shown \cup {t}
  /\ UNCHANGED <<pc, halted, shared, loop, seen, bar>>

Step(p) ==
  \/ InitUartlite(p) \/ SetNcpu(p) \/ InitTls(p) \/ Wakeup(p)
  \/ Acquire(p) \/ PrintId(p) \/ Release(p)
  \/ LoadSum(p) \/ StoreSum(p) \/ AddAtomic(p)
  \/ InBarrier(p) \/ PrintSums(p)

Finished ==
  \/ halted
  \/ (\A p \in Hart : pc[p] = "end") /\ fifo = {}

Next ==
  \/ ~ halted /\ ((\E p \in Hart : Step(p)) \/ Transmit)
  \/ Finished /\ UNCHANGED vars       (* while(1), or the simulation is over *)

Spec ==
  /\ Init /\ [][Next]_vars
  /\ \A p \in Hart : WF_vars(~ halted /\ Step(p))
  /\ WF_vars(~ halted /\ Transmit)

-----------------------------------------------------------------------------

(* Types.  Neither sum ever exceeds the number of increments.              *)
TypeOK ==
  /\ halted \in BOOLEAN
  /\ print_lock \in 0 .. 1
  /\ sum \in 0 .. 2 * Iters
  /\ atomic_sum \in 0 .. 2 * Iters
  /\ i \in [Hart -> 0 .. Iters]
  /\ fifo \cup shown \subseteq Hart \X {"id", "sums"}
  /\ B!TypeOK

(* The lock print_lock protects the console: one hart at a time prints.    *)
PrintExclusive ==
  \A p, q \in Hart :
    pc[p] \in {"print", "fprint"} /\ pc[q] \in {"print", "fprint"} => p = q

(* README.md: "we have sum <= 200 && atomic_sum == 200", whatever hart     *)
(* prints first: finalize only reads the sums after every hart has added.  *)
SumsAsDocumented ==
  \A p \in Hart : seen[p] # <<>> =>
    /\ seen[p][1] <= Cardinality(Hart) * Iters
    /\ seen[p][2] = Cardinality(Hart) * Iters

(* Lost updates have a limit: with two or more increments per hart the     *)
(* final sum is at least 2, the least two interleaved harts can leave.     *)
SumAtLeastTwo ==
  Iters >= 2 => \A p \in Hart : seen[p] # <<>> => seen[p][1] >= 2

(* The sums are final when they are printed: both harts print the same.    *)
HartsPrintTheSame ==
  \A p, q \in Hart : seen[p] # <<>> /\ seen[q] # <<>> => seen[p] = seen[q]

(* Unless the assertion ends the run, both harts get through finalize.     *)
BothFinish == <>(halted \/ \A p \in Hart : pc[p] = "end")

(* The output README.md shows: every hart's two messages come out.         *)
NothingLost ==
  Finished /\ ~ halted => shown = Hart \X {"id", "sums"}
=============================================================================
