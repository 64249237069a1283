----------------------------- MODULE MpDemoProofs -----------------------------
(***************************************************************************)
(* The demo of tests/amtest/src/tests/mp.c for every number of increments: *)
(* one hart prints at a time, and the sums that finalize prints are those  *)
(* the README documents, and never below 2.                                *)
(***************************************************************************)
EXTENDS MpDemo, FiniteSetTheorems, TLAPS

Prologue == {"parked", "trm_init", "setncpu", "assert", "init_tls", "wakeup",
             "lock", "print", "unlock"}
Body == {"load", "store", "atomic"}
Epilogue == {"flock", "fprint", "funlock", "end"}
InLock == {"print", "unlock", "fprint", "funlock"}

(* The values of the variables the other parts do not bound.               *)
Values ==
  /\ pc \in [Hart -> Prologue \cup Body \cup {"barrier"} \cup Epilogue]
  /\ halted \in BOOLEAN
  /\ print_lock \in 0 .. 1
  /\ sum \in Nat /\ reg \in [Hart -> Nat]
  /\ fifo \cup shown \subseteq Hart \X {"id", "sums"}

(* print_lock is taken whenever a hart is between the two exchanges.       *)
LockInv ==
  /\ \A p \in Hart : pc[p] \in InLock => print_lock = 1
  /\ \A p, q \in Hart : pc[p] \in InLock /\ pc[q] \in InLock => p = q

(* The stores to sum a hart has made: one ahead of i before the amoadd.    *)
Stores(p) == IF pc[p] = "atomic" THEN i[p] + 1 ELSE i[p]

(* Where a hart is says how far its loop has got.                          *)
LoopInv ==
  /\ i \in [Hart -> 0 .. Iters]
  /\ \A p \in Hart :
       /\ pc[p] \in Prologue => i[p] = 0
       /\ pc[p] \in Body => i[p] < Iters
       /\ pc[p] \in {"barrier"} \cup Epilogue => i[p] = Iters
  /\ atomic_sum = i[0] + i[1]

(* sum is lost updates away from the number of stores, but two harts that  *)
(* have each stored twice have left it at 2 at least: a hart whose loop is *)
(* past the first round loads 1 or more.                                   *)
SumInv ==
  /\ sum <= Stores(0) + Stores(1)
  /\ \A p \in Hart :
       /\ Stores(p) >= 1 => sum >= 1
       /\ pc[p] = "store" =>
            /\ reg[p] <= Stores(0) + Stores(1)
            /\ i[p] >= 1 => reg[p] >= 1
  /\ Stores(0) >= 2 /\ Stores(1) >= 2 => sum >= 2

(* The one barrier of the demo, hart by hart.                              *)
HartBar(p) ==
  /\ pc[p] \notin Epilogue => left[p] = 0
  /\ pc[p] \in Epilogue => left[p] = 1 /\ bpc[p] = "out"
  /\ pc[p] \in Prologue \cup Body => bpc[p] = "out"
  /\ pc[p] \in {"wakeup", "lock", "print", "unlock"} \cup Body => threadsense[p] = 0
  /\ pc[p] = "barrier" => threadsense[p] = IF bpc[p] = "out" THEN 0 ELSE 1
  /\ arrived[p] = IF left[p] = 1 \/ bpc[p] \in {"spin", "release"} THEN 1 ELSE 0
  /\ bpc[p] # "release" => pending[p] = {}

(* count is the number of arrivals up to the last, and only the last       *)
(* arriver publishes sense.                                                *)
BarInv ==
  /\ bpc \in [Hart -> {"out", "add", "spin", "release"}]
  /\ arrived \in [Hart -> 0 .. 1] /\ left \in [Hart -> 0 .. 1]
  /\ threadsense \in [Hart -> 0 .. 1]
  /\ pending \in [Hart -> SUBSET {"count", "sense"}]
  /\ sense \in 0 .. 1 /\ gen = sense
  /\ count \in 0 .. 2
  /\ \A p \in Hart : HartBar(p)
  /\ arrived[0] + arrived[1] < 2 => count = arrived[0] + arrived[1] /\ sense = 0
  /\ \A p \in Hart :
       /\ bpc[p] = "release" \/ left[p] = 1 => arrived[0] + arrived[1] = 2
       /\ "count" \in pending[p] => "sense" \in pending[p]
       /\ "sense" \in pending[p] => sense = 0
       /\ \A q \in Hart : bpc[p] = "release" /\ bpc[q] = "release" => p = q

(* A hart prints the sums when nobody will change them any more.           *)
SeenInv ==
  \A p \in Hart : seen[p] # <<>> =>
    /\ i[0] = Iters /\ i[1] = Iters
    /\ seen[p] = <<sum, atomic_sum>>

MpInv == Values /\ LockInv /\ LoopInv /\ SumInv /\ BarInv /\ SeenInv
-----------------------------------------------------------------------------
(* The values stay in their sets.                                          *)
LEMMA ValuesKept == MpInv /\ (\E p \in Hart : Step(p)) => Values'
<1> SUFFICES ASSUME MpInv, NEW p \in Hart, Step(p) PROVE Values'
  OBVIOUS
<1> USE ItersAssumption DEF MpInv, Hart, Values, Prologue, Body, Epilogue
<1>1. CASE InitUartlite(p)
  BY <1>1 DEF InitUartlite, Goto, shared, uart, loop, bar
<1>2. CASE SetNcpu(p)
  <2>1. halted' \in BOOLEAN
    BY <1>2, Zenon DEF SetNcpu
  <2>2. UNCHANGED <<shared, loop, uart>>
    BY <1>2 DEF SetNcpu
  <2>3. pc'[p] \in {"init_tls", "assert"} /\ pc' = [pc EXCEPT ![p] = pc'[p]]
    BY <1>2 DEF SetNcpu, Goto
  <2> QED
    BY <2>1, <2>2, <2>3 DEF shared, loop, uart
<1>3. CASE InitTls(p)
  BY <1>3 DEF InitTls, Goto, shared, uart, loop, bar
<1>4. CASE Wakeup(p)
  BY <1>4 DEF Wakeup, Goto, shared, uart, loop, bar
<1>5. CASE Acquire(p)
  BY <1>5 DEF Acquire, Goto, shared, uart, loop, bar
<1>6. CASE PrintId(p)
  BY <1>6 DEF PrintId, Goto, shared, uart, loop, bar
<1>7. CASE Release(p)
  BY <1>7 DEF Release, Goto, shared, uart, loop, bar
<1>8. CASE LoadSum(p)
  BY <1>8 DEF LoadSum, Goto, shared, uart, loop, bar
<1>9. CASE StoreSum(p)
  BY <1>9 DEF StoreSum, Goto, shared, uart, loop, bar
<1>10. CASE AddAtomic(p)
  BY <1>10 DEF AddAtomic, Goto, shared, uart, loop, bar
<1>11. CASE InBarrier(p)
  BY <1>11 DEF InBarrier, B!Enter, B!Add, B!ResetCount, B!PublishSense,
     B!Leave, shared, uart, loop
<1>12. CASE PrintSums(p)
  BY <1>12 DEF PrintSums, Goto, shared, uart, loop, bar
<1> QED
  BY <1>1, <1>2, <1>3, <1>4, <1>5, <1>6, <1>7, <1>8, <1>9, <1>10, <1>11,
     <1>12 DEF Step

(* Only the hart that reads 0 from print_lock goes on to print.            *)
LEMMA LockKept == MpInv /\ (\E p \in Hart : Step(p)) => LockInv'
<1> SUFFICES ASSUME MpInv, NEW p \in Hart, Step(p) PROVE LockInv'
  OBVIOUS
<1> USE ItersAssumption DEF MpInv, Hart, Values, LockInv, Prologue, Body,
    Epilogue, InLock
<1>1. CASE InitUartlite(p)
  BY <1>1 DEF InitUartlite, Goto, shared, uart, loop, bar
<1>2. CASE SetNcpu(p)
  BY <1>2 DEF SetNcpu, Goto, shared, uart, loop, bar
<1>3. CASE InitTls(p)
  BY <1>3 DEF InitTls, Goto, shared, uart, loop, bar
<1>4. CASE Wakeup(p)
  BY <1>4 DEF Wakeup, Goto, shared, uart, loop, bar
<1>5. CASE Acquire(p)
  BY <1>5 DEF Acquire, Goto, shared, uart, loop, bar
<1>6. CASE PrintId(p)
  BY <1>6 DEF PrintId, Goto, shared, uart, loop, bar
<1>7. CASE Release(p)
  BY <1>7 DEF Release, Goto, shared, uart, loop, bar
<1>8. CASE LoadSum(p)
  BY <1>8 DEF LoadSum, Goto, shared, uart, loop, bar
<1>9. CASE StoreSum(p)
  BY <1>9 DEF StoreSum, Goto, shared, uart, loop, bar
<1>10. CASE AddAtomic(p)
  BY <1>10 DEF AddAtomic, Goto, shared, uart, loop, bar
<1>11. CASE InBarrier(p)
  BY <1>11 DEF InBarrier, B!Enter, B!Add, B!ResetCount, B!PublishSense,
     B!Leave, shared, uart, loop
<1>12. CASE PrintSums(p)
  BY <1>12 DEF PrintSums, Goto, shared, uart, loop, bar
<1> QED
  BY <1>1, <1>2, <1>3, <1>4, <1>5, <1>6, <1>7, <1>8, <1>9, <1>10, <1>11,
     <1>12 DEF Step

(* The counters go up together.                                            *)
LEMMA LoopKept == MpInv /\ (\E p \in Hart : Step(p)) => LoopInv'
<1> SUFFICES ASSUME MpInv, NEW p \in Hart, Step(p) PROVE LoopInv'
  OBVIOUS
<1> USE ItersAssumption DEF MpInv, Hart, Values, LoopInv, Prologue, Body,
    Epilogue
<1>1. CASE InitUartlite(p)
  BY <1>1 DEF InitUartlite, Goto, shared, uart, loop, bar
<1>2. CASE SetNcpu(p)
  BY <1>2 DEF SetNcpu, Goto, shared, uart, loop, bar
<1>3. CASE InitTls(p)
  BY <1>3 DEF InitTls, Goto, shared, uart, loop, bar
<1>4. CASE Wakeup(p)
  BY <1>4 DEF Wakeup, Goto, shared, uart, loop, bar
<1>5. CASE Acquire(p)
  BY <1>5 DEF Acquire, Goto, shared, uart, loop, bar
<1>6. CASE PrintId(p)
  BY <1>6 DEF PrintId, Goto, shared, uart, loop, bar
<1>7. CASE Release(p)
  BY <1>7 DEF Release, Goto, shared, uart, loop, bar
<1>8. CASE LoadSum(p)
  BY <1>8 DEF LoadSum, Goto, shared, uart, loop, bar
<1>9. CASE StoreSum(p)
  BY <1>9 DEF StoreSum, Goto, shared, uart, loop, bar
<1>10. CASE AddAtomic(p)
  BY <1>10 DEF AddAtomic, Goto, shared, uart, loop, bar
<1>11. CASE InBarrier(p)
  BY <1>11 DEF InBarrier, B!Enter, B!Add, B!ResetCount, B!PublishSense,
     B!Leave, shared, uart, loop
<1>12. CASE PrintSums(p)
  BY <1>12 DEF PrintSums, Goto, shared, uart, loop, bar
<1> QED
  BY <1>1, <1>2, <1>3, <1>4, <1>5, <1>6, <1>7, <1>8, <1>9, <1>10, <1>11,
     <1>12 DEF Step

(* A store brings sum to one above a value loaded before.                  *)
LEMMA SumKept == MpInv /\ (\E p \in Hart : Step(p)) => SumInv'
<1> SUFFICES ASSUME MpInv, NEW p \in Hart, Step(p) PROVE SumInv'
  OBVIOUS
<1> USE ItersAssumption DEF MpInv, Hart, Values, LoopInv, SumInv, Stores,
    Prologue, Body, Epilogue
<1>1. CASE InitUartlite(p)
  BY <1>1 DEF InitUartlite, Goto, shared, uart, loop, bar
<1>2. CASE SetNcpu(p)
  BY <1>2 DEF SetNcpu, Goto, shared, uart, loop, bar
<1>3. CASE InitTls(p)
  BY <1>3 DEF InitTls, Goto, shared, uart, loop, bar
<1>4. CASE Wakeup(p)
  BY <1>4 DEF Wakeup, Goto, shared, uart, loop, bar
<1>5. CASE Acquire(p)
  BY <1>5 DEF Acquire, Goto, shared, uart, loop, bar
<1>6. CASE PrintId(p)
  BY <1>6 DEF PrintId, Goto, shared, uart, loop, bar
<1>7. CASE Release(p)
  BY <1>7 DEF Release, Goto, shared, uart, loop, bar
<1>8. CASE LoadSum(p)
  BY <1>8 DEF LoadSum, Goto, shared, uart, loop, bar
<1>9. CASE StoreSum(p)
  BY <1>9 DEF StoreSum, Goto, shared, uart, loop, bar
<1>10. CASE AddAtomic(p)
  BY <1>10 DEF AddAtomic, Goto, shared, uart, loop, bar
<1>11. CASE InBarrier(p)
  BY <1>11 DEF InBarrier, B!Enter, B!Add, B!ResetCount, B!PublishSense,
     B!Leave, shared, uart, loop
<1>12. CASE PrintSums(p)
  BY <1>12 DEF PrintSums, Goto, shared, uart, loop, bar
<1> QED
  BY <1>1, <1>2, <1>3, <1>4, <1>5, <1>6, <1>7, <1>8, <1>9, <1>10, <1>11,
     <1>12 DEF Step

(* The sums are printed after the loops, and only the loops change them.   *)
LEMMA SeenKept == MpInv /\ (\E p \in Hart : Step(p)) => SeenInv'
<1> SUFFICES ASSUME MpInv, NEW p \in Hart, Step(p) PROVE SeenInv'
  OBVIOUS
<1> USE ItersAssumption DEF MpInv, Hart, Values, LoopInv, BarInv, HartBar,
    SeenInv, Prologue, Body, Epilogue
<1>1. CASE InitUartlite(p)
  BY <1>1 DEF InitUartlite, Goto, shared, uart, loop, bar
<1>2. CASE SetNcpu(p)
  BY <1>2 DEF SetNcpu, Goto, shared, uart, loop, bar
<1>3. CASE InitTls(p)
  BY <1>3 DEF InitTls, Goto, shared, uart, loop, bar
<1>4. CASE Wakeup(p)
  BY <1>4 DEF Wakeup, Goto, shared, uart, loop, bar
<1>5. CASE Acquire(p)
  BY <1>5 DEF Acquire, Goto, shared, uart, loop, bar
<1>6. CASE PrintId(p)
  BY <1>6 DEF PrintId, Goto, shared, uart, loop, bar
<1>7. CASE Release(p)
  BY <1>7 DEF Release, Goto, shared, uart, loop, bar
<1>8. CASE LoadSum(p)
  BY <1>8 DEF LoadSum, Goto, shared, uart, loop, bar
<1>9. CASE StoreSum(p)
  BY <1>9 DEF StoreSum, Goto, shared, uart, loop, bar
<1>10. CASE AddAtomic(p)
  BY <1>10 DEF AddAtomic, Goto, shared, uart, loop, bar
<1>11. CASE InBarrier(p)
  BY <1>11 DEF InBarrier, B!Enter, B!Add, B!ResetCount, B!PublishSense,
     B!Leave, shared, uart, loop
<1>12. CASE PrintSums(p)
  BY <1>12 DEF PrintSums, Goto, shared, uart, loop, bar
<1> QED
  BY <1>1, <1>2, <1>3, <1>4, <1>5, <1>6, <1>7, <1>8, <1>9, <1>10, <1>11,
     <1>12 DEF Step

(* There are two harts.                                                    *)
LEMMA TwoHarts == Cardinality(Hart) = 2
<1>1. Cardinality({0}) = 1 /\ IsFiniteSet({0})
  BY FS_Singleton
<1>2. Cardinality({0} \cup {1}) = 2
  BY <1>1, FS_AddElement
<1> QED
  BY <1>2 DEF Hart

(* The barrier.                                                            *)
LEMMA BarKept == MpInv /\ (\E p \in Hart : Step(p)) => BarInv'
<1> SUFFICES ASSUME MpInv, NEW p \in Hart, Step(p) PROVE BarInv'
  OBVIOUS
<1> USE ItersAssumption DEF MpInv, Hart, Values, BarInv, HartBar, Prologue,
    Body, Epilogue
<1>1. CASE InitUartlite(p)
  BY <1>1 DEF InitUartlite, Goto, shared, uart, loop, bar
<1>2. CASE SetNcpu(p)
  BY <1>2 DEF SetNcpu, Goto, shared, uart, loop, bar
<1>3. CASE InitTls(p)
  BY <1>3 DEF InitTls, Goto, shared, uart, loop, bar
<1>4. CASE Wakeup(p)
  <2>1. UNCHANGED bar
    BY <1>4 DEF Wakeup
  <2>2. ASSUME NEW q \in Hart PROVE HartBar(q)'
    BY <1>4, <2>1 DEF Wakeup, bar
  <2> QED
    BY <2>1, <2>2 DEF bar
<1>5. CASE Acquire(p)
  BY <1>5 DEF Acquire, Goto, shared, uart, loop, bar
<1>6. CASE PrintId(p)
  BY <1>6 DEF PrintId, Goto, shared, uart, loop, bar
<1>7. CASE Release(p)
  BY <1>7 DEF Release, Goto, shared, uart, loop, bar
<1>8. CASE LoadSum(p)
  BY <1>8 DEF LoadSum, Goto, shared, uart, loop, bar
<1>9. CASE StoreSum(p)
  BY <1>9 DEF StoreSum, Goto, shared, uart, loop, bar
<1>10. CASE AddAtomic(p)
  BY <1>10 DEF AddAtomic, Goto, shared, uart, loop, bar
<1>11. CASE InBarrier(p)
  <2>0. PICK o \in Hart : o # p /\ \A q \in Hart : q = p \/ q = o
    OBVIOUS
  <2>f. pc[p] = "barrier" /\ left[p] = 0
    BY <1>11 DEF InBarrier
  <2>1. CASE B!Enter(p) /\ UNCHANGED pc
    BY <2>0, <2>1, <2>f DEF B!Enter
  <2>2. CASE B!Add(p) /\ UNCHANGED pc
    BY <2>0, <2>2, <2>f, TwoHarts DEF B!Add, B!IsLast
  <2>3. CASE B!ResetCount(p) /\ UNCHANGED pc
    BY <2>0, <2>3, <2>f DEF B!ResetCount
  <2>4. CASE B!PublishSense(p) /\ UNCHANGED pc
    BY <2>0, <2>4, <2>f DEF B!PublishSense
  <2>5. CASE B!Leave(p) /\ pc' = [pc EXCEPT ![p] = "flock"]
    BY <2>0, <2>5, <2>f DEF B!Leave, B!Released
  <2> QED
    BY <1>11, <2>1, <2>2, <2>3, <2>4, <2>5 DEF InBarrier
<1>12. CASE PrintSums(p)
  BY <1>12 DEF PrintSums, Goto, shared, uart, loop, bar
<1> QED
  BY <1>1, <1>2, <1>3, <1>4, <1>5, <1>6, <1>7, <1>8, <1>9, <1>10, <1>11,
     <1>12 DEF Step

(* The rest of Next: the UART sends a token, or nothing happens.           *)
LEMMA TransmitKeeps == MpInv /\ Transmit => MpInv'
<1> SUFFICES ASSUME MpInv, Transmit PROVE MpInv'
  OBVIOUS
<1>1. (fifo \cup shown)' \subseteq Hart \X {"id", "sums"}
  <2>1. fifo \cup shown \subseteq Hart \X {"id", "sums"}
    BY DEF MpInv, Values
  <2>2. PICK t \in fifo : fifo' = fifo \ {t} /\ shown' = shown \cup {t}
    BY DEF Transmit
  <2> QED
    BY <2>1, <2>2
<1>2. Values'
  <2>1. UNCHANGED <<pc, halted, shared, loop>>
    BY DEF Transmit
  <2> QED
    BY <1>1, <2>1 DEF MpInv, Values, shared, loop
<1> QED
  BY <1>2 DEF MpInv, Transmit, LockInv, LoopInv, SumInv, Stores, BarInv,
     HartBar,
         SeenInv, shared, loop, bar

LEMMA StutterKeeps == MpInv /\ UNCHANGED vars => MpInv'
  BY DEF MpInv, vars, Values, LockInv, LoopInv, SumInv, Stores, BarInv, HartBar,
         SeenInv, shared, loop, bar, uart

LEMMA InitMpInv == Init => MpInv
<1> SUFFICES ASSUME Init PROVE MpInv
  OBVIOUS
<1> USE ItersAssumption DEF Init, Hart, Boot, Prologue, Body, Epilogue, InLock
<1>1. Values
  <2>1. halted \in BOOLEAN /\ fifo \cup shown \subseteq Hart \X {"id", "sums"}
    OBVIOUS
  <2>2. pc \in [Hart -> Prologue]
    OBVIOUS
  <2> QED
    BY <2>1, <2>2 DEF Values
<1>2. LockInv /\ LoopInv /\ SumInv /\ SeenInv
  BY DEF LockInv, LoopInv, SumInv, Stores, SeenInv
<1>3. BarInv
  BY DEF BarInv, HartBar
<1> QED
  BY <1>1, <1>2, <1>3 DEF MpInv

(* The inductive invariant of the demo, for every number of increments.    *)
THEOREM MpInductive == Spec => []MpInv
<1>1. MpInv /\ [Next]_vars => MpInv'
  <2>1. MpInv /\ (\E p \in Hart : Step(p)) => MpInv'
    BY ValuesKept, LockKept, LoopKept, SumKept, BarKept, SeenKept DEF MpInv
  <2> QED
    BY <2>1, TransmitKeeps, StutterKeeps DEF Next
<1> QED
  BY <1>1, InitMpInv, PTL DEF Spec

(* Every variable has its type; sum and atomic_sum stay below the number   *)
(* of increments of both harts.                                            *)
THEOREM TypeCorrect == Spec => []TypeOK
<1>1. MpInv => TypeOK
  <2> SUFFICES ASSUME MpInv PROVE TypeOK
    OBVIOUS
  <2> USE ItersAssumption DEF MpInv, Hart, Values, LoopInv, Prologue, Body, Epilogue
  <2>1. \A p \in Hart : Stores(p) \in 0 .. Iters
    BY DEF Stores
  <2>2. sum \in 0 .. 2 * Iters /\ atomic_sum \in 0 .. 2 * Iters
    BY <2>1 DEF SumInv
  <2>3. B!TypeOK
    BY TwoHarts DEF B!TypeOK, BarInv
  <2> QED
    BY <2>2, <2>3 DEF TypeOK
<1> QED
  BY <1>1, MpInductive, PTL

(* One hart prints at a time: amoswap gives print_lock to one of them.     *)
THEOREM OneHartPrints == Spec => []PrintExclusive
<1>1. MpInv => PrintExclusive
  BY DEF MpInv, LockInv, InLock, PrintExclusive
<1> QED
  BY <1>1, MpInductive, PTL

(* What is printed: the final sums, exact and with lost updates.           *)
LEMMA Printed ==
  ASSUME MpInv, NEW p \in Hart, seen[p] # <<>>
  PROVE  /\ seen[p] = <<sum, atomic_sum>>
         /\ sum <= 2 * Iters /\ atomic_sum = 2 * Iters
         /\ Iters >= 2 => sum >= 2
<1>1. seen[p] = <<sum, atomic_sum>> /\ i[0] = Iters /\ i[1] = Iters
  BY DEF MpInv, SeenInv
<1>2. pc[0] # "atomic" /\ pc[1] # "atomic"
  BY <1>1 DEF MpInv, LoopInv, Body, Hart
<1>3. Stores(0) = Iters /\ Stores(1) = Iters
  BY <1>1, <1>2 DEF Stores
<1> QED
  BY <1>1, <1>3, ItersAssumption DEF MpInv, LoopInv, SumInv, Values

(* The sums printed are the documented ones: at most, and exactly, as many *)
(* as the two harts have added.                                            *)
THEOREM PrintedSums == Spec => []SumsAsDocumented
<1>1. MpInv => SumsAsDocumented
  BY Printed, TwoHarts DEF SumsAsDocumented
<1> QED
  BY <1>1, MpInductive, PTL

(* However many updates of sum are lost, two are left if each hart adds    *)
(* twice or more.                                                          *)
THEOREM LeastSum == Spec => []SumAtLeastTwo
<1>1. MpInv => SumAtLeastTwo
  BY Printed DEF SumAtLeastTwo
<1> QED
  BY <1>1, MpInductive, PTL

(* Both harts print the same sums, as neither prints before both are done. *)
THEOREM SameSums == Spec => []HartsPrintTheSame
<1>1. MpInv => HartsPrintTheSame
  BY Printed DEF HartsPrintTheSame
<1> QED
  BY <1>1, MpInductive, PTL
=============================================================================
