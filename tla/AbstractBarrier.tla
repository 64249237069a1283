--------------------------- MODULE AbstractBarrier ---------------------------
(***************************************************************************)
(* What README.md promises of _barrier(): "wait until all processors       *)
(* arrive here".  A processor arrives at its next barrier, and may leave   *)
(* it once every processor has arrived at that same barrier.               *)
(***************************************************************************)
EXTENDS Naturals

CONSTANTS
  CPU,     (* the processors that take part *)
  Rounds   (* how many times each of them calls _barrier() *)

VARIABLES
  arrived, (* arrived[p]: barriers p has arrived at *)
  left     (* left[p]: barriers p has returned from *)

vars == <<arrived, left>>

Init ==
  /\ arrived = [p \in CPU |-> 0]
  /\ left = [p \in CPU |-> 0]

Arrive(p) ==
  /\ left[p] = arrived[p]
  /\ arrived[p] < Rounds
  /\ arrived' = [arrived EXCEPT ![p] = @ + 1]
  /\ UNCHANGED left

Leave(p) ==
  /\ left[p] < arrived[p]
  /\ \A q \in CPU : arrived[p] <= arrived[q]
  /\ left' = [left EXCEPT ![p] = @ + 1]
  /\ UNCHANGED arrived

Next == \E p \in CPU : Arrive(p) \/ Leave(p)

(* Every processor keeps calling the barrier and no one is kept inside.    *)
Fairness == \A p \in CPU : WF_vars(Arrive(p)) /\ WF_vars(Leave(p))

SafetySpec == Init /\ [][Next]_vars
Spec == SafetySpec /\ Fairness
=============================================================================
