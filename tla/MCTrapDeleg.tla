---------------------------- MODULE MCTrapDeleg ----------------------------
(* Instances of TrapDeleg: two sources, two rounds of each kind.           *)
EXTENDS TrapDeleg
=============================================================================
