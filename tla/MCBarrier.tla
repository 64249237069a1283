----------------------------- MODULE MCBarrier -----------------------------
(* Small instances of Barrier: the harts are model values.                 *)
EXTENDS Barrier
=============================================================================
