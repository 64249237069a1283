------------------------------ MODULE MCMpDemo ------------------------------
(* Small instances of MpDemo: few increments instead of 100.               *)
EXTENDS MpDemo
=============================================================================
