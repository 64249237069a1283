-------------------------------- MODULE MCPmp --------------------------------
(* Instances of Pmp: three entries, the last one the default.              *)
EXTENDS Pmp
=============================================================================
