---------------------------- MODULE AddressSpaces ----------------------------
(***************************************************************************)
(* What am/am.h promises of the virtual-memory extension: each address     *)
(* space is a protected one, that is, a mapping of its own.  A mapping     *)
(* once made stays as it is.                                               *)
(***************************************************************************)
CONSTANTS Space, Kernel, Va, None, Target

VARIABLES
  live,   (* the address spaces that exist *)
  view    (* view[a][va]: what va is mapped to in a, or None *)

vars == <<live, view>>

Init == live = {} /\ view = [a \in Space |-> [va \in Va |-> None]]

(* The kernel space comes to life with some mappings of its own.           *)
Boot ==
  /\ live = {}
  /\ live' = {Kernel}
  /\ view'[Kernel] \in [Va -> Target \cup {None}]
  /\ view' = [view EXCEPT ![Kernel] = view'[Kernel]]

(* A new space starts as the kernel's mapping.                             *)
Protect(a) ==
  /\ Kernel \in live /\ a \notin live
  /\ live' = live \cup {a}
  /\ view' = [view EXCEPT ![a] = view[Kernel]]

(* The first mapping of an address wins; no other space is touched.        *)
Map(a, va) ==
  /\ a \in live
  /\ view[a][va] = None
  /\ view'[a][va] \in Target
  /\ view' = [view EXCEPT ![a][va] = view'[a][va]]
  /\ UNCHANGED live

Next ==
  \/ Boot
  \/ \E a \in Space : Protect(a)
  \/ \E a \in Space, va \in Va : Map(a, va)

Spec == Init /\ [][Next]_vars
=============================================================================
