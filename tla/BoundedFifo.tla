------------------------------ MODULE BoundedFifo ------------------------------
(***************************************************************************)
(* What the ring buffers of the firmware's UART driver promise: bytes come *)
(* out in the order they went in, each once, and a byte that finds no room *)
(* is dropped.                                                             *)
(***************************************************************************)
EXTENDS Naturals, Sequences

CONSTANTS
  Byte,
  Zero,      (* the zero byte, which the reader's variable starts with *)
  Capacity   (* bytes that fit *)

VARIABLES
  q,         (* the bytes put and not yet taken *)
  got        (* the byte taken last *)

vars == <<q, got>>

Init ==
  /\ q = <<>>
  /\ got = Zero

Put(b) ==
  /\ q' = IF Len(q) < Capacity THEN Append(q, b) ELSE q
  /\ UNCHANGED got

Get ==
  /\ q # <<>>
  /\ got' = Head(q)
  /\ q' = Tail(q)

Next == Get \/ \E b \in Byte : Put(b)

Spec == Init /\ [][Next]_vars
=============================================================================
