------------------------------- MODULE UartRing -------------------------------
(***************************************************************************)
(* The receive ring of the firmware's UART driver (drv/uart.c): the        *)
(* interrupt handler pushes, the program pops.  quene_pop moves head and   *)
(* then decrements recv_count, a load and a store; an interrupt between    *)
(* the two loses its increment.  The handler itself is not interrupted, so *)
(* a push is one step.                                                     *)
(*                                                                         *)
(* No loop of the repository calls get_uart_buffer and nothing registers   *)
(* the handler (the enabling of its interrupt, drv/uart.c:95, is commented *)
(* out): the module is about what the driver does when it is used as it is *)
(* written to be.                                                          *)
(***************************************************************************)
EXTENDS Naturals, Sequences

CONSTANTS
  Size,      (* CONFIG_UART_RX_BUF_SIZE, 256 in the code *)
  Byte,
  Zero       (* what quene_pop returns when it finds the ring empty *)

ASSUME SizeAssumption == Size \in Nat /\ Size > 1
ASSUME ZeroAssumption == Zero \in Byte

VARIABLES
  head, tail, recv_count,
  recv_data,
  reader,    (* where the program is in get_uart_buffer and quene_pop *)
  data,      (* the byte quene_pop returns *)
  loaded     (* recv_count, as the decrement has read it *)

ringVars == <<head, tail, recv_count, recv_data, reader, data, loaded>>

(* quene_init, on a ring that is all zeros.                                *)
RingInit ==
  /\ head = 0 /\ tail = 0 /\ recv_count = 0
  /\ recv_data = [i \in 0 .. Size - 1 |-> Zero]
  /\ reader = "idle" /\ data = Zero /\ loaded = 0

Succ(i) == (i + 1) % Size

-----------------------------------------------------------------------------
(* The interrupt handler.                                                  *)

(* Mutant: the last free slot is filled as well.                           *)
PushIntoLastSlot(b) ==
  /\ recv_data' = [recv_data EXCEPT ![tail] = b]
  /\ tail' = Succ(tail)
  /\ recv_count' = recv_count + 1
  /\ UNCHANGED <<head, reader, data, loaded>>

(* quene_push: one slot stays empty, to tell full from empty.              *)
Push(b) ==
  /\ Succ(tail) # head
  /\ recv_data' = [recv_data EXCEPT ![tail] = b]
  /\ tail' = Succ(tail)
  /\ recv_count' = recv_count + 1
  /\ UNCHANGED <<head, reader, data, loaded>>

-----------------------------------------------------------------------------
(* The program.                                                            *)

(* get_uart_buffer: pop while recv_count says there is something.          *)
Begin ==
  /\ reader = "idle" /\ recv_count > 0
  /\ reader' = "take"
  /\ UNCHANGED <<head, tail, recv_count, recv_data, data, loaded>>

(* Mutant: head moves before the byte is read.                             *)
TakeAfterMove ==
  /\ reader = "take"
  /\ data' = IF head = tail THEN Zero ELSE recv_data[Succ(head)]
  /\ head' = IF head = tail THEN head ELSE Succ(head)
  /\ reader' = IF head = tail THEN "idle" ELSE "load"
  /\ UNCHANGED <<tail, recv_count, recv_data, loaded>>

(* quene_pop up to the new head; an empty ring gives a zero byte.          *)
Take ==
  /\ reader = "take"
  /\ data' = IF head = tail THEN Zero ELSE recv_data[head]
  /\ head' = IF head = tail THEN head ELSE Succ(head)
  /\ reader' = IF head = tail THEN "idle" ELSE "load"
  /\ UNCHANGED <<tail, recv_count, recv_data, loaded>>

(* quene->recv_count--                                                     *)
LoadCount ==
  /\ reader = "load"
  /\ loaded' = recv_count
  /\ reader' = "store"
  /\ UNCHANGED <<head, tail, recv_count, recv_data, data>>

StoreCount ==
  /\ reader = "store"
  /\ recv_count' = loaded - 1
  /\ reader' = "idle"
  /\ UNCHANGED <<head, tail, recv_data, data, loaded>>

Pop == Begin \/ Take \/ LoadCount \/ StoreCount

RingNext == Pop \/ \E b \in Byte : Push(b)

RingSpec == RingInit /\ [][RingNext]_ringVars

-----------------------------------------------------------------------------
(* The bytes between head and tail.                                        *)
Used == IF head <= tail THEN tail - head ELSE tail - head + Size

Slot(k) == IF head + k - 1 < Size THEN head + k - 1 ELSE head + k - 1 - Size

Contents == [k \in 1 .. Used |-> recv_data[Slot(k)]]

(* recv_count plus the decrement that is under way.                        *)
InPop == IF reader \in {"load", "store"} THEN 1 ELSE 0

RingType ==
  /\ head \in 0 .. Size - 1 /\ tail \in 0 .. Size - 1
  /\ recv_count \in Nat /\ loaded \in Nat
  /\ recv_data \in [0 .. Size - 1 -> Byte] /\ data \in Byte
  /\ reader \in {"idle", "take", "load", "store"}

(* recv_count never runs ahead of the ring: an interrupt in the middle of  *)
(* the decrement only makes it too small.  So it never wraps below zero    *)
(* and get_uart_buffer never pops an empty ring, which would hand a zero   *)
(* byte to the program that nobody sent (drv/uart.c:64).                   *)
CountBehind ==
  /\ recv_count <= Used + InPop
  /\ reader = "store" => 0 < loaded /\ loaded <= recv_count
  /\ reader = "take" => recv_count > 0
  /\ reader = "load" => recv_count > 0

RingInv == RingType /\ CountBehind

Fifo == INSTANCE BoundedFifo WITH q <- Contents, got <- data, Capacity <- Size - 1

(* The ring is a first-in first-out buffer of Size - 1 bytes, whatever     *)
(* happens to recv_count.                                                  *)
RingImplementsFifo == Fifo!Spec
=============================================================================
