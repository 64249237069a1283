------------------------------ MODULE NativeKeys ------------------------------
(***************************************************************************)
(* The key queue of the native port (am/src/native/devices/input.c).  A    *)
(* thread of its own receives the events of SDL, queues them and sends the *)
(* process a SIGUSR1; the program reads keys by polling (amtest keyboard)  *)
(* or one in each device interrupt (amtest intr), and a signal that comes  *)
(* at a bad moment is dropped.  The queue has no check for being full.     *)
(***************************************************************************)
EXTENDS Naturals

CONSTANTS
  KEY_QUEUE_LEN,   (* 1024 in the code *)
  Presses          (* bound on the keys pressed and released *)

ASSUME KeysAssumption == KEY_QUEUE_LEN \in Nat \ {0} /\ Presses \in Nat

VARIABLES
  polling,   (* the program polls, with interrupts disabled *)
  key_queue, key_f, key_r,
  pressed,   (* events so far; each is one number *)
  kill,      (* the event thread is about to send the signal *)
  sigusr1,   (* the signal is pending: one bit, however many were sent *)
  in_trap,   (* the handler of the program runs, with the signal blocked *)
  got,       (* the last key that was read *)
  disorder   (* history: a key was read that does not fit after the last *)

keyVars == <<polling, key_queue, key_f, key_r, pressed, kill, sigusr1, in_trap, got, disorder>>

KeyInit ==
  /\ polling \in BOOLEAN
  /\ key_queue = [i \in 0 .. KEY_QUEUE_LEN - 1 |-> 0] /\ key_f = 0 /\ key_r = 0
  /\ pressed = 0 /\ kill = FALSE
  /\ sigusr1 = FALSE /\ in_trap = FALSE
  /\ got = 0 /\ disorder = FALSE

-----------------------------------------------------------------------------
(* event_thread, under key_queue_lock ...                                  *)
Enqueue ==
  /\ ~ kill /\ pressed < Presses
  /\ pressed' = pressed + 1
  /\ key_queue' = [key_queue EXCEPT ![key_r] = pressed']
  /\ key_r' = (key_r + 1) % KEY_QUEUE_LEN
  /\ kill' = TRUE
  /\ UNCHANGED <<polling, key_f, sigusr1, in_trap, got, disorder>>

(* ... and the signal, after it.                                           *)
Kill ==
  /\ kill
  /\ kill' = FALSE /\ sigusr1' = TRUE
  /\ UNCHANGED <<polling, key_queue, key_f, key_r, pressed, in_trap, got, disorder>>

(* sig_handler and setup_stack: a signal that interrupts code of a shared  *)
(* library is dropped, another one becomes a trap.                         *)
Deliver ==
  /\ sigusr1 /\ ~ polling /\ ~ in_trap
  /\ sigusr1' = FALSE
  /\ in_trap' \in BOOLEAN
  /\ UNCHANGED <<polling, key_queue, key_f, key_r, pressed, kill, got, disorder>>

(* A key that is lost takes a whole turn of the queue with it.             *)
Fits(key) == key > got /\ (key - got) % KEY_QUEUE_LEN = 1 % KEY_QUEUE_LEN

(* Mutant: the reader does not look whether the queue is empty.            *)
ReadKeyAnyway ==
  /\ polling \/ in_trap
  /\ key_f' = (key_f + 1) % KEY_QUEUE_LEN
  /\ got' = key_queue[key_f]
  /\ disorder' = (disorder \/ ~ Fits(got'))
  /\ in_trap' = FALSE
  /\ UNCHANGED <<polling, key_queue, key_r, pressed, kill, sigusr1>>

(* __am_input_read, under the lock; the trap then returns.                 *)
ReadKey ==
  /\ polling \/ in_trap
  /\ IF key_f # key_r
     THEN /\ key_f' = (key_f + 1) % KEY_QUEUE_LEN
          /\ got' = key_queue[key_f]
          /\ disorder' = (disorder \/ ~ Fits(got'))
     ELSE UNCHANGED <<key_f, got, disorder>>
  /\ in_trap' = FALSE
  /\ UNCHANGED <<polling, key_queue, key_r, pressed, kill, sigusr1>>

KeyNext == Enqueue \/ Kill \/ Deliver \/ ReadKey

-----------------------------------------------------------------------------
(* However far the event thread runs ahead, the program gets keys in the   *)
(* order they were pressed, none twice; what is missing is a number of     *)
(* whole turns of the queue (a key down is never taken for another one of  *)
(* the same turn), and what has not been read is all there, up to such     *)
(* turns (input.c:33).                                                     *)
KeysInOrder ==
  /\ ~ disorder
  /\ (pressed - got) % KEY_QUEUE_LEN = (key_r + KEY_QUEUE_LEN - key_f) % KEY_QUEUE_LEN
=============================================================================
