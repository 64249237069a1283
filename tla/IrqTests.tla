------------------------------- MODULE IrqTests -------------------------------
(***************************************************************************)
(* The timer test and the GPIO test of the firmware (test/test_misc.c).    *)
(* Each arms a source of interrupts, polls a flag that the source's        *)
(* handler sets, and gives up after a number of polls.  The flags are not  *)
(* volatile (hal/hal_timer.h:11, test/test_misc.c:55): a compiler may read *)
(* them once, before the loop.                                             *)
(*                                                                         *)
(* Handlers run with interrupts off and the program does not get to run    *)
(* while an interrupt is pending or served.  The handler of the timer      *)
(* waits, without a time-out, for a register of the timers to read zero.   *)
(***************************************************************************)
EXTENDS Naturals

CONSTANTS
  Polls      (* polls before a test gives up: 10000 and 1000 in the code *)

ASSUME PollsAssumption == Polls \in Nat \ {0}

Test == {"timer", "gpio"}

VARIABLES
  irq_at,    (* how far each test is *)
  armed,     (* the source is enabled, unmasked and not silenced *)
  raised,    (* the source requests an interrupt *)
  flag,      (* TIMER_DELAY_FLAG[TIMER0_SYS] and gpio_test_flag *)
  served,    (* interrupts served, counted up to 2 *)
  polls,     (* tmp_cnt and delay_cnt *)
  irq_ret,   (* what the test has returned, 0 for pass *)
  serving,   (* the timer's handler: "no", it spins ("eol"), or may go on ("clear") *)
  hoisted    (* the compiler has moved the reads of the flags out of the loops *)

irqVars == <<irq_at, armed, raised, flag, served, polls, irq_ret, serving, hoisted>>

IrqInit ==
  /\ irq_at = [t \in Test |-> "start"]
  /\ armed = [t \in Test |-> FALSE]
  /\ raised = [t \in Test |-> FALSE]
  /\ flag = [t \in Test |-> FALSE]
  /\ served = [t \in Test |-> 0]
  /\ polls = 0
  /\ irq_ret = [t \in Test |-> "none"]
  /\ serving = "no"
  /\ hoisted \in BOOLEAN

IrqPending == \E t \in Test : raised[t]

(* A register write takes the source away: its request goes, too.          *)
Disarmed(t) ==
  /\ armed' = [armed EXCEPT ![t] = FALSE]
  /\ raised' = [raised EXCEPT ![t] = FALSE]

-----------------------------------------------------------------------------
(* Register the handler, load the timer, unmask the source.                *)
Arm(t) ==
  /\ ~ IrqPending /\ irq_at[t] = "start"
  /\ armed' = [armed EXCEPT ![t] = TRUE]
  /\ irq_at' = [irq_at EXCEPT ![t] = "poll"]
  /\ polls' = 0
  /\ UNCHANGED <<raised, flag, served, irq_ret, serving, hoisted>>

(* The loop sees the flag.  Only the timer test clears it.                 *)
Seen(t) ==
  /\ ~ IrqPending /\ irq_at[t] = "poll"
  /\ flag[t] /\ ~ hoisted
  /\ flag' = [flag EXCEPT ![t] = (t = "gpio")]
  /\ irq_ret' = [irq_ret EXCEPT ![t] = "pass"]
  /\ irq_at' = [irq_at EXCEPT ![t] = "done"]
  /\ UNCHANGED <<armed, raised, served, polls, serving, hoisted>>

(* The loop does not see it, for the last time when polls is at its limit. *)
Poll(t) ==
  /\ ~ IrqPending /\ irq_at[t] = "poll"
  /\ ~ flag[t] \/ hoisted
  /\ IF polls < Polls
     THEN polls' = polls + 1 /\ UNCHANGED irq_at
     ELSE irq_at' = [irq_at EXCEPT ![t] = "expired"] /\ UNCHANGED polls
  /\ UNCHANGED <<armed, raised, flag, served, irq_ret, serving, hoisted>>

(* Mutant: the timer test gives up and leaves its timer running.           *)
GiveUpArmed(t) ==
  /\ ~ IrqPending /\ irq_at[t] = "expired"
  /\ irq_ret' = [irq_ret EXCEPT ![t] = "fail"]
  /\ irq_at' = [irq_at EXCEPT ![t] = "done"]
  /\ UNCHANGED <<armed, raised, flag, served, polls, serving, hoisted>>

(* The timer test masks and disables its timer, even if the handler has    *)
(* come in since the last poll; the GPIO test leaves the pin to            *)
(* hal_gpio_interrupt_handle, which silences it in the same way.           *)
GiveUp(t) ==
  /\ ~ IrqPending /\ irq_at[t] = "expired"
  /\ IF t = "timer" THEN Disarmed(t) ELSE UNCHANGED <<armed, raised>>
  /\ irq_ret' = [irq_ret EXCEPT ![t] = "fail"]
  /\ irq_at' = [irq_at EXCEPT ![t] = "done"]
  /\ UNCHANGED <<flag, served, polls, serving, hoisted>>

(* The timer expires; the pin, which is level-sensitive, goes and stays    *)
(* high.  External: both may happen at any time, or never.                 *)
Raise(t) ==
  /\ armed[t] /\ ~ raised[t]
  /\ raised' = [raised EXCEPT ![t] = TRUE]
  /\ UNCHANGED <<irq_at, armed, flag, served, polls, irq_ret, serving, hoisted>>

(* Mutant: the handler sets the flag only.                                 *)
HandledStillArmed(t) ==
  /\ flag' = [flag EXCEPT ![t] = TRUE]
  /\ raised' = [raised EXCEPT ![t] = FALSE]
  /\ served' = [served EXCEPT ![t] = IF @ < 2 THEN @ + 1 ELSE 2]
  /\ UNCHANGED <<irq_at, armed, polls, irq_ret, hoisted>>

(* What a handler does to its source: it masks and disables the timer, and *)
(* switches the pin to hardware mode, in which it raises no interrupts.    *)
(* Once the GPIO test is over its handler is the driver's, which sets no   *)
(* flag.                                                                   *)
Handled(t) ==
  /\ flag' = [flag EXCEPT ![t] = (t = "timer" \/ irq_at[t] # "done") \/ @]
  /\ Disarmed(t)
  /\ served' = [served EXCEPT ![t] = IF @ < 2 THEN @ + 1 ELSE 2]
  /\ UNCHANGED <<irq_at, polls, irq_ret, hoisted>>

HandleGpio ==
  /\ serving = "no" /\ raised["gpio"]
  /\ Handled("gpio")
  /\ UNCHANGED serving

(* The handler of the timer reads the status, spins on rd_timers_eol ...   *)
EnterTimer ==
  /\ serving = "no" /\ raised["timer"]
  /\ serving' = "eol"
  /\ UNCHANGED <<irq_at, armed, raised, flag, served, polls, irq_ret, hoisted>>

(* ... which reads as zero at last, or never (external: the timers) ...    *)
EolZero ==
  /\ serving = "eol"
  /\ serving' = "clear"
  /\ UNCHANGED <<irq_at, armed, raised, flag, served, polls, irq_ret, hoisted>>

(* ... and then looks after the timer.                                     *)
LeaveTimer ==
  /\ serving = "clear"
  /\ Handled("timer")
  /\ serving' = "no"

(* hal_isr_irq and the handlers.                                           *)
Serve == HandleGpio \/ EnterTimer \/ LeaveTimer

IrqMain(t) == Arm(t) \/ Seen(t) \/ Poll(t) \/ GiveUp(t)

IrqDevice == Serve \/ EolZero \/ \E t \in Test : Raise(t)

IrqDone(t) == irq_at[t] = "done"

-----------------------------------------------------------------------------
(* A test passes only if its interrupt was served; no source is served     *)
(* twice, so a pin that stays high cannot keep the program from running;   *)
(* and a timer whose test is over is silent, whichever of the handler and  *)
(* the time-out came first.  The flag may be left set, though: see         *)
(* README.md.                                                              *)
ServedOnce ==
  \A t \in Test :
    /\ irq_ret[t] = "pass" => served[t] = 1
    /\ served[t] < 2
    /\ t = "timer" /\ IrqDone(t) => ~ armed[t] /\ ~ raised[t]
=============================================================================
