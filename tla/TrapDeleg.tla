------------------------------ MODULE TrapDeleg ------------------------------
(***************************************************************************)
(* Interrupt redirection from machine to supervisor mode, and the driver   *)
(* of tests/amtest/src/tests/extintr.c that runs on top of it.             *)
(*                                                                         *)
(* The kernel runs in S-mode.  A timer interrupt or an external interrupt  *)
(* of the M context traps to __am_timervec (mtime.S), which passes it on   *)
(* by setting SSIP or SEIP; an external interrupt of the S context raises  *)
(* SEIP by itself.  S-mode cannot clear SEIP nor set mie.MEIE, so its      *)
(* handlers end with "csrs mie, 0", an illegal instruction on purpose: the *)
(* trap to __am_timervec re-enables MEIE and clears SEIP.                  *)
(*                                                                         *)
(* __am_timervec runs with interrupts off, so it is one step; a handler in *)
(* S-mode is several steps with sstatus.SIE clear, between which the       *)
(* machine-mode interrupts still come in.  An interrupt that is pending    *)
(* and enabled is taken before the next instruction.  The PLIC and the     *)
(* interrupt generator are hardware, modelled from how plic.c drives them. *)
(***************************************************************************)
EXTENDS Naturals, Sequences

CONSTANTS
  Source,     (* external interrupt sources *)
  MAX_RAND_ITER,   (* rounds of external_trigger, 1000 in the code *)
  Claims,     (* claims that end random_trigger, 200 in the code *)
  Burst,      (* random interrupts raised between two steps of the program *)
  None        (* should_claim = -1 *)

ASSUME IterAssumption == MAX_RAND_ITER \in Nat \ {0} /\ Claims \in Nat \ {0}
ASSUME BurstAssumption == Burst \in Nat \ {0}
ASSUME NoneAssumption == None \notin Source

(* The calls of external_intr: external_trigger four times, then           *)
(* random_trigger, which uses the S context.                               *)
Stages == <<[context |-> "S", wfi |-> FALSE], [context |-> "S", wfi |-> TRUE],
            [context |-> "M", wfi |-> FALSE], [context |-> "M", wfi |-> TRUE],
            [context |-> "S", wfi |-> FALSE]>>

VARIABLES
  line,      (* interrupt generator: sources whose signal is high *)
  pend,      (* PLIC: sources latched as pending *)
  busy,      (* PLIC: sources claimed and not completed *)
  enable,    (* PLIC: enabled sources of each context *)
  meie,      (* mie.MEIE *)
  mtip,      (* mip.MTIP: mtime has reached mtimecmp *)
  ssip,      (* mip.SSIP, the redirected timer interrupt *)
  seip,      (* the software-writable part of mip.SEIP *)
  sie,       (* sstatus.SIE *)
  pc, sepc,  (* what S-mode executes, and where its handler returns to *)
  claim,     (* the source do_ext_intr has claimed *)
  should_claim, origin_claim,   (* the source of this round *)
  claim_count_all,   (* claims in random_trigger, counted up to Claims *)
  stage, i,  (* the call of external_intr, and the round in it *)
  slack,     (* the program has run since the last timer tick *)
  raised     (* random interrupts since the program has run *)

plic == <<line, pend, busy, enable>>
csr == <<meie, mtip, ssip, seip, sie>>
driver == <<claim, should_claim, origin_claim, claim_count_all>>
loop == <<stage, i>>
pace == <<slack, raised>>
vars == <<plic, csr, pc, sepc, driver, loop, pace>>

random_claim == stage = Len(Stages)
current_context == Stages[stage].context

(* external_intr after plic_intr_init.                                     *)
Init ==
  /\ line = {} /\ pend = {} /\ busy = {}
  /\ enable = [c \in {"M", "S"} |-> {}]
  /\ meie = TRUE /\ mtip = FALSE /\ ssip = FALSE /\ seip = FALSE /\ sie = TRUE
  /\ pc = "enable" /\ sepc = "enable"
  /\ claim = None /\ should_claim = None /\ origin_claim = None
  /\ claim_count_all = 0
  /\ stage = 1 /\ i = 0
  /\ slack = TRUE /\ raised = 0

Claimable(c) == pend \cap enable[c]

MExtPending == meie /\ Claimable("M") # {}
SExtPending == seip \/ Claimable("S") # {}

(* Is an interrupt about to be taken instead of the next instruction?      *)
Interrupted ==
  \/ mtip \/ MExtPending
  \/ sie /\ (ssip \/ SExtPending)

(* An S-mode instruction at "from", going on to "to".                      *)
Instr(from, to) ==
  /\ ~ Interrupted
  /\ pc = from
  /\ pc' = to

(* Where execution resumes: an interrupt that wakes a wfi ends it.         *)
Resume == IF pc = "asleep" THEN "check" ELSE pc

(* The gateway of the PLIC latches a high signal unless the source is      *)
(* pending or in service already (external hardware).                      *)
Latched(l, p, b) == p \cup (l \ b)

-----------------------------------------------------------------------------
(* Machine mode: __am_timervec.                                            *)

(* The interval between two ticks outlasts a handler: the program gets to  *)
(* run in between.                                                         *)
TimerFires ==
  /\ ~ mtip /\ slack
  /\ mtip' = TRUE
  /\ slack' = FALSE
  /\ UNCHANGED <<plic, meie, ssip, seip, sie, pc, sepc, driver, loop, raised>>

(* is_timer: mtimecmp += interval, then raise SSIP.                        *)
MTimer ==
  /\ mtip /\ ~ MExtPending
  /\ mtip' = FALSE
  /\ ssip' = TRUE
  /\ pc' = Resume
  /\ UNCHANGED <<plic, meie, seip, sie, sepc, driver, loop, pace>>

(* Mutant: MEIE is left on.                                                *)
MExtStaysEnabled ==
  /\ MExtPending
  /\ seip' = TRUE
  /\ pc' = Resume
  /\ UNCHANGED <<plic, meie, mtip, ssip, sie, sepc, driver, loop, pace>>

(* is_ext: mask the M context's interrupt, raise SEIP.                     *)
MExt ==
  /\ MExtPending
  /\ meie' = FALSE
  /\ seip' = TRUE
  /\ pc' = Resume
  /\ UNCHANGED <<plic, mtip, ssip, sie, sepc, driver, loop, pace>>

(* Mutant: SEIP stays up.                                                  *)
IllegalKeepsSeip(from, to) ==
  /\ Instr(from, to)
  /\ meie' = TRUE
  /\ UNCHANGED <<plic, mtip, ssip, seip, sie, sepc, driver, loop, pace>>

(* "csrs mie, 0" in S-mode and is_illegal: enable MEIE, clear SEIP and     *)
(* STIP, skip the instruction.                                             *)
Illegal(from, to) ==
  /\ Instr(from, to)
  /\ meie' = TRUE
  /\ seip' = FALSE
  /\ UNCHANGED <<plic, mtip, ssip, sie, sepc, driver, loop, pace>>

-----------------------------------------------------------------------------
(* Supervisor mode: __am_asm_trap, __am_irq_handle and the handlers.       *)

(* Mutant: interrupts stay on in the handler.                              *)
TakeTrapNested(handler) ==
  /\ ~ mtip /\ ~ MExtPending /\ sie
  /\ pc' = handler
  /\ sepc' = Resume
  /\ UNCHANGED <<plic, meie, mtip, ssip, seip, sie, driver, loop, pace>>

(* Trap entry: the external interrupt has priority over the software one.  *)
TakeTrap(handler) ==
  /\ ~ mtip /\ ~ MExtPending /\ sie
  /\ pc' = handler
  /\ sepc' = Resume
  /\ sie' = FALSE
  /\ UNCHANGED <<plic, meie, mtip, ssip, seip, driver, loop, pace>>

TakeExternal == SExtPending /\ TakeTrap("seip_clear")
TakeTimer == ssip /\ ~ SExtPending /\ TakeTrap("stip_clear")

(* Both handlers start with "csrwi sip, 0": of sip, S-mode can write SSIP. *)
ClearSip ==
  /\ \/ Instr("seip_clear", "claim")
     \/ Instr("stip_clear", "stip_mie")
  /\ ssip' = FALSE
  /\ UNCHANGED <<plic, meie, mtip, seip, sie, sepc, driver, loop, pace>>

StipMie == Illegal("stip_mie", "sret")

(* What the claim register reads: a pending source, or 0 if there is none. *)
HandedOut ==
  IF Claimable(current_context) = {} THEN {None} ELSE Claimable(current_context)

Take(s) ==
  /\ pend' = pend \ {s}
  /\ busy' = busy \cup ({s} \ {None})

(* do_ext_intr, plic_get_claim: no source, or not the expected one, ends   *)
(* the test.                                                               *)
Claim ==
  /\ \E s \in HandedOut :
       /\ Instr("claim", IF s # None /\ (random_claim \/ s = should_claim)
                          THEN "clear_intr" ELSE "halt")
       /\ Take(s)
       /\ claim' = s
  /\ claim_count_all' = IF random_claim /\ claim_count_all < Claims
                        THEN claim_count_all + 1 ELSE claim_count_all
  /\ UNCHANGED <<line, enable, csr, sepc, should_claim, origin_claim, loop, pace>>

(* plic_clear_intr writes the whole word.  READ_INTR_REG adds the base     *)
(* address to an address, so the word it combines is not the generator's:  *)
(* it is read as zero and every signal of the word goes low.               *)
ClearIntr ==
  /\ Instr("clear_intr", "complete")
  /\ line' = {}
  /\ UNCHANGED <<pend, busy, enable, csr, sepc, driver, loop, pace>>

(* Mutant: the claim is not written back.                                  *)
CompleteMissing ==
  /\ Instr("complete", IF random_claim THEN "reset" ELSE "recheck")
  /\ UNCHANGED <<plic, csr, sepc, driver, loop, pace>>

(* plic_clear_claim: the source may become pending again.                  *)
Complete ==
  /\ Instr("complete", IF random_claim THEN "reset" ELSE "recheck")
  /\ busy' = busy \ {claim}
  /\ pend' = Latched(line, pend, busy')
  /\ UNCHANGED <<line, enable, csr, sepc, driver, loop, pace>>

(* external_trigger's handler claims once more and expects nothing.        *)
Recheck ==
  /\ Instr("recheck", IF HandedOut = {None} THEN "reset" ELSE "halt")
  /\ \E s \in HandedOut : Take(s)
  /\ UNCHANGED <<line, enable, csr, sepc, driver, loop, pace>>

ResetShouldClaim ==
  /\ Instr("reset", "seip_mie")
  /\ should_claim' = None
  /\ UNCHANGED <<plic, csr, sepc, claim, origin_claim, claim_count_all, loop, pace>>

SeipMie == Illegal("seip_mie", "sret")

(* __am_asm_trap: restore the context and sret.                            *)
Sret ==
  /\ Instr("sret", sepc)
  /\ sie' = TRUE
  /\ UNCHANGED <<plic, meie, mtip, ssip, seip, sepc, driver, loop, pace>>

-----------------------------------------------------------------------------
(* The interrupted program.                                                *)

(* random_trigger: the generator raises signals on its own, so slowly that *)
(* the program gets to run.                                                *)
RandomRaise ==
  /\ random_claim /\ raised < Burst
  /\ \E s \in Source \ line :
       /\ line' = line \cup {s}
       /\ pend' = Latched(line', pend, busy)
  /\ raised' = raised + 1
  /\ UNCHANGED <<busy, enable, csr, pc, sepc, driver, loop, slack>>

(* An instruction of the program.                                          *)
ProgramInstr(from, to) ==
  /\ Instr(from, to)
  /\ slack' = TRUE /\ raised' = 0
  /\ UNCHANGED <<csr, sepc>>

(* external_trigger: choose a source, plic_enable it.                      *)
Enable ==
  /\ ProgramInstr("enable", "set")
  /\ \E s \in Source :
       /\ should_claim' = s /\ origin_claim' = s
       /\ enable' = [enable EXCEPT ![current_context] = @ \cup {s}]
  /\ UNCHANGED <<line, pend, busy, claim, claim_count_all, loop>>

(* plic_set_intr writes the whole word, like plic_clear_intr.              *)
SetIntr ==
  /\ ProgramInstr("set", IF Stages[stage].wfi THEN "wfi" ELSE "wait")
  /\ line' = {should_claim}
  /\ pend' = Latched(line', pend, busy)
  /\ UNCHANGED <<busy, enable, driver, loop>>

(* do_wfi: no interrupt is pending, the hart sleeps until one is.          *)
Sleep == ProgramInstr("wfi", "asleep") /\ UNCHANGED <<plic, driver, loop>>

(* while (should_claim != -1 && counter < 100): a poll ends the loop, or,  *)
(* if the source is not served yet, may be followed by another one.  The   *)
(* number of polls is left out: the loop may give up after any of them.    *)
Wait ==
  /\ \E next \in {"check"} \cup (IF should_claim # None THEN {"wait"} ELSE {}) :
       ProgramInstr("wait", next)
  /\ UNCHANGED <<plic, driver, loop>>

(* "external interrupt %d is not triggered!" if it was not served.         *)
Check ==
  /\ ProgramInstr("check", IF should_claim = None THEN "disable" ELSE "halt")
  /\ UNCHANGED <<plic, driver, loop>>

(* Mutant: plic_disable writes the word back unchanged.                    *)
ToggleNothing(sources, s) == sources

(* plic_disable toggles the enable bit of the source.                      *)
Toggle(sources, s) == IF s \in sources THEN sources \ {s} ELSE sources \cup {s}

(* The end of a round: another one, or the next call of external_intr.     *)
Disable ==
  /\ enable' = [enable EXCEPT ![current_context] = Toggle(@, origin_claim)]
  /\ \/ /\ i + 1 < MAX_RAND_ITER
        /\ i' = i + 1
        /\ ProgramInstr("disable", "enable")
        /\ UNCHANGED stage
     \/ /\ i + 1 = MAX_RAND_ITER
        /\ i' = 0
        /\ IF stage + 1 = Len(Stages)
           THEN ProgramInstr("disable", "random") /\ UNCHANGED stage
           ELSE ProgramInstr("disable", "enable") /\ stage' = stage + 1
  /\ UNCHANGED <<line, pend, busy, driver>>

(* plic_intr_init; random_trigger turns the generator on and enables every *)
(* source of the S context.                                                *)
StartRandom ==
  /\ ProgramInstr("random", "main")
  /\ stage' = Len(Stages)
  /\ enable' = [c \in {"M", "S"} |-> IF c = "S" THEN Source ELSE {}]
  /\ UNCHANGED <<line, pend, busy, driver, i>>

(* hello_intr_n(30), then while (claim_count_all < 200); and the return.   *)
MainLoop ==
  /\ ProgramInstr("main", IF claim_count_all < Claims THEN "main" ELSE "done")
  /\ UNCHANGED <<plic, driver, loop>>

Machine == MTimer \/ MExt
Handler ==
  \/ TakeExternal \/ TakeTimer \/ ClearSip \/ StipMie \/ Claim \/ ClearIntr
  \/ Complete \/ Recheck \/ ResetShouldClaim \/ SeipMie \/ Sret
Program ==
  \/ Enable \/ SetIntr \/ Sleep \/ Wait \/ Check \/ Disable
  \/ StartRandom \/ MainLoop
Ended == pc \in {"halt", "done"}

Next ==
  \/ ~ Ended /\ (TimerFires \/ RandomRaise \/ Machine \/ Handler \/ Program)
  \/ Ended /\ UNCHANGED vars        (* _halt *)

(* Time passes, the generator goes on, pending interrupts are taken, and   *)
(* the hart executes.                                                      *)
Fairness ==
  /\ WF_vars(~ Ended /\ TimerFires) /\ WF_vars(~ Ended /\ RandomRaise)
  /\ WF_vars(~ Ended /\ Machine) /\ WF_vars(~ Ended /\ Handler)
  /\ WF_vars(~ Ended /\ Program)

Spec == Init /\ [][Next]_vars /\ Fairness

-----------------------------------------------------------------------------

Points ==
  {"enable", "set", "wfi", "asleep", "wait", "check", "disable", "random",
   "main", "done"}
HandlerPoints ==
  {"seip_clear", "claim", "clear_intr", "complete", "recheck", "reset",
   "seip_mie", "stip_clear", "stip_mie", "sret"}

(* With sepc \in Points: a handler is never interrupted by another one.    *)
TypeOK ==
  /\ line \subseteq Source /\ pend \subseteq Source /\ busy \subseteq Source
  /\ enable \in [{"M", "S"} -> SUBSET Source]
  /\ {meie, mtip, ssip, seip, sie, slack} \subseteq BOOLEAN
  /\ pc \in Points \cup HandlerPoints \cup {"halt"} /\ sepc \in Points
  /\ {claim, should_claim, origin_claim} \subseteq Source \cup {None}
  /\ claim_count_all \in 0 .. Claims
  /\ stage \in 1 .. Len(Stages) /\ i \in 0 .. MAX_RAND_ITER
  /\ raised \in 0 .. Burst

(* The test never fails: no "no claim?", no wrong source, no "not          *)
(* triggered".  In particular SEIP is up only while there is something to  *)
(* claim, whatever timer interrupts come in between.                       *)
TestPasses == pc # "halt"

(* external_trigger starts its next round with nothing left over, in the   *)
(* PLIC, in the generator or in the redirection; as plic_disable toggles,  *)
(* that the enable bits are off again is part of it.                       *)
QuietBetweenRounds ==
  pc \in {"enable", "random"} =>
    /\ line = {} /\ pend = {} /\ busy = {}
    /\ \A c \in {"M", "S"} : enable[c] = {}
    /\ meie /\ ~ seip

(* Every external interrupt is served: a source that is pending in an      *)
(* enabled context is claimed, and a claimed one completed, also when the  *)
(* other source, the generator and the timer keep interrupting, and even   *)
(* when it comes as the test is about to end.                              *)
ExternalServed ==
  \A s \in Source :
    /\ s \in Claimable("M") \cup Claimable("S") ~> s \in busy
    /\ s \in busy ~> s \notin busy

(* The test gets through its four stages and the random one.               *)
TestFinishes == <>Ended

(* cte.c on "csrwi sip, 0" in the external handler: "this has no effect    *)
(* since in S mode only SSIP can be cleared".  A redirected timer          *)
(* interrupt that is pending stays pending.                                *)
NoEffectOnTimer == [][pc = "seip_clear" /\ ssip => ssip']_vars
=============================================================================
