--------------------------- MODULE TrapDelegProofs ---------------------------
(***************************************************************************)
(* external_intr never fails and leaves nothing behind between its rounds, *)
(* for every set of sources, every number of rounds and claims, and        *)
(* whatever timer interrupts and random interrupts come in between.        *)
(***************************************************************************)
EXTENDS TrapDeleg, TLAPS

(* What the program executes, or will go on with after the handler.        *)
Pos == IF pc \in HandlerPoints THEN sepc ELSE pc

ExternalPoints ==
  {"seip_clear", "claim", "clear_intr", "complete", "recheck", "reset", "seip_mie"}

(* The source of this round is raised, and nobody has claimed it yet.      *)
Raised ==
  \/ pc \in {"seip_clear", "claim"}
  \/ pc \in {"wait", "wfi"} /\ should_claim # None

(* A round of external_trigger: only its source is enabled, pending or in  *)
(* service; MEIE is off exactly while SEIP passes its interrupt on.        *)
RoundInv ==
  /\ i < MAX_RAND_ITER
  /\ Pos \in {"enable", "set", "wfi", "asleep", "wait", "check", "disable", "random"}
  /\ Pos = "random" => stage + 1 = Len(Stages)
  /\ enable = [c \in {"M", "S"} |->
       IF c = current_context /\ Pos \notin {"enable", "random"} THEN {origin_claim} ELSE {}]
  /\ Pos \notin {"enable", "random"} => origin_claim \in Source
  /\ meie <=> ~ seip
  /\ current_context = "S" => meie
  /\ ~ meie => Raised \/ pc \in ExternalPoints
  /\ pc \in ExternalPoints =>
       /\ sepc \in {"wait", "wfi"}
       /\ current_context = "M" => seip
  /\ pend = IF Raised THEN {origin_claim} ELSE {}
  /\ line = IF Raised \/ pc = "clear_intr" THEN {origin_claim} ELSE {}
  /\ busy = IF pc \in {"clear_intr", "complete"} THEN {origin_claim} ELSE {}
  /\ pc \in {"clear_intr", "complete"} => claim = origin_claim
  /\ should_claim \in {None, origin_claim}
  /\ Raised \/ Pos = "set" => should_claim = origin_claim
  /\ Pos \in {"asleep", "check", "disable"} \/
       (Pos \in {"wait", "wfi"} /\ pc \in {"seip_mie", "sret", "stip_clear", "stip_mie"})
       => should_claim = None

(* random_trigger: an external handler is entered only if a source is      *)
(* pending, and nobody but the handler claims it.                          *)
RandomInv ==
  /\ i < MAX_RAND_ITER
  /\ Pos \in {"main", "done"} /\ pc # "recheck"
  /\ enable = [c \in {"M", "S"} |-> IF c = "S" THEN Source ELSE {}]
  /\ meie /\ ~ seip
  /\ pc \in {"seip_clear", "claim"} => pend # {}

TrapInv ==
  /\ TypeOK /\ pc # "halt"
  /\ sie <=> pc \notin HandlerPoints
  /\ stage < Len(Stages) => RoundInv
  /\ random_claim => RandomInv
-----------------------------------------------------------------------------
(* The four calls of external_trigger and the one of random_trigger.       *)
LEMMA StageFacts ==
  /\ Len(Stages) = 5
  /\ stage \in 1 .. 5 => current_context = IF stage \in {3, 4} THEN "M" ELSE "S"
  BY DEF Stages, current_context

(* What Enable does: source s is enabled and expected.                     *)
RoundStarts(s) ==
  /\ pc = "enable" /\ pc' = "set" /\ sie
  /\ should_claim' = s /\ origin_claim' = s
  /\ enable' = [enable EXCEPT ![current_context] = @ \cup {s}]
  /\ UNCHANGED <<line, pend, busy, claim, claim_count_all, stage, i, csr, sepc>>

LEMMA EnableStarts == TrapInv /\ Enable => \E s \in Source : RoundStarts(s)
<1> SUFFICES ASSUME TrapInv, Enable PROVE \E s \in Source : RoundStarts(s)
  OBVIOUS
<1>1. PICK s \in Source :
        /\ should_claim' = s /\ origin_claim' = s
        /\ enable' = [enable EXCEPT ![current_context] = @ \cup {s}]
  BY Zenon DEF Enable
<1>2. sie
  BY DEF Enable, ProgramInstr, Instr, TrapInv, HandlerPoints
<1>3. RoundStarts(s)
  BY <1>1, <1>2 DEF Enable, ProgramInstr, Instr, RoundStarts, loop, csr
<1> QED
  BY <1>3

(* What Disable does: nothing is enabled any more, and the next round, the *)
(* next call or random_trigger follows.                                    *)
RoundEnded ==
  /\ stage < 5 /\ origin_claim \in Source /\ pc = "disable" /\ sie
  /\ should_claim = None /\ line = {} /\ pend = {} /\ busy = {}
  /\ meie /\ ~ seip
  /\ enable' = [c \in {"M", "S"} |-> {}]
  /\ stage' \in 1 .. 4 /\ i' \in 0 .. MAX_RAND_ITER - 1
  /\ \/ pc' = "enable"
     \/ pc' = "random" /\ stage' = 4
  /\ UNCHANGED <<line, pend, busy, driver, csr, sepc>>
  /\ slack' = TRUE /\ raised' = 0

LEMMA RoundEnds == TrapInv /\ Disable => RoundEnded
<1> SUFFICES ASSUME TrapInv, Disable PROVE RoundEnded
  OBVIOUS
<1>1. pc = "disable" /\ UNCHANGED <<csr, sepc>> /\ slack' = TRUE /\ raised' = 0
  BY DEF Disable, ProgramInstr, Instr
<1>2. stage \in 1 .. 4 /\ RoundInv
  BY <1>1, StageFacts
     DEF TrapInv, TypeOK, RandomInv, random_claim, Pos, HandlerPoints
<1>3. /\ origin_claim \in Source /\ sie /\ should_claim = None
      /\ line = {} /\ pend = {} /\ busy = {} /\ meie /\ ~ seip
  BY <1>1, <1>2
     DEF TrapInv, RoundInv, Pos, HandlerPoints, ExternalPoints, Raised
<1>4. enable' = [c \in {"M", "S"} |-> {}]
  <2>1. enable = [c \in {"M", "S"} |-> IF c = current_context THEN {origin_claim} ELSE {}]
    BY <1>1, <1>2 DEF RoundInv, Pos, HandlerPoints
  <2>2. current_context \in {"M", "S"}
    BY <1>2, StageFacts
  <2>3. enable' = [enable EXCEPT ![current_context] = {}]
    BY <2>1, <2>2 DEF Disable, Toggle
  <2> QED
    BY <2>1, <2>2, <2>3
<1>5. i \in Nat /\ i < MAX_RAND_ITER
  BY <1>2 DEF TrapInv, TypeOK, RoundInv
<1>6. /\ stage' \in 1 .. 4 /\ i' \in 0 .. MAX_RAND_ITER - 1
      /\ \/ pc' = "enable"
         \/ pc' = "random" /\ stage' = 4
  <2>1. CASE i + 1 < MAX_RAND_ITER
    BY <2>1, <1>2, <1>5, IterAssumption DEF Disable, ProgramInstr, Instr
  <2>2. CASE i + 1 = MAX_RAND_ITER
    BY <2>2, <1>2, <1>5, IterAssumption, StageFacts
       DEF Disable, ProgramInstr, Instr
  <2> QED
    BY <2>1, <2>2, <1>5, IterAssumption
<1>7. UNCHANGED <<line, pend, busy, driver>>
  BY DEF Disable
<1> QED
  BY <1>1, <1>2, <1>3, <1>4, <1>6, <1>7 DEF RoundEnded

(* Every step keeps the types.                                             *)
LEMMA TypesKept ==
  TrapInv /\ ~ Ended /\ (TimerFires \/ RandomRaise \/ Machine \/ Handler \/ Program)
    => TypeOK'
<1> SUFFICES ASSUME TrapInv, ~ Ended,
                   TimerFires \/ RandomRaise \/ Machine \/ Handler \/ Program
             PROVE  TypeOK'
  OBVIOUS
<1>0. Len(Stages) = 5 /\ stage \in 1 .. 5 /\ current_context \in {"M", "S"}
  BY StageFacts DEF TrapInv, TypeOK
<1>s. stage' = stage => current_context' = current_context
  BY DEF current_context
<1>r. Disable => RoundEnded
  BY RoundEnds
<1> USE <1>0, <1>s, IterAssumption, BurstAssumption, NoneAssumption
        DEF TrapInv, TypeOK, Points, HandlerPoints, Instr, Claimable, plic, csr,
            driver, loop, pace, RoundInv, RandomInv, Pos, ExternalPoints,
            Raised, random_claim
<1>1. CASE TimerFires
  BY <1>1 DEF TimerFires
<1>2. CASE RandomRaise
  BY <1>2 DEF RandomRaise, Latched, random_claim
<1>3. CASE MTimer
  BY <1>3 DEF MTimer, Resume
<1>4. CASE MExt
  BY <1>4 DEF MExt, Resume
<1>5. CASE TakeExternal
  BY <1>5 DEF TakeExternal, TakeTrap, Resume
<1>6. CASE TakeTimer
  BY <1>6 DEF TakeTimer, TakeTrap, Resume
<1>7. CASE ClearSip
  BY <1>7 DEF ClearSip
<1>8. CASE StipMie
  BY <1>8 DEF StipMie, Illegal
<1>9. CASE Claim
  BY <1>9 DEF Claim, Take, HandedOut
<1>10. CASE ClearIntr
  BY <1>10 DEF ClearIntr
<1>11. CASE Complete
  BY <1>11 DEF Complete, Latched
<1>12. CASE Recheck
  BY <1>12 DEF Recheck, Take, HandedOut
<1>13. CASE ResetShouldClaim
  BY <1>13 DEF ResetShouldClaim
<1>14. CASE SeipMie
  BY <1>14 DEF SeipMie, Illegal
<1>15. CASE Sret
  BY <1>15 DEF Sret
<1>16. CASE Enable
  BY <1>16 DEF Enable, ProgramInstr
<1>17. CASE SetIntr
  BY <1>17 DEF SetIntr, ProgramInstr, Latched
<1>18. CASE Sleep
  BY <1>18 DEF Sleep, ProgramInstr
<1>19. CASE Wait
  BY <1>19 DEF Wait, ProgramInstr
<1>20. CASE Check
  BY <1>20 DEF Check, ProgramInstr
<1>21. CASE Disable
  BY <1>21, <1>r DEF RoundEnded
<1>22. CASE StartRandom
  BY <1>22 DEF StartRandom, ProgramInstr
<1>23. CASE MainLoop
  BY <1>23 DEF MainLoop, ProgramInstr
<1> QED
  BY <1>1, <1>2, <1>3, <1>4, <1>5, <1>6, <1>7, <1>8, <1>9, <1>10, <1>11, <1>12,
     <1>13, <1>14, <1>15, <1>16, <1>17, <1>18, <1>19, <1>20, <1>21, <1>22,
     <1>23
     DEF Machine, Handler, Program

(* Every step keeps the invariant of a round.                              *)
LEMMA RoundKept ==
  TrapInv /\ ~ Ended /\ (TimerFires \/ RandomRaise \/ Machine \/ Handler \/ Program)
    => (stage < Len(Stages) => RoundInv)'
<1> SUFFICES ASSUME TrapInv, ~ Ended,
                   TimerFires \/ RandomRaise \/ Machine \/ Handler \/ Program
             PROVE  (stage < Len(Stages) => RoundInv)'
  OBVIOUS
<1>0. Len(Stages) = 5 /\ stage \in 1 .. 5 /\ current_context \in {"M", "S"}
  BY StageFacts DEF TrapInv, TypeOK
<1>s. stage' = stage => current_context' = current_context
  BY DEF current_context
<1>r. Disable => RoundEnded
  BY RoundEnds
<1>e. Enable => \E s \in Source : RoundStarts(s)
  BY EnableStarts
<1> USE <1>0, <1>s, IterAssumption, BurstAssumption, NoneAssumption
        DEF TrapInv, TypeOK, Points, HandlerPoints, Instr, Claimable, plic, csr,
            driver, loop, pace, RoundInv, RandomInv, Pos, ExternalPoints,
            Raised, Interrupted, MExtPending, SExtPending, random_claim
<1>1. CASE TimerFires
  BY <1>1 DEF TimerFires
<1>2. CASE RandomRaise
  BY <1>2 DEF RandomRaise, Latched, random_claim
<1>3. CASE MTimer
  BY <1>3 DEF MTimer, Resume
<1>4. CASE MExt
  BY <1>4 DEF MExt, Resume
<1>5. CASE TakeExternal
  BY <1>5 DEF TakeExternal, TakeTrap, Resume
<1>6. CASE TakeTimer
  BY <1>6 DEF TakeTimer, TakeTrap, Resume
<1>7. CASE ClearSip
  BY <1>7 DEF ClearSip
<1>8. CASE StipMie
  BY <1>8 DEF StipMie, Illegal
<1>9. CASE Claim
  BY <1>9 DEF Claim, Take, HandedOut
<1>10. CASE ClearIntr
  BY <1>10 DEF ClearIntr
<1>11. CASE Complete
  BY <1>11 DEF Complete, Latched
<1>12. CASE Recheck
  BY <1>12 DEF Recheck, Take, HandedOut
<1>13. CASE ResetShouldClaim
  BY <1>13 DEF ResetShouldClaim
<1>14. CASE SeipMie
  BY <1>14 DEF SeipMie, Illegal
<1>15. CASE Sret
  BY <1>15 DEF Sret
<1>16. CASE Enable
  <2>1. PICK s \in Source : RoundStarts(s)
    BY <1>16, <1>e
  <2>2. UNCHANGED current_context
    BY <2>1 DEF RoundStarts
  <2>3. enable = [c \in {"M", "S"} |-> {}] /\ stage < 5
    BY <2>1 DEF RoundStarts
  <2>4. enable' = [enable EXCEPT ![current_context] = enable[current_context] \cup {s}]
    BY <2>1 DEF RoundStarts
  <2>5. enable' = [c \in {"M", "S"} |-> IF c = current_context THEN {s} ELSE {}]
    BY <2>3, <2>4, <1>0
  <2> QED
    BY <2>1, <2>2, <2>5 DEF RoundStarts
<1>17. CASE SetIntr
  BY <1>17 DEF SetIntr, ProgramInstr, Latched
<1>18. CASE Sleep
  BY <1>18 DEF Sleep, ProgramInstr
<1>19. CASE Wait
  BY <1>19 DEF Wait, ProgramInstr
<1>20. CASE Check
  BY <1>20 DEF Check, ProgramInstr
<1>21. CASE Disable
  BY <1>21, <1>r DEF RoundEnded
<1>22. CASE StartRandom
  BY <1>22 DEF StartRandom, ProgramInstr
<1>23. CASE MainLoop
  BY <1>23 DEF MainLoop, ProgramInstr
<1> QED
  BY <1>1, <1>2, <1>3, <1>4, <1>5, <1>6, <1>7, <1>8, <1>9, <1>10, <1>11, <1>12,
     <1>13, <1>14, <1>15, <1>16, <1>17, <1>18, <1>19, <1>20, <1>21, <1>22,
     <1>23
     DEF Machine, Handler, Program

(* Every step keeps the invariant of random_trigger.                       *)
LEMMA RandomKept ==
  TrapInv /\ ~ Ended /\ (TimerFires \/ RandomRaise \/ Machine \/ Handler \/ Program)
    => (random_claim => RandomInv)'
<1> SUFFICES ASSUME TrapInv, ~ Ended,
                   TimerFires \/ RandomRaise \/ Machine \/ Handler \/ Program
             PROVE  (random_claim => RandomInv)'
  OBVIOUS
<1>0. Len(Stages) = 5 /\ stage \in 1 .. 5 /\ current_context \in {"M", "S"}
  BY StageFacts DEF TrapInv, TypeOK
<1>s. stage' = stage => current_context' = current_context
  BY DEF current_context
<1> USE <1>0, <1>s, IterAssumption, BurstAssumption, NoneAssumption
        DEF TrapInv, TypeOK, Points, HandlerPoints, Instr, Claimable, plic, csr,
            driver, loop, pace, RoundInv, RandomInv, Pos, ExternalPoints,
            Raised, Interrupted, MExtPending, SExtPending, random_claim
<1>1. CASE TimerFires
  BY <1>1 DEF TimerFires
<1>2. CASE RandomRaise
  BY <1>2 DEF RandomRaise, Latched, random_claim
<1>3. CASE MTimer
  BY <1>3 DEF MTimer, Resume
<1>4. CASE MExt
  BY <1>4 DEF MExt, Resume
<1>5. CASE TakeExternal
  BY <1>5 DEF TakeExternal, TakeTrap, Resume
<1>6. CASE TakeTimer
  BY <1>6 DEF TakeTimer, TakeTrap, Resume
<1>7. CASE ClearSip
  BY <1>7 DEF ClearSip
<1>8. CASE StipMie
  BY <1>8 DEF StipMie, Illegal
<1>9. CASE Claim
  <2>1. CASE random_claim'
    <3>1. random_claim /\ stage' = stage
      BY <1>9, <2>1 DEF Claim
    <3>2. current_context = "S" /\ HandedOut = pend /\ pend # {} /\ pend \subseteq Source
      BY <1>9, <3>1, StageFacts DEF Claim, HandedOut
    <3>3. pc = "claim" /\ pc' = "clear_intr" /\ UNCHANGED <<i, sepc, enable, meie, seip>>
      BY <1>9, <3>1, <3>2 DEF Claim
    <3> QED
      BY <3>3, <3>1, StageFacts
  <2> QED
    BY <2>1
<1>10. CASE ClearIntr
  BY <1>10 DEF ClearIntr
<1>11. CASE Complete
  BY <1>11 DEF Complete, Latched
<1>12. CASE Recheck
  BY <1>12 DEF Recheck, Take, HandedOut
<1>13. CASE ResetShouldClaim
  BY <1>13 DEF ResetShouldClaim
<1>14. CASE SeipMie
  BY <1>14 DEF SeipMie, Illegal
<1>15. CASE Sret
  BY <1>15 DEF Sret
<1>16. CASE Enable
  BY <1>16 DEF Enable, ProgramInstr
<1>17. CASE SetIntr
  BY <1>17 DEF SetIntr, ProgramInstr, Latched
<1>18. CASE Sleep
  BY <1>18 DEF Sleep, ProgramInstr
<1>19. CASE Wait
  BY <1>19 DEF Wait, ProgramInstr
<1>20. CASE Check
  BY <1>20 DEF Check, ProgramInstr
<1>21. CASE Disable
  BY <1>21 DEF Disable, ProgramInstr, Toggle
<1>22. CASE StartRandom
  BY <1>22 DEF StartRandom, ProgramInstr
<1>23. CASE MainLoop
  BY <1>23 DEF MainLoop, ProgramInstr
<1> QED
  BY <1>1, <1>2, <1>3, <1>4, <1>5, <1>6, <1>7, <1>8, <1>9, <1>10, <1>11, <1>12,
     <1>13, <1>14, <1>15, <1>16, <1>17, <1>18, <1>19, <1>20, <1>21, <1>22,
     <1>23
     DEF Machine, Handler, Program

(* Interrupts are off in the handlers only, and no step ends the test with *)
(* a failure.                                                              *)
LEMMA ControlKept ==
  TrapInv /\ ~ Ended /\ (TimerFires \/ RandomRaise \/ Machine \/ Handler \/ Program)
    => ((sie <=> pc \notin HandlerPoints) /\ pc # "halt")'
<1> SUFFICES ASSUME TrapInv, ~ Ended,
                   TimerFires \/ RandomRaise \/ Machine \/ Handler \/ Program
             PROVE  ((sie <=> pc \notin HandlerPoints) /\ pc # "halt")'
  OBVIOUS
<1>0. Len(Stages) = 5 /\ stage \in 1 .. 5 /\ current_context \in {"M", "S"}
  BY StageFacts DEF TrapInv, TypeOK
<1>s. stage' = stage => current_context' = current_context
  BY DEF current_context
<1>r. Disable => RoundEnded
  BY RoundEnds
<1> USE <1>0, <1>s, IterAssumption, BurstAssumption, NoneAssumption
        DEF TrapInv, TypeOK, Points, HandlerPoints, Instr, Claimable, plic, csr,
            driver, loop, pace, RoundInv, RandomInv, Pos, ExternalPoints,
            Raised, Interrupted, MExtPending, SExtPending, random_claim
<1>1. CASE TimerFires
  BY <1>1 DEF TimerFires
<1>2. CASE RandomRaise
  BY <1>2 DEF RandomRaise, Latched, random_claim
<1>3. CASE MTimer
  BY <1>3 DEF MTimer, Resume
<1>4. CASE MExt
  BY <1>4 DEF MExt, Resume
<1>5. CASE TakeExternal
  BY <1>5 DEF TakeExternal, TakeTrap, Resume
<1>6. CASE TakeTimer
  BY <1>6 DEF TakeTimer, TakeTrap, Resume
<1>7. CASE ClearSip
  BY <1>7 DEF ClearSip
<1>8. CASE StipMie
  BY <1>8 DEF StipMie, Illegal
<1>9. CASE Claim
  <2>1. pc = "claim"
    BY <1>9 DEF Claim
  <2>2. CASE stage < 5
    <3>1. pend = {origin_claim} /\ enable[current_context] = {origin_claim}
      BY <2>1, <2>2
    <3>2. HandedOut = {origin_claim} /\ should_claim = origin_claim /\ origin_claim \in Source
      BY <2>1, <2>2, <3>1 DEF HandedOut
    <3> QED
      BY <1>9, <3>2 DEF Claim
  <2>3. CASE stage = 5
    <3>1. HandedOut = pend /\ pend \subseteq Source
      BY <2>1, <2>3, StageFacts DEF HandedOut
    <3> QED
      BY <1>9, <2>3, <3>1 DEF Claim
  <2> QED
    BY <2>2, <2>3
<1>10. CASE ClearIntr
  BY <1>10 DEF ClearIntr
<1>11. CASE Complete
  BY <1>11 DEF Complete, Latched
<1>12. CASE Recheck
  BY <1>12 DEF Recheck, Take, HandedOut
<1>13. CASE ResetShouldClaim
  BY <1>13 DEF ResetShouldClaim
<1>14. CASE SeipMie
  BY <1>14 DEF SeipMie, Illegal
<1>15. CASE Sret
  BY <1>15 DEF Sret
<1>16. CASE Enable
  BY <1>16 DEF Enable, ProgramInstr
<1>17. CASE SetIntr
  BY <1>17 DEF SetIntr, ProgramInstr, Latched
<1>18. CASE Sleep
  BY <1>18 DEF Sleep, ProgramInstr
<1>19. CASE Wait
  BY <1>19 DEF Wait, ProgramInstr
<1>20. CASE Check
  BY <1>20 DEF Check, ProgramInstr
<1>21. CASE Disable
  BY <1>21 DEF Disable, ProgramInstr, Toggle
<1>22. CASE StartRandom
  BY <1>22 DEF StartRandom, ProgramInstr
<1>23. CASE MainLoop
  BY <1>23 DEF MainLoop, ProgramInstr
<1> QED
  BY <1>1, <1>2, <1>3, <1>4, <1>5, <1>6, <1>7, <1>8, <1>9, <1>10, <1>11, <1>12,
     <1>13, <1>14, <1>15, <1>16, <1>17, <1>18, <1>19, <1>20, <1>21, <1>22,
     <1>23
     DEF Machine, Handler, Program

LEMMA InitTrapInv == Init => TrapInv
<1> SUFFICES ASSUME Init PROVE TrapInv
  OBVIOUS
<1> USE IterAssumption, BurstAssumption, StageFacts
        DEF Init, Points, HandlerPoints
<1>1. TypeOK
  <2>1. {meie, mtip, ssip, seip, sie, slack} \subseteq BOOLEAN
    OBVIOUS
  <2>2. stage \in 1 .. Len(Stages) /\ i \in 0 .. MAX_RAND_ITER /\ raised \in 0 .. Burst
        /\ claim_count_all \in 0 .. Claims
    OBVIOUS
  <2> QED
    BY <2>1, <2>2 DEF TypeOK
<1>2. RoundInv /\ ~ random_claim
  BY DEF RoundInv, random_claim, Pos, ExternalPoints, Raised
<1> QED
  BY <1>1, <1>2 DEF TrapInv

(* The inductive invariant of the test on top of the redirection.          *)
THEOREM TrapInductive == Spec => []TrapInv
<1>1. TrapInv /\ [Next]_vars => TrapInv'
  <2>1. TrapInv /\ ~ Ended /\ (TimerFires \/ RandomRaise \/ Machine \/ Handler \/ Program)
          => TrapInv'
    BY TypesKept, RoundKept, RandomKept, ControlKept DEF TrapInv
  <2>2. TrapInv /\ UNCHANGED vars => TrapInv'
    BY
       DEF TrapInv, TypeOK, RoundInv, RandomInv, Pos, Raised, current_context,
           random_claim, vars, plic, csr, driver, loop, pace
  <2> QED
    BY <2>1, <2>2 DEF Next
<1> QED
  BY <1>1, InitTrapInv, PTL DEF Spec

(* Every variable has its type; in particular sepc is a point of the       *)
(* program: no handler is interrupted by another one.                      *)
THEOREM TypeCorrect == Spec => []TypeOK
<1>1. TrapInv => TypeOK
  BY DEF TrapInv
<1> QED
  BY <1>1, TrapInductive, PTL

(* external_intr never fails: what its handler claims is what was raised,  *)
(* and it has been claimed when the program looks.                         *)
THEOREM TestNeverFails == Spec => []TestPasses
<1>1. TrapInv => TestPasses
  BY DEF TrapInv, TestPasses
<1> QED
  BY <1>1, TrapInductive, PTL

(* Between two rounds nothing is raised, pending, in service or enabled,   *)
(* and the redirection is back in its first state.                         *)
THEOREM QuietBetween == Spec => []QuietBetweenRounds
<1>1. TrapInv => QuietBetweenRounds
  <2> SUFFICES ASSUME TrapInv, pc \in {"enable", "random"}
               PROVE  /\ line = {} /\ pend = {} /\ busy = {}
                      /\ \A c \in {"M", "S"} : enable[c] = {}
                      /\ meie /\ ~ seip
    BY DEF QuietBetweenRounds
  <2>1. Pos = pc
    BY DEF Pos, HandlerPoints
  <2>2. RoundInv
    BY <2>1, StageFacts DEF TrapInv, TypeOK, RandomInv, random_claim
  <2> QED
    BY <2>1, <2>2 DEF RoundInv, Raised, ExternalPoints
<1> QED
  BY <1>1, TrapInductive, PTL
=============================================================================
