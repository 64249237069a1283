------------------------------- MODULE NandTest -------------------------------
(***************************************************************************)
(* The tests of the NAND flash that test_nand_main runs (test/test_nand.c) *)
(* on top of the buffer management unit (hal/hal_bmu.c) and the NAND       *)
(* controller (hal/hal_nctl.c).                                            *)
(*                                                                         *)
(* A unit of one plane is written as a number of 4K pages, each in an SRAM *)
(* buffer of its own, and read back one by one.  The controller works in   *)
(* the background, in the order of the commands; it frees the buffer of a  *)
(* page it has programmed by itself, while the program frees the buffer it *)
(* has read into.                                                          *)
(***************************************************************************)
EXTENDS Naturals, Sequences, FiniteSets

CONSTANTS
  Buffers,   (* SRAM buffers, 512 in the code *)
  Reserved,  (* buffers fv_ftl_pre takes for good, 12 in the code *)
  Unit,      (* 4K pages of a unit: 12 in the code *)
  SlcUnit    (* the same for SLC: 4 in the code *)

ASSUME SlcAssumption == Unit \in Nat /\ SlcUnit \in 1 .. Unit

(* A buffer for each page of two planes and one to read into; or for one   *)
(* plane of SLC and the two that the tests before it may have lost.  The   *)
(* numbers of the code leave far more room than this.                      *)
ASSUME BuffersAssumption ==
  /\ Reserved \in Nat /\ Buffers \in Nat
  /\ Buffers > Reserved + 2 * Unit /\ Buffers > Reserved + SlcUnit + 2

Buf == 1 .. Buffers
Plane == {0, 1}
Cell == Plane \X (1 .. Unit)
Tests == 1 .. 3   (* the tests of test_nand_main *)

(* What a page or a buffer holds: the data a test writes, made from the    *)
(* number of the page and a random number of the test; or all ones, or     *)
(* what was there before, or garbage.                                      *)
Data(t, c) == <<t, c[1], c[2]>>
Erased == <<0, 0, 0>>
Old == <<4, 0, 0>>
Bad == <<5, 0, 0>>

VARIABLES
  n_at,      (* line of NandScript; Len(NandScript) + 1 at the end *)
  n_i,       (* i_mapu: page of the unit that is next *)
  t_buff,    (* the buffer that is being read into, 0 if there is none *)
  asked,     (* rb_cafp_set: the BMU has been asked for a buffer *)
  free,      (* buffers the BMU can hand out *)
  sram,      (* what each buffer holds *)
  cmdq,      (* commands the controller has not executed *)
  cell,      (* what each page of the block holds *)
  errq, smrdq,   (* rb_errd_vld and rb_smrd_vld: a read has failed, or succeeded *)
  n_ret,
  failures   (* history: reads that have failed *)

nandVars == <<n_at, n_i, t_buff, asked, free, sram, cmdq, cell, errq, smrdq, n_ret, failures>>

NandLine(t, op, planes, size) == [test |-> t, op |-> op, planes |-> planes, size |-> size]

(* test_single_erase, then test_nand_single_program_unit and the same for  *)
(* SLC: erase both planes, write and read each.                            *)
PerPlane(t, size) ==
  <<NandLine(t, "erase", Plane, 1), NandLine(t, "write", {0}, size), NandLine(t, "read", {0}, size),
    NandLine(t, "write", {1}, size), NandLine(t, "read", {1}, size)>>

NandScript ==
  <<NandLine(1, "erase", {0}, 1), NandLine(1, "write", {0}, Unit), NandLine(1, "write", {1}, Unit),
    NandLine(1, "erase", {1}, 1), NandLine(1, "read", {0}, Unit)>>
    \o PerPlane(2, Unit) \o PerPlane(3, SlcUnit)

(* After fv_nand_init and the twelve buffers of fv_ftl_pre.                *)
NandInit ==
  /\ n_at = 1 /\ n_i = 1 /\ t_buff = 0 /\ asked = FALSE
  /\ free = Reserved + 1 .. Buffers
  /\ sram = [b \in Buf |-> Old]
  /\ cmdq = <<>>
  /\ cell = [c \in Cell |-> Old]
  /\ errq = FALSE /\ smrdq = FALSE
  /\ n_ret = [t \in Tests |-> "none"] /\ failures = 0

NandDone == n_at > Len(NandScript)

ThisLine == NandScript[n_at]

-----------------------------------------------------------------------------
(* hal_bmu_alloc_buff asks the BMU for a buffer to write from or to read   *)
(* into, and waits for the answer without a time-out ...                   *)
Ask ==
  /\ ~ NandDone /\ ThisLine.op \in {"write", "read"} /\ t_buff = 0
  /\ ~ asked /\ asked' = TRUE
  /\ UNCHANGED <<n_at, n_i, t_buff, free, sram, cmdq, cell, errq, smrdq, n_ret, failures>>

(* ... and what it returns.  Nobody checks whether it has failed: its      *)
(* result is then taken for a buffer, whoever owns it.  Which of the free  *)
(* buffers the BMU hands out is its own business: here, the lowest.        *)
Allocated == IF free = {} THEN Buffers ELSE CHOOSE b \in free : \A f \in free : b <= f

(* On to the next page, or to the next line.                               *)
NextPage ==
  /\ n_i' = IF n_i < ThisLine.size THEN n_i + 1 ELSE 1
  /\ n_at' = IF n_i < ThisLine.size THEN n_at ELSE n_at + 1

(* Out of this test: its remaining lines are skipped.                      *)
Abandon ==
  /\ n_i' = 1
  /\ n_at' = 5 * ThisLine.test + 1

ThisPage == CHOOSE c \in Cell : c[1] \in ThisLine.planes /\ c[2] = n_i

(* hal_nctl_erase_single_blk, hal_nctl_erase_multi_blk.                    *)
PostErase ==
  /\ ~ NandDone /\ ThisLine.op = "erase"
  /\ cmdq' = Append(cmdq, [op |-> "erase", planes |-> ThisLine.planes])
  /\ NextPage
  /\ UNCHANGED <<t_buff, asked, free, sram, cell, errq, smrdq, n_ret, failures>>

(* test_base_one_unit_write, once the BMU has answered: fill the buffer,   *)
(* post the command.                                                       *)
PostProgram ==
  /\ ~ NandDone /\ ThisLine.op = "write"
  /\ asked /\ asked' = FALSE
  /\ LET b == Allocated IN
       /\ free' = free \ {b}
       /\ sram' = [sram EXCEPT ![b] = Data(ThisLine.test, ThisPage)]
       /\ cmdq' = Append(cmdq, [op |-> "program", cell |-> ThisPage, buf |-> b])
  /\ NextPage
  /\ UNCHANGED <<t_buff, cell, errq, smrdq, n_ret, failures>>

(* The result of comparing one page, and of the test after its last one.   *)
Verdict(equal) ==
  IF equal
  THEN /\ NextPage
       /\ n_ret' = IF n_at' = 5 * ThisLine.test + 1
                   THEN [n_ret EXCEPT ![ThisLine.test] = "pass"] ELSE n_ret
  ELSE /\ Abandon
       /\ n_ret' = [n_ret EXCEPT ![ThisLine.test] = "fail"]

(* test_base_one_unit_read_check: read a page into the buffer ...          *)
PostFetch ==
  /\ ~ NandDone /\ ThisLine.op = "read" /\ t_buff = 0
  /\ asked /\ asked' = FALSE
  /\ LET b == Allocated IN
       /\ free' = free \ {b}
       /\ t_buff' = b
       /\ cmdq' = Append(cmdq, [op |-> "read", cell |-> ThisPage, buf |-> b])
  /\ UNCHANGED <<n_at, n_i, sram, cell, errq, smrdq, n_ret, failures>>

(* ... wait until it is there; on an error return without freeing it ...   *)
ReadFailed ==
  /\ t_buff # 0 /\ errq
  /\ errq' = FALSE
  /\ failures' = failures + 1
  /\ n_ret' = [n_ret EXCEPT ![ThisLine.test] = "fail"]
  /\ t_buff' = 0
  /\ Abandon
  /\ UNCHANGED <<asked, free, sram, cmdq, cell, smrdq>>

(* Mutant: the entry of the queue of finished reads is not cleared.        *)
ReadOkStale ==
  /\ t_buff # 0 /\ ~ errq /\ smrdq
  /\ free' = free \cup {t_buff}
  /\ t_buff' = 0
  /\ Verdict(sram[t_buff] = Data(ThisLine.test, ThisPage))
  /\ UNCHANGED <<asked, sram, cmdq, cell, errq, smrdq, failures>>

(* Mutant: after a mismatch the buffer is not freed.                       *)
ReadOkLeaks ==
  /\ t_buff # 0 /\ ~ errq /\ smrdq
  /\ smrdq' = FALSE
  /\ free' = IF sram[t_buff] = Data(ThisLine.test, ThisPage)
             THEN free \cup {t_buff} ELSE free
  /\ t_buff' = 0
  /\ Verdict(sram[t_buff] = Data(ThisLine.test, ThisPage))
  /\ UNCHANGED <<asked, sram, cmdq, cell, errq, failures>>

(* ... or compare it and free it.                                          *)
ReadOk ==
  /\ t_buff # 0 /\ ~ errq /\ smrdq
  /\ smrdq' = FALSE
  /\ free' = free \cup {t_buff}
  /\ t_buff' = 0
  /\ Verdict(sram[t_buff] = Data(ThisLine.test, ThisPage))
  /\ UNCHANGED <<asked, sram, cmdq, cell, errq, failures>>

NandMain == PostErase \/ Ask \/ ReadFailed \/ ReadOk

(* The BMU answers (external), and the program goes on with the buffer.    *)
BmuAnswers == PostProgram \/ PostFetch

-----------------------------------------------------------------------------
(* The controller executes its next command (external).                    *)

(* An erase may fail and leave the pages as they were.                     *)
ExecErase(c) ==
  /\ c.op = "erase"
  /\ cell' \in {cell, [k \in Cell |-> IF k[1] \in c.planes THEN Erased ELSE cell[k]]}
  /\ UNCHANGED <<free, sram, errq, smrdq>>

(* A page must have been erased, and programming may fail all the same.    *)
(* The buffer is freed by the hardware.                                    *)
ExecProgram(c) ==
  /\ c.op = "program"
  /\ \E v \in {Bad} \cup (IF cell[c.cell] = Erased THEN {sram[c.buf]} ELSE {}) :
       cell' = [cell EXCEPT ![c.cell] = v]
  /\ free' = free \cup {c.buf}
  /\ UNCHANGED <<sram, errq, smrdq>>

(* A read gives what the page holds, or an error.                          *)
ExecRead(c) ==
  /\ c.op = "read"
  /\ \/ /\ sram' = [sram EXCEPT ![c.buf] = cell[c.cell]]
        /\ smrdq' = TRUE /\ UNCHANGED errq
     \/ errq' = TRUE /\ UNCHANGED <<sram, smrdq>>
  /\ UNCHANGED <<free, cell>>

NandDevice ==
  /\ cmdq # <<>>
  /\ LET c == Head(cmdq) IN ExecErase(c) \/ ExecProgram(c) \/ ExecRead(c)
  /\ cmdq' = Tail(cmdq)
  /\ UNCHANGED <<n_at, n_i, t_buff, asked, n_ret, failures>>

-----------------------------------------------------------------------------
(* Buffers whose page has not been programmed.                             *)
Programming == {cmdq[k].buf : k \in {j \in 1 .. Len(cmdq) : cmdq[j].op = "program"}}
Queued == {k \in 1 .. Len(cmdq) : cmdq[k].op = "program"}

(* A buffer is never in two hands, though the program frees some of them   *)
(* and the hardware the others, and one is lost for every failed read      *)
(* (test/test_nand.c:1336) and none otherwise.                             *)
BuffersAccounted ==
  LET held == {t_buff} \ {0} IN
    /\ free \cap Programming = {} /\ free \cap held = {} /\ held \cap Programming = {}
    /\ Cardinality(Programming) = Cardinality(Queued)
    /\ Cardinality(free \cup Programming \cup held) = Buffers - Reserved - failures

(* A test that passes has read its own data from the planes it names: the  *)
(* erase of plane 1 leaves plane 0 alone, no page is taken for another     *)
(* one, and no answer of the controller is taken for a later read's.       *)
NandVerdict ==
  \A t \in Tests :
    n_ret[t] = "pass" /\ n_at = 5 * t + 1 /\ cmdq = <<>> =>
      \A k \in Cell : k[2] <= NandScript[5 * t].size /\ (t = 1 => k[1] = 0) => cell[k] = Data(t, k)
=============================================================================
