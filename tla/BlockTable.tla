------------------------------ MODULE BlockTable ------------------------------
(***************************************************************************)
(* fv_ers_build (sys/ftl_init.c): when the drive starts, every block of    *)
(* the NAND is erased and put into the list of free blocks or into the     *)
(* list of bad blocks.  Both are singly linked through gs_dbl_tbl.  When   *)
(* there are enough free blocks, the rest counts as bad.                   *)
(***************************************************************************)
EXTENDS Naturals, FiniteSets

CONSTANTS
  RBLK_QNTY, (* blocks of a die; block 0 is not used *)
  VBLK_QNTY, (* free blocks the drive needs *)
  Die,
  DBLK_INVLD

ASSUME BlockAssumption ==
  /\ RBLK_QNTY \in Nat /\ VBLK_QNTY \in 1 .. RBLK_QNTY - 1
  /\ DBLK_INVLD \notin 0 .. RBLK_QNTY

Block == 1 .. RBLK_QNTY - 1

VARIABLES
  blk,       (* lw_blk_ptr *)
  next_ptr,  (* gs_dbl_tbl[].wd.w_next_ptr *)
  fblk_str, fblk_end, fblk_num,   (* the list of free blocks *)
  bblk_str, bblk_end,             (* the list of bad blocks *)
  blk_type,  (* gb_blk_type, with the entry behind the last one *)
  sts_fail,  (* rw_sts_fail: dies that report a failure *)
  good       (* history: blocks whose erase no die reported as failed *)

blockVars == <<blk, next_ptr, fblk_str, fblk_end, fblk_num, bblk_str, bblk_end,
               blk_type, sts_fail, good>>

(* fv_nand_init prints the dies whose reset has failed and leaves their    *)
(* fail bits set (drv/nand_init.c:270).                                    *)
BlockInit ==
  /\ blk = 1
  /\ next_ptr = [b \in 0 .. RBLK_QNTY - 1 |-> 0]
  /\ fblk_str = DBLK_INVLD /\ fblk_end = 0 /\ fblk_num = 0
  /\ bblk_str = DBLK_INVLD /\ bblk_end = 0
  /\ blk_type = [b \in 1 .. RBLK_QNTY |-> "none"]
  /\ sts_fail \in SUBSET Die
  /\ good = {}

BlocksDone == blk = RBLK_QNTY

-----------------------------------------------------------------------------
(* Mutant: the end of the list does not move.                              *)
LinkBadAtStart ==
  /\ bblk_str' = IF bblk_str = DBLK_INVLD THEN blk ELSE bblk_str
  /\ bblk_end' = IF bblk_str = DBLK_INVLD THEN blk ELSE bblk_end
  /\ next_ptr' = [b \in DOMAIN next_ptr |->
                    CASE b = blk -> DBLK_INVLD
                      [] b = bblk_end /\ bblk_str # DBLK_INVLD -> blk
                      [] OTHER -> next_ptr[b]]

(* Append the block to the list of bad blocks.                             *)
LinkBad ==
  /\ bblk_str' = IF bblk_str = DBLK_INVLD THEN blk ELSE bblk_str
  /\ bblk_end' = blk
  /\ next_ptr' = [b \in DOMAIN next_ptr |->
                    CASE b = blk -> DBLK_INVLD
                      [] b = bblk_end /\ bblk_str # DBLK_INVLD -> blk
                      [] OTHER -> next_ptr[b]]

(* Append it to the list of free blocks: the last one gets no end mark.    *)
LinkFree ==
  /\ fblk_str' = IF fblk_str = DBLK_INVLD THEN blk ELSE fblk_str
  /\ fblk_end' = blk
  /\ fblk_num' = fblk_num + 1
  /\ next_ptr' = IF fblk_str = DBLK_INVLD THEN next_ptr
                 ELSE [next_ptr EXCEPT ![fblk_end] = blk]

(* Erase the block on all dies; failures are reported and cleared.  The    *)
(* waits for the dies are part of the step: the program does nothing in    *)
(* the meantime, and nobody else touches these variables.                  *)
Build ==
  /\ ~ BlocksDone /\ fblk_num # VBLK_QNTY
  /\ \E failed \in SUBSET Die :
       IF failed \cup sts_fail = {}
       THEN /\ LinkFree
            /\ blk_type' = [blk_type EXCEPT ![blk] = "FREE_BLK"]
            /\ good' = good \cup {blk}
            /\ UNCHANGED <<bblk_str, bblk_end>>
       ELSE /\ LinkBad
            /\ blk_type' = [blk_type EXCEPT ![blk] = "BAD_BLK"]
            /\ good' = IF failed = {} THEN good \cup {blk} ELSE good
            /\ UNCHANGED <<fblk_str, fblk_end, fblk_num>>
  /\ sts_fail' = {}
  /\ blk' = blk + 1

(* Enough free blocks.  The pointer moves on before the type is written.   *)
Leftover ==
  /\ ~ BlocksDone /\ fblk_num = VBLK_QNTY
  /\ LinkBad
  /\ blk' = blk + 1
  /\ blk_type' = [blk_type EXCEPT ![blk'] = "BAD_BLK"]
  /\ UNCHANGED <<fblk_str, fblk_end, fblk_num, sts_fail, good>>

BlockMain == Build \/ Leftover

-----------------------------------------------------------------------------
(* The k-th block of the list that starts at b.                            *)
Nth(b, n) == LET nth[k \in 1 .. n] == IF k = 1 THEN b ELSE next_ptr[nth[k - 1]] IN nth

Listed(b, n) == {Nth(b, n)[k] : k \in 1 .. n}

Typed(type) == {b \in Block : blk_type[b] = type}

(* Once the table is built, each list has every one of its blocks once, in *)
(* ascending order, from its start to its end, and no block is in both;    *)
(* the list of bad blocks is terminated.  A free block is one that was     *)
(* erased on every die; of the blocks that were, at most the first is      *)
(* wrongly called bad (when its dies still report a failed reset), besides *)
(* those that are not needed.  All bad blocks are marked as such but the   *)
(* first of those (sys/ftl_init.c:182).                                    *)
BlockLists ==
  BlocksDone =>
    LET bad == RBLK_QNTY - 1 - fblk_num
        freeList == Nth(fblk_str, fblk_num)
        badList == Nth(bblk_str, bad)
    IN  /\ fblk_num > 0 => freeList[fblk_num] = fblk_end
        /\ bad > 0 => badList[bad] = bblk_end /\ next_ptr[bblk_end] = DBLK_INVLD
        /\ \A k \in 1 .. fblk_num - 1 : freeList[k] < freeList[k + 1]
        /\ \A k \in 1 .. bad - 1 : badList[k] < badList[k + 1]
        /\ Listed(fblk_str, fblk_num) \cup Listed(bblk_str, bad) = Block
        /\ Listed(fblk_str, fblk_num) = Typed("FREE_BLK")
        /\ Listed(fblk_str, fblk_num) \subseteq good
        /\ fblk_num < VBLK_QNTY =>
             good \ Listed(fblk_str, fblk_num) \subseteq {1}
        /\ Typed("BAD_BLK") = Listed(bblk_str, bad) \ 
             (IF fblk_num = VBLK_QNTY THEN {fblk_end + 1} ELSE {})
=============================================================================
