----------------------------- MODULE MCRiscvVme -----------------------------
(* Instances of RiscvVme: three root entries, two pages below each.        *)
(* Root entry 1 holds the kernel's segments, root entry 2 is user space,   *)
(* root entry 3 is one the kernel fills later.  In the XiangShan layout    *)
(* segments[] also maps a page below root entry 2, as 0xc0000000 lies in   *)
(* USER_SPACE.  Tables, frames and user spaces are interchangeable.        *)
EXTENDS RiscvVme, TLC

NemuSegments == {<<1, 1>>}
XsSegments == {<<1, 1>>, <<2, 1>>}
Extra == {<<1, 2>>, <<3, 1>>}
UserPages == {2} \X {1, 2}

Interchangeable ==
  Permutations(Table) \cup Permutations(Frame) \cup Permutations(User)
=============================================================================
