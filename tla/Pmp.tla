--------------------------------- MODULE Pmp ---------------------------------
(***************************************************************************)
(* Physical memory protection, am/src/xs/isa/riscv/pmp.c as cte64.c calls  *)
(* it in M-mode before S-mode starts.                                      *)
(*                                                                         *)
(* Memory is Top granules of four bytes, so that addresses and pmpaddr     *)
(* registers (which hold an address >> 2) use the same unit.  A byte of    *)
(* pmpcfg is the set of its bits that are one: the address-matching mode   *)
(* A = <<A1, A0>> and the permissions; csr_set_num only adds bits.  What   *)
(* the hardware makes of the registers is Matches and Allowed.  The lock   *)
(* bit, zero in every call, is left out.                                   *)
(***************************************************************************)
EXTENDS Naturals

CONSTANTS
  PmpCount,    (* PMP_COUNT, 16 *)
  Default,     (* the entry init_pmp opens: 8, the first one of pmpcfg2 *)
  Top,         (* granules of memory, a power of two *)
  Perms        (* the permissions callers ask for *)

Reg == 0 .. PmpCount - 1
Granule == 0 .. Top - 1
Access == {"R", "W"}

(* The numbers up to 4 * Top that no odd number but 1 divides.             *)
PowerOfTwo == {s \in 1 .. 4 * Top : \A d \in 2 .. s : s % d = 0 => d % 2 = 0}

(* Top is a power of two if 4 * Top is.                                    *)
ASSUME SizeAssumption ==
  /\ PmpCount \in Nat /\ Default \in Reg
  /\ Top \in Nat \ {0} /\ 4 * Top \in PowerOfTwo
ASSUME PermsAssumption == Perms \in SUBSET SUBSET Access

VARIABLES
  pmpaddr, pmpcfg,
  region,  (* history: what each entry was last asked to protect *)
  stale    (* history: the entries whose registers no longer hold it *)

vars == <<pmpaddr, pmpcfg, region, stale>>

NoRegion == [at |-> {}, perm |-> {}]
AllOnes == 2 * Top - 1      \* a register is wider than memory

(* The block a NAPOT register stands for: as many low ones, twice as many  *)
(* granules plus two, and so on; all ones is all of memory.                *)
NapotSize(p) == CHOOSE s \in PowerOfTwo \ {1} : p % s = s \div 2 - 1

Mode(r) == pmpcfg[r] \cap {"A0", "A1"}

Matches(r) ==
  LET bottom == IF r = 0 THEN 0 ELSE pmpaddr[r - 1]
  IN  {g \in Granule :
         \/ Mode(r) = {"A0"} /\ bottom <= g /\ g < pmpaddr[r]           \* TOR
         \/ Mode(r) = {"A1"} /\ g = pmpaddr[r]                          \* NA4
         \/ /\ Mode(r) = {"A0", "A1"}                                   \* NAPOT
            /\ g \div NapotSize(pmpaddr[r]) = pmpaddr[r] \div NapotSize(pmpaddr[r])}

(* The lowest entry that matches decides; S-mode needs one that does.      *)
Allowed(g) ==
  LET hit == {r \in Reg : g \in Matches(r)}
  IN  IF hit = {} THEN {}
      ELSE pmpcfg[CHOOSE r \in hit : \A q \in hit : r <= q] \cap Access

(* init_pmp: every address to -1, pmpcfg2 = 31.                            *)
Init ==
  /\ pmpaddr = [r \in Reg |-> AllOnes]
  /\ pmpcfg = [r \in Reg |-> IF r = Default THEN {"A0", "A1"} \cup Access ELSE {}]
  /\ region = [r \in Reg |-> IF r = Default THEN [at |-> Granule, perm |-> Access]
                             ELSE NoRegion]
  /\ stale = {}

(* The entries whose range changes with pmpaddr: by their own register or, *)
(* with TOR, by the one below.                                             *)
Moved ==
  {q \in Reg : \/ Mode(q) # {} /\ pmpaddr'[q] # pmpaddr[q]
               \/ Mode(q) = {"A0"} /\ q # 0 /\ pmpaddr'[q - 1] # pmpaddr[q - 1]}

(* History of a call for entry r: the entries it moves are stale, and so   *)
(* is r itself when the call cannot have done what it was asked to do.     *)
Asked(r, asked, done) ==
  /\ stale' = IF done THEN (stale \cup Moved) \ {r} ELSE stale \cup Moved \cup {r}
  /\ region' = [q \in Reg |-> IF q \in stale' THEN NoRegion
                              ELSE IF q = r THEN asked ELSE region[q]]

CsrSet(r, bits) == pmpcfg' = [pmpcfg EXCEPT ![r] = @ \cup bits]

(* Mutant: append = pmp_size >> 1.                                         *)
NapotAddrOneMore(start, size) == IF size = 1 THEN start ELSE start + size \div 2

(* pmp_addr |= (pmp_size >> 1) - 1, for a pmp_addr aligned to pmp_size.    *)
NapotAddr(start, size) == IF size = 1 THEN start ELSE start + size \div 2 - 1

(* csr_set leaves bits of an earlier use of the entry where they are.      *)
EnablePmp(r, start, size, perm) ==
  LET bits == perm \cup (IF size = 1 THEN {"A1"} ELSE {"A0", "A1"})
  IN  /\ pmpaddr' = [pmpaddr EXCEPT ![r] = NapotAddr(start, size)]
      /\ CsrSet(r, bits)
      /\ Asked(r, [at |-> start .. start + size - 1, perm |-> perm], pmpcfg[r] \subseteq bits)

(* The end goes to pmpaddr[r] and, if (pmp_reg), the start to the one      *)
(* below, whoever uses it; entry 0 always starts at address 0.             *)
TorAddrs(r, start, size) ==
  [q \in Reg |-> IF q = r THEN start + size
                 ELSE IF q + 1 = r THEN start ELSE pmpaddr[q]]

EnableTor(r, start, size, perm) ==
  LET bits == perm \cup {"A0"}
  IN  /\ pmpaddr' = TorAddrs(r, start, size)
      /\ CsrSet(r, bits)
      /\ Asked(r, [at |-> start .. start + size - 1, perm |-> perm],
               pmpcfg[r] \subseteq bits /\ (r = 0 => start = 0))

(* An NA4 entry at all ones matches no granule; the other modes still do.  *)
DisablePmp(r) ==
  /\ pmpaddr' = [pmpaddr EXCEPT ![r] = AllOnes]
  /\ UNCHANGED pmpcfg
  /\ Asked(r, NoRegion, "A0" \notin pmpcfg[r])

(* Callers may use every entry in every order, the default one and those   *)
(* next to a TOR entry included.                                           *)
Next ==
  \E r \in Reg :
    \/ \E start \in Granule, perm \in Perms, size \in PowerOfTwo :
         /\ start % size = 0 /\ start + size <= Top
         /\ EnablePmp(r, start, size, perm)
    \/ \E start \in Granule, perm \in Perms :
         \E size \in 1 .. Top - start : EnableTor(r, start, size, perm)
    \/ DisablePmp(r)

Spec == Init /\ [][Next]_vars

-----------------------------------------------------------------------------

(* What the comments of pmp.c promise: the region given to enable_pmp or   *)
(* enable_pmp_TOR has the permissions given, the lowest entry first, and   *)
(* by default S-mode may access all memory.                                *)
Promised(g) ==
  LET hit == {r \in Reg : g \in region[r].at}
  IN  IF hit = {} THEN {}
      ELSE region[CHOOSE r \in hit : \A q \in hit : r <= q].perm

(* The hardware enforces what was asked for, with any set of regions, of   *)
(* either kind, overlapping or not, in any order of the calls, where the   *)
(* entries up to the one that decides still hold what they were asked for: *)
(* only an entry that a later call moved, that was enabled with bits of an *)
(* earlier use, disabled while in TOR or NAPOT mode, or used with TOR as   *)
(* entry 0 for a region that does not start at 0, can break the promise.   *)
RegionsRespected ==
  \A g \in Granule :
    (\A r \in stale : \E q \in Reg : q < r /\ g \in region[q].at)
      => Allowed(g) = Promised(g)

(* "disable by setting corresponding pmpaddr to 0xffff_ffff_ffff_ffff": a  *)
(* disabled entry, other than the one init_pmp opened, protects nothing.   *)
DisableAsDocumented ==
  [][\A r \in Reg \ {Default} : DisablePmp(r) => Matches(r)' = {}]_vars
=============================================================================
