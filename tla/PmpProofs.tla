------------------------------- MODULE PmpProofs -------------------------------
(***************************************************************************)
(* The registers of physical memory protection enforce what was asked for, *)
(* for every number of entries, every size of memory and every sequence of *)
(* calls, where no entry up to the one that decides is stale.              *)
(***************************************************************************)
EXTENDS Pmp, Integers, WellFoundedInduction, TLAPS

-----------------------------------------------------------------------------
(* Every set of numbers has a least one: what CHOOSE takes in Allowed and  *)
(* in Promised.                                                            *)
LEMMA LeastElement ==
  ASSUME NEW T \in SUBSET Nat, T # {}
  PROVE  \E x \in T : \A y \in T : x <= y
<1>1. PICK x \in T : \A y \in T : ~ (<<y, x>> \in OpToRel(<, Nat))
  BY NatLessThanWellFounded, WFMin
<1>2. \A y \in T : ~ (y < x)
  BY <1>1 DEF OpToRel
<1> QED BY <1>2

-----------------------------------------------------------------------------
(* Powers of two.                                                          *)

(* Where a number lies when it is divided.                                 *)
LEMMA DivMod ==
  ASSUME NEW n \in Nat \ {0}, NEW a \in Int
  PROVE  a \div n \in Int /\ a % n \in 0 .. n - 1 /\ a = n * (a \div n) + (a % n)
OBVIOUS

LEMMA Remainder ==
  ASSUME NEW n \in Nat \ {0}, NEW q \in Int, NEW r \in 0 .. n - 1
  PROVE  (n * q + r) % n = r /\ (n * q + r) \div n = q
OBVIOUS

(* Half of a power of two is one.                                          *)
LEMMA Half ==
  ASSUME NEW s \in PowerOfTwo, s # 1
  PROVE  /\ s \in Nat /\ s >= 2 /\ s \div 2 \in PowerOfTwo
         /\ s = 2 * (s \div 2) /\ s \div 2 < s
<1> USE SizeAssumption
<1>1. s \in 2 .. 4 * Top /\ \A d \in 2 .. s : s % d = 0 => d % 2 = 0
  BY DEF PowerOfTwo
<1>2. s % s = 0
  <2>1. s * 1 + 0 = s /\ 0 \in 0 .. s - 1 /\ 1 \in Int /\ s \in Nat \ {0} BY <1>1
  <2> QED BY <2>1, Remainder
<1>3. s = 2 * (s \div 2) BY <1>1, <1>2
<1> DEFINE h == s \div 2
<1>4. h \in Nat /\ s = 2 * h /\ h >= 1 /\ h < s BY <1>1, <1>3
<1>5. ASSUME NEW d \in 2 .. h, h % d = 0 PROVE d % 2 = 0
  <2> HIDE DEF h
  <2>1. PICK k \in Int : h = d * k
    <3>1. d \in Nat \ {0} /\ h \in Int BY <1>4
    <3>2. h \div d \in Int /\ h = d * (h \div d) + (h % d) BY <3>1, DivMod, Zenon
    <3>3. h = d * (h \div d) BY <1>4, <1>5, <3>1, <3>2
    <3> QED BY <3>2, <3>3
  <2>2. s = d * (2 * k) + 0 /\ 2 * k \in Int BY <1>4, <2>1
  <2>3. s % d = 0
    <3>1. d \in Nat \ {0} /\ 0 \in 0 .. d - 1 OBVIOUS
    <3> QED BY <2>2, <3>1, Remainder
  <2> QED BY <1>1, <1>4, <2>3
<1>6. h \in PowerOfTwo
  <2> HIDE DEF h
  <2> QED BY <1>1, <1>4, <1>5 DEF PowerOfTwo
<1> QED BY <1>1, <1>4, <1>6

(* The smaller of two powers of two divides half of the larger one: both   *)
(* are halved until the smaller one is 1.                                  *)
LEMMA Chain ==
  ASSUME NEW a \in PowerOfTwo, NEW b \in PowerOfTwo, a < b
  PROVE  \E m \in Nat \ {0} : b = 2 * (a * m)
<1> DEFINE Bad == {y \in PowerOfTwo : \E x \in PowerOfTwo :
                     x < y /\ ~ \E m \in Nat \ {0} : y = 2 * (x * m)}
<1> SUFFICES ASSUME Bad # {} PROVE FALSE
  OBVIOUS
<1>0. PowerOfTwo \in SUBSET (Nat \ {0}) BY SizeAssumption DEF PowerOfTwo
<1>1. PICK y \in Bad : \A z \in Bad : y <= z
  <2>1. Bad \in SUBSET Nat BY <1>0
  <2> HIDE DEF Bad
  <2> QED BY <2>1, LeastElement
<1>2. PICK x \in PowerOfTwo : x < y /\ ~ \E m \in Nat \ {0} : y = 2 * (x * m)
  BY <1>1
<1>3. y \in PowerOfTwo /\ y # 1 BY <1>0, <1>1, <1>2
<1>4. /\ y \in Nat /\ y \div 2 \in PowerOfTwo /\ y = 2 * (y \div 2) /\ y \div 2 < y
  BY <1>3, Half
<1> DEFINE h == y \div 2
<1>5. h \in PowerOfTwo /\ h \in Nat \ {0} /\ y = 2 * h /\ h < y BY <1>0, <1>4
<1>6. CASE x = 1
  <2> HIDE DEF h
  <2>1. y = 2 * (x * h) BY <1>5, <1>6
  <2> QED BY <1>2, <1>5, <2>1
<1>7. CASE x # 1
  <2>1. x \in Nat /\ x \div 2 \in PowerOfTwo /\ x = 2 * (x \div 2) BY <1>7, Half
  <2> DEFINE g == x \div 2
  <2>2. g \in PowerOfTwo /\ g \in Nat /\ x = 2 * g BY <2>1
  <2> HIDE DEF g, h
  <2>3. g < h BY <1>0, <1>2, <1>5, <2>2
  <2>4. h \notin Bad BY <1>0, <1>1, <1>5
  <2>5. PICK m \in Nat \ {0} : h = 2 * (g * m) BY <1>5, <2>2, <2>3, <2>4
  <2>6. y = 2 * (x * m) BY <1>5, <2>2, <2>5
  <2> QED BY <1>2, <2>6
<1> QED BY <1>6, <1>7

(* The low ones of a NAPOT register tell its size, and no other.           *)
LEMMA NapotUnique ==
  ASSUME NEW s \in PowerOfTwo, s # 1, NEW q \in Nat
  PROVE  NapotSize(s * q + (s \div 2 - 1)) = s
<1> DEFINE h == s \div 2
           p == s * q + (h - 1)
<1>0. PowerOfTwo \in SUBSET (Nat \ {0}) BY SizeAssumption DEF PowerOfTwo
<1>1. s \in Nat \ {0} /\ h \in Nat \ {0} /\ s = 2 * h BY <1>0, Half
<1> HIDE DEF h
<1>2. p % s = h - 1 /\ p \in Nat
  <2>1. h - 1 \in 0 .. s - 1 /\ q \in Int /\ s * q \in Nat BY <1>1
  <2>2. (s * q + (h - 1)) % s = h - 1 BY <1>1, <2>1, Remainder, Zenon
  <2> QED BY <1>1, <2>1, <2>2
<1>3. ASSUME NEW t \in PowerOfTwo, t # 1, p % t = t \div 2 - 1
      PROVE  t = s
  <2> DEFINE g == t \div 2
  <2>1. t \in Nat \ {0} /\ g \in Nat \ {0} /\ t = 2 * g /\ p % t = g - 1 BY <1>0, <1>3, Half
  <2> HIDE DEF g, p
  <2>2. CASE t < s
    <3>1. PICK m \in Nat \ {0} : s = 2 * (t * m) BY <1>0, <2>2, Chain
    <3>2. h = t * m
      <4> DEFINE v == t * m
      <4>1. v \in Nat /\ s = 2 * v BY <2>1, <3>1
      <4> HIDE DEF v
      <4>2. h = v BY <1>1, <4>1
      <4> QED BY <4>2 DEF v
    <3> DEFINE u == 2 * (m * q) + (m - 1)
    <3>3. u \in Int /\ t * u + (t - 1) = p
      <4>1. s * q = t * (2 * (m * q)) BY <2>1, <3>1
      <4>2. t * (m - 1) = h - t BY <2>1, <3>2
      <4>3. m * q \in Nat OBVIOUS
      <4>4. u \in Int BY <4>3
      <4>5. t * u = t * (2 * (m * q)) + t * (m - 1) BY <2>1, <4>3
      <4>6. t * u = s * q + (h - t) BY <4>1, <4>2, <4>5
      <4>7. s * q \in Nat /\ t * u \in Int BY <1>1, <2>1, <4>4
      <4> HIDE DEF u
      <4> QED BY <1>1, <2>1, <4>4, <4>6, <4>7 DEF p
    <3> HIDE DEF u
    <3>4. t - 1 \in 0 .. t - 1 BY <2>1
    <3>5. p % t = t - 1 BY <2>1, <3>3, <3>4, Remainder
    <3> QED BY <2>1, <3>5
  <2>3. CASE t > s
    <3>1. PICK m \in Nat \ {0} : t = 2 * (s * m) BY <1>0, <2>3, Chain
    <3>2. g = s * m
      <4> DEFINE v == s * m
      <4>1. v \in Nat /\ t = 2 * v BY <1>1, <3>1
      <4> HIDE DEF v
      <4>2. g = v BY <2>1, <4>1
      <4> QED BY <4>2 DEF v
    <3>3. PICK u \in Int : p = t * u + (g - 1)
      <4>1. p \in Int BY <1>2
      <4>2. p \div t \in Int /\ p = t * (p \div t) + (p % t) BY <2>1, <4>1, DivMod, Zenon
      <4> QED BY <2>1, <4>2
    <3> DEFINE k == 2 * (m * u) + m
    <3>4. k \in Int /\ p = s * k + (s - 1) - (s - 1) - 1
      <4>1. t * u = s * (2 * (m * u)) BY <1>1, <3>1
      <4>2. m * u \in Int OBVIOUS
      <4>3. s * k = s * (2 * (m * u)) + s * m BY <1>1, <4>2
      <4>4. k \in Int BY <4>2
      <4>5. s * k = t * u + g BY <3>2, <4>1, <4>3
      <4>6. s * k \in Int /\ t * u \in Int BY <1>1, <2>1, <4>4
      <4> HIDE DEF k
      <4> QED BY <1>1, <2>1, <3>3, <4>4, <4>5, <4>6
    <3> DEFINE j == k - 1
    <3>5. j \in Int /\ p = s * j + (s - 1)
      <4>1. s * j = s * k - s BY <1>1, <3>4
      <4>2. s * k \in Int BY <1>1, <3>4
      <4> HIDE DEF k, j
      <4>3. p = s * j + (s - 1) BY <1>1, <3>4, <4>1, <4>2
      <4> QED BY <3>4, <4>3 DEF j
    <3> HIDE DEF j
    <3>6. s - 1 \in 0 .. s - 1 BY <1>1
    <3>7. p % s = s - 1 BY <1>1, <3>5, <3>6, Remainder
    <3> QED BY <1>1, <1>2, <3>7
  <2> QED BY <1>1, <2>1, <2>2, <2>3
<1>4. s \in PowerOfTwo \ {1} /\ p % s = s \div 2 - 1 BY <1>2 DEF h
<1>5. \A t \in PowerOfTwo \ {1} : p % t = t \div 2 - 1 => t = s BY <1>3
<1> HIDE DEF p
<1>6. NapotSize(p) = s BY <1>4, <1>5 DEF NapotSize
<1> QED BY <1>6 DEF p, h

(* The granules with the same quotient are a block.                        *)
LEMMA Block ==
  ASSUME NEW s \in Nat \ {0}, NEW q \in Nat, NEW g \in Nat
  PROVE  g \div s = q <=> g \in s * q .. s * q + s - 1
<1>1. s * q \in Nat OBVIOUS
<1>2. ASSUME g \div s = q PROVE g \in s * q .. s * q + s - 1
  <2>1. g \in Int OBVIOUS
  <2>2. g = s * (g \div s) + (g % s) /\ g % s \in 0 .. s - 1 BY <2>1, DivMod, Zenon
  <2>3. g = s * q + (g % s) BY <1>2, <2>2, Zenon
  <2> QED BY <1>1, <2>2, <2>3
<1>3. ASSUME g \in s * q .. s * q + s - 1 PROVE g \div s = q
  <2> DEFINE r == g - s * q
  <2>1. r \in 0 .. s - 1 /\ g = s * q + r BY <1>1, <1>3
  <2> HIDE DEF r
  <2>2. q \in Int OBVIOUS
  <2>3. (s * q + r) \div s = q BY <2>1, <2>2, Remainder, Zenon
  <2> QED BY <2>1, <2>3
<1> QED BY <1>2, <1>3

-----------------------------------------------------------------------------
(* The invariant.                                                          *)

Regions == [at : SUBSET Granule, perm : SUBSET Access]
Bits == {"A0", "A1"} \cup Access

(* Every entry that is not stale matches the region it was given, with the *)
(* permissions it was given.                                               *)
EntryInv(r) ==
  /\ Matches(r) = region[r].at
  /\ region[r].at # {} => pmpcfg[r] \cap Access = region[r].perm

PmpInv ==
  /\ pmpaddr \in [Reg -> Nat]
  /\ pmpcfg \in [Reg -> SUBSET Bits]
  /\ region \in [Reg -> Regions]
  /\ stale \in SUBSET Reg
  /\ \A r \in Reg \ stale : EntryInv(r)

LEMMA Sizes ==
  /\ PmpCount \in Nat /\ Default \in 0 .. PmpCount - 1 /\ Top \in Nat \ {0}
  /\ 4 * Top \in PowerOfTwo /\ PowerOfTwo \in SUBSET (Nat \ {0})
  /\ AllOnes \in Nat /\ AllOnes \notin Granule
<1>1. PmpCount \in Nat /\ Default \in 0 .. PmpCount - 1 /\ Top \in Nat \ {0}
  BY SizeAssumption DEF Reg
<1>2. 4 * Top \in PowerOfTwo BY SizeAssumption
<1>3. PowerOfTwo \in SUBSET (Nat \ {0}) BY <1>1 DEF PowerOfTwo
<1>4. AllOnes \in Nat /\ AllOnes \notin Granule BY <1>1 DEF AllOnes, Granule
<1> QED BY <1>1, <1>2, <1>3, <1>4

(* All ones stand for all of memory.                                       *)
LEMMA DefaultMatches == Init => Matches(Default) = Granule
<1> SUFFICES ASSUME Init PROVE Matches(Default) = Granule
  OBVIOUS
<1>0. Default \in Reg /\ pmpaddr[Default] = AllOnes /\ Mode(Default) = {"A0", "A1"}
  <2>1. Default \in Reg BY SizeAssumption
  <2>2. pmpcfg[Default] = {"A0", "A1"} \cup Access BY <2>1 DEF Init
  <2> QED BY <2>1, <2>2 DEF Init, Mode, Access
<1> DEFINE s == 4 * Top
<1>1. s \in PowerOfTwo /\ s # 1 /\ s \div 2 = 2 * Top /\ s \in Nat \ {0}
  <2>1. s \in PowerOfTwo BY Sizes
  <2>2. Top \in Nat \ {0} BY Sizes
  <2>3. s # 1 /\ s \in Nat \ {0} /\ s \div 2 = 2 * Top BY <2>2
  <2> QED BY <2>1, <2>3
<1>2. s * 0 + (s \div 2 - 1) = AllOnes BY <1>1, Sizes DEF AllOnes
<1>3. NapotSize(AllOnes) = s
  <2>1. NapotSize(s * 0 + (s \div 2 - 1)) = s
    <3> HIDE DEF s
    <3> QED BY <1>1, NapotUnique
  <2> QED BY <1>2, <2>1
<1>4. ASSUME NEW g \in Granule \cup {AllOnes} PROVE g \div s = 0
  <2>1. g \in Nat /\ g \in s * 0 .. s * 0 + s - 1 BY Sizes DEF Granule, AllOnes
  <2> HIDE DEF s
  <2> QED BY <1>1, <2>1, Block
<1>5. \A g \in Granule : g \div NapotSize(pmpaddr[Default])
                           = pmpaddr[Default] \div NapotSize(pmpaddr[Default])
  <2> HIDE DEF s
  <2> QED BY <1>0, <1>3, <1>4
<1> QED BY <1>0, <1>5, Zenon DEF Matches

(* What an entry matches depends on itself and, with TOR, on the one below.*)
LEMMA MatchesLocal ==
  ASSUME NEW r \in Reg, pmpcfg'[r] = pmpcfg[r], r \notin Moved
  PROVE  Matches(r)' = Matches(r)
<1>1. CASE Mode(r) = {"A0"} BY <1>1 DEF Matches, Mode, Moved
<1>2. CASE Mode(r) = {} BY <1>2 DEF Matches, Mode
<1>3. CASE Mode(r) # {"A0"} /\ Mode(r) # {} BY <1>3 DEF Matches, Mode, Moved
<1> QED BY <1>1, <1>2, <1>3

(* A call keeps the invariant if the entry it is for comes out right when  *)
(* it counts as done: the others it moves are stale.                       *)
LEMMA CallKeeps ==
  ASSUME PmpInv, NEW r \in Reg, NEW asked \in Regions, NEW done \in BOOLEAN,
         pmpaddr' \in [Reg -> Nat], pmpcfg' \in [Reg -> SUBSET Bits],
         \A q \in Reg : q # r => pmpcfg'[q] = pmpcfg[q],
         Asked(r, asked, done),
         done => /\ Matches(r)' = asked.at
                 /\ asked.at # {} => pmpcfg'[r] \cap Access = asked.perm
  PROVE  PmpInv'
<1>1. NoRegion \in Regions BY DEF NoRegion, Regions
<1>2. stale' \in SUBSET Reg BY DEF Asked, Moved, PmpInv
<1>3. region' \in [Reg -> Regions] BY <1>1 DEF Asked, PmpInv
<1>4. ASSUME NEW q \in Reg \ stale' PROVE EntryInv(q)'
  <2>1. region'[q] = IF q = r THEN asked ELSE region[q] BY <1>4 DEF Asked
  <2>2. CASE q = r
    <3>1. done BY <1>4, <2>2 DEF Asked
    <3> QED BY <2>1, <2>2, <3>1 DEF EntryInv, Access
  <2>3. CASE q # r
    <3>1. q \notin stale /\ q \notin Moved BY <1>4, <2>3 DEF Asked
    <3>2. Matches(q)' = Matches(q) BY <2>3, <3>1, MatchesLocal
    <3>3. EntryInv(q) BY <3>1 DEF PmpInv
    <3> QED BY <2>1, <2>3, <3>2, <3>3 DEF EntryInv, Access
  <2> QED BY <2>2, <2>3
<1> QED BY <1>2, <1>3, <1>4 DEF PmpInv, Regions, Bits, Granule, Access

(* csr_set: bits are added to one byte of pmpcfg.                          *)
LEMMA CsrSetKeeps ==
  ASSUME PmpInv, NEW r \in Reg, NEW bits \in SUBSET Bits, CsrSet(r, bits)
  PROVE  /\ pmpcfg' \in [Reg -> SUBSET Bits]
         /\ \A q \in Reg : q # r => pmpcfg'[q] = pmpcfg[q]
         /\ pmpcfg[r] \subseteq bits => pmpcfg'[r] = bits
BY DEF CsrSet, PmpInv

(* enable_pmp: the entry matches the block it was given.                   *)
LEMMA EnableKeeps ==
  ASSUME PmpInv, NEW r \in Reg, NEW start \in Granule, NEW perm \in SUBSET Access,
         NEW size \in PowerOfTwo, start % size = 0, start + size <= Top,
         EnablePmp(r, start, size, perm)
  PROVE  PmpInv'
<1> DEFINE p == NapotAddr(start, size)
           c == perm \cup (IF size = 1 THEN {"A1"} ELSE {"A0", "A1"})
           at == start .. start + size - 1
           asked == [at |-> at, perm |-> perm]
<1>1. size \in Nat \ {0} /\ start \in Nat /\ Top \in Nat BY Sizes DEF Granule
<1>2. p \in Nat
  <2>1. CASE size = 1 BY <1>1, <2>1 DEF NapotAddr
  <2>2. CASE size # 1
    <3>1. size \div 2 \in Nat \ {0} BY <2>2, Sizes, Half
    <3> QED BY <1>1, <2>2, <3>1 DEF NapotAddr
  <2> QED BY <2>1, <2>2
<1>3. at \in SUBSET Granule BY <1>1 DEF Granule
<1>4. /\ pmpaddr' = [pmpaddr EXCEPT ![r] = p]
      /\ CsrSet(r, c)
      /\ Asked(r, asked, pmpcfg[r] \subseteq c)
  BY DEF EnablePmp
<1>5. pmpaddr' \in [Reg -> Nat] /\ pmpaddr'[r] = p
  BY <1>2, <1>4 DEF PmpInv
<1>6. c \cap Access = perm /\ c \in SUBSET Bits
      /\ c \cap {"A0", "A1"} = IF size = 1 THEN {"A1"} ELSE {"A0", "A1"}
  BY DEF Access, Bits
<1>7. ASSUME pmpcfg[r] \subseteq c PROVE Matches(r)' = at /\ pmpcfg'[r] = c
  <2>0. pmpcfg'[r] = c BY <1>4, <1>6, <1>7, CsrSetKeeps
  <2>9. Matches(r)' = at
    <3>1. CASE size = 1
      <4>1. at = {start} /\ p = start BY <1>1, <3>1 DEF NapotAddr
      <4>2. Mode(r)' = {"A1"} BY <1>6, <2>0, <3>1 DEF Mode
      <4> HIDE DEF at, c, p
      <4>3. {"A1"} # {"A0"} /\ {"A1"} # {"A0", "A1"} OBVIOUS
      <4>4. Matches(r)' = {h \in Granule : h = p}
        BY <1>5, <4>2, <4>3 DEF Matches, Granule
      <4> QED BY <4>1, <4>4
    <3>2. CASE size # 1
      <4> DEFINE q == start \div size
      <4>1. start = size * q /\ q \in Nat
        <5>1. start \in Int BY <1>1
        <5>2. q \in Int /\ start = size * q + (start % size) BY <1>1, <5>1, DivMod, Zenon
        <5>3. size * q \in Int BY <1>1, <5>2
        <5>4. start = size * q BY <1>1, <5>2, <5>3
        <5> HIDE DEF q
        <5>5. q \in Nat BY <1>1, <5>2, <5>4
        <5> QED BY <5>4, <5>5
      <4> HIDE DEF q
      <4>2. size \div 2 \in Nat \ {0} /\ size = 2 * (size \div 2) BY <3>2, Sizes, Half
      <4>3. p = size * q + (size \div 2 - 1) BY <1>1, <3>2, <4>1, <4>2 DEF NapotAddr
      <4>4. NapotSize(p) = size BY <3>2, <4>1, <4>3, NapotUnique
      <4>5. p \in size * q .. size * q + size - 1
        <5>1. size * q \in Nat BY <4>1, <1>1
        <5> QED BY <1>1, <4>2, <4>3, <5>1
      <4> HIDE DEF p
      <4>6. p \div size = q BY <1>1, <1>2, <4>1, <4>5, Block
      <4>7. \A g \in Granule : g \div size = q <=> g \in at
        <5> SUFFICES ASSUME NEW g \in Granule PROVE g \div size = q <=> g \in at
          OBVIOUS
        <5>1. g \in Nat BY Sizes DEF Granule
        <5>2. g \div size = q <=> g \in size * q .. size * q + size - 1
          BY <1>1, <4>1, <5>1, Block
        <5> QED BY <4>1, <5>2
      <4>8. Mode(r)' = {"A0", "A1"} BY <1>6, <2>0, <3>2 DEF Mode
      <4> HIDE DEF at, c
      <4>9. Matches(r)' = {g \in Granule : g \div size = q}
        <5>1. NapotSize(pmpaddr'[r]) = size /\ pmpaddr'[r] \div NapotSize(pmpaddr'[r]) = q
          BY <1>5, <4>4, <4>6
        <5>2. Matches(r)' = {g \in Granule : g \div NapotSize(pmpaddr'[r])
                                               = pmpaddr'[r] \div NapotSize(pmpaddr'[r])}
          BY <4>8 DEF Matches, Granule
        <5> QED BY <5>1, <5>2
      <4> QED BY <1>3, <4>7, <4>9
    <3> QED BY <3>1, <3>2
  <2> QED BY <2>0, <2>9
<1>8. asked \in Regions /\ asked.at = at /\ asked.perm = perm BY <1>3 DEF Regions
<1>9. (pmpcfg[r] \subseteq c) \in BOOLEAN OBVIOUS
<1>10. /\ pmpcfg' \in [Reg -> SUBSET Bits]
       /\ \A q \in Reg : q # r => pmpcfg'[q] = pmpcfg[q]
  BY <1>4, <1>6, CsrSetKeeps
<1> HIDE DEF c, at, asked
<1> QED BY <1>4, <1>5, <1>6, <1>7, <1>8, <1>9, <1>10, CallKeeps

(* enable_pmp_TOR: the entry and the address below it are its range, with  *)
(* 0 for the address below entry 0.                                        *)
LEMMA EnableTorKeeps ==
  ASSUME PmpInv, NEW r \in Reg, NEW start \in Granule, NEW perm \in SUBSET Access,
         NEW size \in 1 .. Top - start, EnableTor(r, start, size, perm)
  PROVE  PmpInv'
<1> DEFINE c == perm \cup {"A0"}
           at == start .. start + size - 1
           asked == [at |-> at, perm |-> perm]
           done == pmpcfg[r] \subseteq c /\ (r = 0 => start = 0)
<1>1. size \in Nat \ {0} /\ start \in Nat /\ Top \in Nat /\ start + size <= Top
      /\ r \in Nat /\ (r # 0 => r - 1 \in Reg)
  BY Sizes DEF Granule, Reg
<1>2. pmpaddr' = TorAddrs(r, start, size) /\ CsrSet(r, c) /\ Asked(r, asked, done)
  BY DEF EnableTor
<1>3. /\ pmpaddr' \in [Reg -> Nat] /\ pmpaddr'[r] = start + size
      /\ r # 0 => pmpaddr'[r - 1] = start
  BY <1>1, <1>2 DEF TorAddrs, PmpInv
<1>4. at \in SUBSET Granule BY <1>1 DEF Granule
<1>5. c \cap Access = perm /\ c \in SUBSET Bits /\ c \cap {"A0", "A1"} = {"A0"}
  BY DEF Access, Bits
<1>6. ASSUME done PROVE Matches(r)' = at /\ pmpcfg'[r] = c
  <2>1. pmpcfg'[r] = c BY <1>2, <1>5, <1>6, CsrSetKeeps
  <2>2. Mode(r)' = {"A0"} BY <1>5, <2>1 DEF Mode
  <2>3. Matches(r)' = {h \in Granule : start <= h /\ h < start + size}
    <3>1. (IF r = 0 THEN 0 ELSE pmpaddr'[r - 1]) = start BY <1>3, <1>6
    <3> QED BY <1>3, <2>2, <3>1 DEF Matches, Granule
  <2>4. \A h \in Granule : start <= h /\ h < start + size <=> h \in at BY <1>1 DEF Granule
  <2> QED BY <1>4, <2>1, <2>3, <2>4
<1>7. asked \in Regions /\ asked.at = at /\ asked.perm = perm BY <1>4 DEF Regions
<1>8. done \in BOOLEAN OBVIOUS
<1>9. /\ pmpcfg' \in [Reg -> SUBSET Bits]
      /\ \A q \in Reg : q # r => pmpcfg'[q] = pmpcfg[q]
  BY <1>2, <1>5, CsrSetKeeps
<1> HIDE DEF c, at, asked, done
<1> QED BY <1>2, <1>3, <1>5, <1>6, <1>7, <1>8, <1>9, CallKeeps

(* disable_pmp: all ones match nothing in an entry that is off or NA4.     *)
LEMMA DisableKeeps ==
  ASSUME PmpInv, NEW r \in Reg, DisablePmp(r)
  PROVE  PmpInv'
<1>1. pmpaddr' \in [Reg -> Nat] /\ pmpaddr'[r] = AllOnes
  BY Sizes DEF DisablePmp, PmpInv
<1>2. pmpcfg' = pmpcfg /\ pmpcfg' \in [Reg -> SUBSET Bits] BY DEF DisablePmp, PmpInv
<1>3. ASSUME "A0" \notin pmpcfg[r] PROVE Matches(r)' = {}
  <2>1. Mode(r)' = {} \/ Mode(r)' = {"A1"} BY <1>2, <1>3 DEF Mode
  <2>2. \A g \in Granule : g # AllOnes BY Sizes
  <2> QED BY <1>1, <2>1, <2>2 DEF Matches, Granule
<1>4. NoRegion \in Regions /\ NoRegion.at = {} BY DEF NoRegion, Regions
<1>5. ("A0" \notin pmpcfg[r]) \in BOOLEAN OBVIOUS
<1>6. Asked(r, NoRegion, "A0" \notin pmpcfg[r]) BY DEF DisablePmp
<1> QED BY <1>1, <1>2, <1>3, <1>4, <1>5, <1>6, CallKeeps

-----------------------------------------------------------------------------
(* What the invariant is for.                                              *)

(* Let d be the lowest entry whose region has g: below it no entry is      *)
(* stale, so none matches g, and d does.  Without a d no entry is stale    *)
(* and none matches.                                                       *)
LEMMA InvRespects == PmpInv => RegionsRespected
<1> SUFFICES ASSUME PmpInv, NEW g \in Granule,
                    \A r \in stale : \E q \in Reg : q < r /\ g \in region[q].at
             PROVE  Allowed(g) = Promised(g)
  BY DEF RegionsRespected
<1> DEFINE hit == {r \in Reg : g \in Matches(r)}
           asked == {r \in Reg : g \in region[r].at}
           Lowest(S) == CHOOSE r \in S : \A q \in S : r <= q
<1>0. Reg \in SUBSET Nat BY Sizes DEF Reg
<1>1. \A r \in Reg \ stale : g \in Matches(r) <=> g \in region[r].at
  BY DEF PmpInv, EntryInv
<1>2. CASE asked = {}
  <2>1. stale = {} BY <1>2
  <2>2. hit = {} BY <1>1, <1>2, <2>1
  <2>3. Allowed(g) = {} BY <2>2 DEF Allowed
  <2>4. Promised(g) = {} BY <1>2 DEF Promised
  <2> QED BY <2>3, <2>4
<1>3. CASE asked # {}
  <2>1. PICK r \in asked : \A q \in asked : r <= q
    <3> HIDE DEF asked
    <3>1. asked \in SUBSET Nat BY <1>0 DEF asked
    <3> QED BY <1>3, <3>1, LeastElement
  <2>2. r \in Nat /\ r \in Reg /\ asked \in SUBSET Nat /\ hit \in SUBSET Nat
    BY <1>0, <2>1
  <2>3. \A q \in Reg : q <= r => q \notin stale
    <3> SUFFICES ASSUME NEW q \in stale, q <= r PROVE FALSE
      BY DEF PmpInv
    <3>1. PICK x \in Reg : x < q /\ g \in region[x].at OBVIOUS
    <3>2. x \in asked /\ r <= x BY <2>1, <3>1
    <3>3. q \in Nat /\ x \in Nat BY <1>0, <3>1 DEF PmpInv
    <3> QED BY <2>2, <3>1, <3>2, <3>3
  <2>4. r \in hit /\ \A q \in hit : r <= q
    <3>1. r \in hit BY <1>1, <2>1, <2>2, <2>3
    <3>2. ASSUME NEW q \in hit, ~ (r <= q) PROVE FALSE
      <4>1. q \in Reg /\ q <= r BY <1>0, <2>2, <3>2
      <4>2. q \in asked BY <1>1, <2>3, <3>2, <4>1
      <4> QED BY <2>1, <3>2, <4>2
    <3> QED BY <3>1, <3>2
  <2> HIDE DEF asked, hit
  <2>5. Lowest(asked) = r
    <3>1. \A x \in asked : (\A q \in asked : x <= q) => x = r BY <2>1, <2>2
    <3> QED BY <2>1, <3>1
  <2>6. Lowest(hit) = r
    <3>1. \A x \in hit : (\A q \in hit : x <= q) => x = r BY <2>2, <2>4
    <3> QED BY <2>4, <3>1
  <2>7. Allowed(g) = pmpcfg[Lowest(hit)] \cap Access BY <2>4 DEF Allowed, hit
  <2>8. Promised(g) = region[Lowest(asked)].perm BY <1>3 DEF Promised, asked
  <2>9. pmpcfg[r] \cap Access = region[r].perm
    <3>1. EntryInv(r) BY <2>2, <2>3 DEF PmpInv
    <3> QED BY <2>1, <3>1 DEF EntryInv, asked
  <2> QED BY <2>5, <2>6, <2>7, <2>8, <2>9
<1> QED BY <1>2, <1>3

(* init_pmp leaves every entry but the default one without a mode.         *)
LEMMA InitInv == Init => PmpInv
<1> SUFFICES ASSUME Init PROVE PmpInv
  OBVIOUS
<1>0. Default \in Reg /\ AllOnes \in Nat BY Sizes DEF Reg
<1>1. /\ pmpaddr \in [Reg -> Nat]
      /\ pmpcfg \in [Reg -> SUBSET Bits]
      /\ region \in [Reg -> Regions]
  BY <1>0 DEF Init, NoRegion, Regions, Bits
<1>2. ASSUME NEW r \in Reg PROVE EntryInv(r)
  <2>1. CASE r = Default
    <3>1. /\ pmpcfg[r] = {"A0", "A1"} \cup Access
          /\ region[r] = [at |-> Granule, perm |-> Access]
      BY <2>1, <1>0 DEF Init
    <3>2. Matches(r) = Granule BY <2>1, DefaultMatches
    <3> QED BY <3>1, <3>2 DEF EntryInv, Access
  <2>2. CASE r # Default
    <3>1. pmpcfg[r] = {} /\ region[r] = NoRegion BY <2>2 DEF Init
    <3>2. Matches(r) = {} BY <3>1 DEF Matches, Mode
    <3> QED BY <3>1, <3>2 DEF EntryInv, NoRegion
  <2> QED BY <2>1, <2>2
<1> QED BY <1>1, <1>2 DEF Init, PmpInv

(* Every entry that is not stale matches exactly the region it was last    *)
(* asked to protect, whatever calls are made in whatever order ...         *)
THEOREM PmpInductive == Spec => []PmpInv
<1>1. PmpInv /\ [Next]_vars => PmpInv'
  <2> SUFFICES ASSUME PmpInv, [Next]_vars PROVE PmpInv'
    OBVIOUS
  <2>1. CASE UNCHANGED vars
    <3>1. \A r \in Reg : Matches(r)' = Matches(r) BY <2>1 DEF vars, Matches, Mode
    <3> QED BY <2>1, <3>1 DEF vars, PmpInv, EntryInv, Regions, Bits, Granule, Access
  <2>2. CASE Next
    <3>1. PICK r \in Reg :
            \/ \E start \in Granule, perm \in Perms, size \in PowerOfTwo :
                 /\ start % size = 0 /\ start + size <= Top
                 /\ EnablePmp(r, start, size, perm)
            \/ \E start \in Granule, perm \in Perms :
                 \E size \in 1 .. Top - start : EnableTor(r, start, size, perm)
            \/ DisablePmp(r)
      BY <2>2 DEF Next
    <3>2. Perms \in SUBSET SUBSET Access BY PermsAssumption
    <3> QED BY <3>1, <3>2, EnableKeeps, EnableTorKeeps, DisableKeeps, Zenon
  <2> QED BY <2>1, <2>2
<1> QED BY <1>1, InitInv, PTL DEF Spec

(* ... so that every access is allowed or not as was asked, the lowest     *)
(* region first, where no entry up to the one that decides is stale.       *)
THEOREM RegionsAreRespected == Spec => []RegionsRespected
BY PmpInductive, InvRespects, PTL
=============================================================================
