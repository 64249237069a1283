--------------------------- MODULE RiscvVmeProofs ---------------------------
(***************************************************************************)
(* Proofs about RiscvVme, for any number of spaces, tables and pages.      *)
(*                                                                         *)
(* Whatever the layout of segments[]: types, translations that never       *)
(* change, and a kernel that is mapped everywhere.  If the kernel has      *)
(* nothing below the root entries of user space (RootsDisjoint), the page  *)
(* tables implement separate address spaces.                               *)
(***************************************************************************)
EXTENDS RiscvVme, TLAPS

USE KernelAssumption, AreaAssumption, NoneAssumption

(* A virtual page is determined by its two indices.                        *)
LEMMA Pages ==
  /\ \A va \in Va : va[1] \in RootIdx /\ va[2] \in LeafIdx /\ va = <<va[1], va[2]>>
  /\ \A area \in SUBSET Va : \A va \in area : va[1] \in RootOf(area)
  /\ \A area \in SUBSET Va : RootOf(area) \subseteq RootIdx
  BY DEF Va, RootOf

(* The calls of _map that the programs make.                               *)
MapCall(a, va) ==
  \/ a \in User /\ va \in UserArea
  \/ a = Kernel /\ va \in KernelExtra /\ live = {Kernel}

(* A step of the system is the boot, a new space, or a call of _map.       *)
LEMMA Steps ==
  ASSUME Next
  PROVE  \/ VmeInit
         \/ \E a \in User : Protect(a)
         \/ \E a \in Space, va \in Va, pa \in Target : MapCall(a, va) /\ Map(a, va, pa)
<1>1. User \subseteq Space /\ Kernel \in Space /\ Frame \subseteq Target
  BY DEF Space, Target
<1>2. ASSUME MapUser
      PROVE  \E a \in Space, va \in Va, pa \in Target : MapCall(a, va) /\ Map(a, va, pa)
  BY <1>1, <1>2 DEF MapUser, MapCall
<1>3. ASSUME MapKernel
      PROVE  \E a \in Space, va \in Va, pa \in Target : MapCall(a, va) /\ Map(a, va, pa)
  BY <1>1, <1>3 DEF MapKernel, MapCall
<1> QED BY <1>2, <1>3 DEF Next

(* What _map does to the root pages: at most one entry changes, from       *)
(* invalid to a table nobody uses.                                         *)
LEMMA MapRoots ==
  ASSUME TypeOK, NEW a \in Space, NEW va \in Va, NEW pa \in Target, Map(a, va, pa)
  PROVE  /\ live' = live
         /\ \A b \in Space, i \in RootIdx : b # a \/ i # va[1] => dir'[b][i] = dir[b][i]
         /\ dir'[a][va[1]] \in Table
         /\ \/ dir'[a][va[1]] = dir[a][va[1]]
            \/ dir[a][va[1]] = None /\ dir'[a][va[1]] \notin InUse
         /\ TypeOK'
<1>0. va[1] \in RootIdx /\ va[2] \in LeafIdx BY Pages
<1>1. live' = live /\ a \in live BY DEF Map
<1>2. CASE /\ dir[a][va[1]] # None
           /\ SetLeaf(dir[a][va[1]], va[2], pa)
           /\ UNCHANGED dir
  BY <1>0, <1>1, <1>2 DEF TypeOK, SetLeaf
<1>3. CASE /\ dir[a][va[1]] = None
           /\ \E t \in NewPages :
                /\ dir' = [dir EXCEPT ![a][va[1]] = t]
                /\ tab' = [tab EXCEPT ![t] =
                             [j \in LeafIdx |-> IF j = va[2] THEN pa ELSE None]]
  <2>1. PICK t \in Table \ InUse :
           /\ dir' = [dir EXCEPT ![a][va[1]] = t]
           /\ tab' = [tab EXCEPT ![t] =
                        [j \in LeafIdx |-> IF j = va[2] THEN pa ELSE None]]
    BY <1>3 DEF NewPages
  <2>2. /\ dir'[a][va[1]] = t
        /\ \A b \in Space, i \in RootIdx : b # a \/ i # va[1] => dir'[b][i] = dir[b][i]
        /\ dir' \in [Space -> [RootIdx -> Table \cup {None}]]
    BY <1>0, <2>1 DEF TypeOK
  <2>3. tab' \in [Table -> [LeafIdx -> Target \cup {None}]]
    BY <2>1 DEF TypeOK
  <2> QED BY <1>1, <1>3, <2>1, <2>2, <2>3 DEF TypeOK
<1> QED BY <1>2, <1>3 DEF Map

-----------------------------------------------------------------------------
(* What holds for every layout of segments[], XiangShan's included, where  *)
(* the kernel and user space share a root entry.                           *)

(* A table hangs below one root index only.                                *)
OneIndex ==
  \A a, b \in Space, i, k \in RootIdx :
    dir[a][i] # None /\ dir[a][i] = dir[b][k] => i = k

(* A space has the tables of kas wherever kas has one ...                  *)
Shared ==
  \A a \in live, i \in RootIdx :
    dir[Kernel][i] # None => dir[a][i] = dir[Kernel][i]

(* ... and elsewhere only user pages.                                      *)
UserEntries ==
  \A a \in Space, i \in RootIdx, j \in LeafIdx :
    dir[a][i] \notin {None, dir[Kernel][i]} /\ tab[dir[a][i]][j] # None =>
      <<i, j>> \in UserArea

LayoutInv == TypeOK /\ BeforeLife /\ OneIndex /\ Shared /\ UserEntries

(* Boot fills the root page of kas.                                        *)
LEMMA VmeInitLayout ==
  ASSUME LayoutInv, VmeInit
  PROVE  LayoutInv'
<1>1. PICK f \in [RootOf(Segments) -> Table] :
        /\ \A i, k \in RootOf(Segments) : f[i] = f[k] => i = k
        /\ dir' = [dir EXCEPT ![Kernel] =
                     [i \in RootIdx |-> IF i \in RootOf(Segments) THEN f[i] ELSE None]]
        /\ tab' = [t \in Table |-> [j \in LeafIdx |->
                     IF SegmentsAt(f, t, j) = {} THEN None
                     ELSE CHOOSE va \in SegmentsAt(f, t, j) : TRUE]]
  BY DEF VmeInit
<1>2. live = {} /\ live' = {Kernel} /\ Kernel \in Space BY DEF VmeInit, Space
<1>3. \A a \in Space, i \in RootIdx : dir[a][i] = None
  BY <1>2 DEF LayoutInv, BeforeLife
<1>4. /\ \A i \in RootIdx :
           dir'[Kernel][i] = IF i \in RootOf(Segments) THEN f[i] ELSE None
      /\ \A a \in Space \ {Kernel}, i \in RootIdx : dir'[a][i] = None
      /\ dir' \in [Space -> [RootIdx -> Table \cup {None}]]
  BY <1>1, <1>2, <1>3 DEF LayoutInv, TypeOK
<1>5. tab' \in [Table -> [LeafIdx -> Target \cup {None}]]
  <2>1. \A t \in Table, j \in LeafIdx : SegmentsAt(f, t, j) \subseteq Target
    BY DEF SegmentsAt, Target
  <2> QED BY <1>1, <2>1
<1>6. TypeOK' BY <1>2, <1>4, <1>5 DEF TypeOK, Space
<1>7. BeforeLife' BY <1>2, <1>4 DEF BeforeLife, Space
<1>8. OneIndex'
  BY <1>1, <1>4 DEF OneIndex, Space
<1>9. Shared' BY <1>2 DEF Shared
<1>10. UserEntries' BY <1>4 DEF UserEntries, Space
<1> QED BY <1>6, <1>7, <1>8, <1>9, <1>10 DEF LayoutInv

(* A copy of the root page of kas has the tables of kas, and no others.    *)
LEMMA ProtectLayout ==
  ASSUME LayoutInv, NEW a \in User, Protect(a)
  PROVE  LayoutInv'
<1>1. /\ Kernel \in live /\ a \notin live
      /\ live' = live \cup {a}
      /\ dir' = [dir EXCEPT ![a] = dir[Kernel]]
      /\ tab' = tab
      /\ a \in Space /\ Kernel \in Space /\ a # Kernel
  BY DEF Protect, Space
<1>2. TypeOK' BY <1>1 DEF LayoutInv, TypeOK
<1>3. /\ dir'[a] = dir[Kernel] /\ dir'[Kernel] = dir[Kernel]
      /\ \A b \in Space \ {a} : dir'[b] = dir[b]
  BY <1>1 DEF LayoutInv, TypeOK
<1>4. BeforeLife' BY <1>1, <1>3 DEF LayoutInv, BeforeLife
<1>5. OneIndex' BY <1>1, <1>3 DEF LayoutInv, OneIndex
<1>6. Shared' BY <1>1, <1>3 DEF LayoutInv, TypeOK, Shared
<1>7. UserEntries' BY <1>1, <1>3 DEF LayoutInv, UserEntries
<1> QED BY <1>2, <1>4, <1>5, <1>6, <1>7 DEF LayoutInv

(* What _map does to the leaf entries: at most the one asked for changes,  *)
(* from invalid, unless the table is a new one, of which only that entry   *)
(* is valid.                                                               *)
LEMMA MapLeaves ==
  ASSUME TypeOK, NEW a \in Space, NEW va \in Va, NEW pa \in Target, Map(a, va, pa)
  PROVE  LET t == dir'[a][va[1]] IN
           /\ \A u \in Table \ {t} : tab'[u] = tab[u]
           /\ dir[a][va[1]] # None =>
                \A j \in LeafIdx : tab[t][j] # None \/ j # va[2] => tab'[t][j] = tab[t][j]
           /\ dir[a][va[1]] = None =>
                t \notin InUse /\ \A j \in LeafIdx \ {va[2]} : tab'[t][j] = None
<1>0. va[1] \in RootIdx /\ va[2] \in LeafIdx BY Pages
<1>1. CASE /\ dir[a][va[1]] # None
           /\ SetLeaf(dir[a][va[1]], va[2], pa)
           /\ UNCHANGED dir
  BY <1>0, <1>1 DEF TypeOK, SetLeaf
<1>2. CASE /\ dir[a][va[1]] = None
           /\ \E t \in NewPages :
                /\ dir' = [dir EXCEPT ![a][va[1]] = t]
                /\ tab' = [tab EXCEPT ![t] =
                             [j \in LeafIdx |-> IF j = va[2] THEN pa ELSE None]]
  BY <1>0, <1>2 DEF TypeOK, NewPages
<1> QED BY <1>1, <1>2 DEF Map

(* A call of _map for a user page leaves the root entries of kas alone; a  *)
(* call for a kernel page comes before there is another space.             *)
LEMMA MapLayout ==
  ASSUME LayoutInv, NEW a \in Space, NEW va \in Va, NEW pa \in Target,
         MapCall(a, va), Map(a, va, pa)
  PROVE  LayoutInv'
<1>0. va[1] \in RootIdx /\ va[2] \in LeafIdx /\ va = <<va[1], va[2]>> /\ a \in live
      /\ Kernel \in Space
  BY Pages DEF Map, Space
<1>1. /\ live' = live
      /\ \A b \in Space, i \in RootIdx : b # a \/ i # va[1] => dir'[b][i] = dir[b][i]
      /\ dir'[a][va[1]] \in Table
      /\ \/ dir'[a][va[1]] = dir[a][va[1]]
         \/ dir[a][va[1]] = None /\ dir'[a][va[1]] \notin InUse
      /\ TypeOK'
  BY MapRoots DEF LayoutInv
<1>2. BeforeLife' BY <1>0, <1>1 DEF LayoutInv, BeforeLife
<1>3. \A b \in Space, i \in RootIdx :
        dir[b][i] # None /\ dir[b][i] = dir'[a][va[1]] => i = va[1]
  <2> SUFFICES ASSUME NEW b \in Space, NEW i \in RootIdx,
                      dir[b][i] # None, dir[b][i] = dir'[a][va[1]]
               PROVE  i = va[1]
    OBVIOUS
  <2>1. dir'[a][va[1]] \in InUse BY DEF InUse
  <2>2. dir[b][i] = dir[a][va[1]] BY <1>1, <2>1
  <2>3. va[1] \in RootIdx BY <1>0
  <2> QED BY <2>2, <2>3 DEF LayoutInv, OneIndex
<1>4. OneIndex'
  <2> SUFFICES ASSUME NEW b \in Space, NEW c \in Space, NEW i \in RootIdx, NEW k \in RootIdx,
                      dir'[b][i] # None, dir'[b][i] = dir'[c][k]
               PROVE  i = k
    BY DEF OneIndex
  <2>1. CASE b = a /\ i = va[1] BY <1>1, <1>3, <2>1
  <2>2. CASE c = a /\ k = va[1] BY <1>1, <1>3, <2>2
  <2>3. CASE ~ (b = a /\ i = va[1]) /\ ~ (c = a /\ k = va[1])
    BY <1>1, <2>3 DEF LayoutInv, OneIndex
  <2> QED BY <2>1, <2>2, <2>3
<1>5. CASE a \in User /\ va \in UserArea
  <2>1. \A i \in RootIdx : dir'[Kernel][i] = dir[Kernel][i] BY <1>0, <1>1, <1>5
  <2>2. Shared'
    <3> SUFFICES ASSUME NEW b \in live, NEW i \in RootIdx, dir[Kernel][i] # None
                 PROVE  dir'[b][i] = dir[Kernel][i]
      BY <1>1, <2>1 DEF Shared
    <3>1. b \in Space /\ dir[b][i] = dir[Kernel][i] BY DEF LayoutInv, TypeOK, Shared
    <3> QED BY <1>1, <3>1
  <2>3. UserEntries'
    <3> SUFFICES ASSUME NEW b \in Space, NEW i \in RootIdx, NEW j \in LeafIdx,
                        dir'[b][i] \notin {None, dir[Kernel][i]}, tab'[dir'[b][i]][j] # None
                 PROVE  <<i, j>> \in UserArea
      BY <2>1 DEF UserEntries
    <3> DEFINE t == dir'[a][va[1]]
    <3>1. dir'[b][i] \in Table BY <1>1 DEF TypeOK
    <3>2. CASE dir'[b][i] # t
      <4>1. dir'[b][i] = dir[b][i] BY <1>1, <3>2
      <4>2. tab'[dir'[b][i]] = tab[dir[b][i]] BY <3>1, <3>2, <4>1, MapLeaves DEF LayoutInv
      <4> QED BY <4>1, <4>2 DEF LayoutInv, UserEntries
    <3>3. CASE dir'[b][i] = t
      <4>1. i = va[1] BY <1>0, <1>1, <1>4, <3>3 DEF OneIndex
      <4>2. CASE j = va[2] BY <1>0, <1>5, <4>1, <4>2
      <4>3. CASE j # va[2] /\ dir[a][va[1]] = None
        BY <3>3, <4>3, MapLeaves DEF LayoutInv
      <4>4. CASE j # va[2] /\ dir[a][va[1]] # None
        <5>1. t = dir[a][va[1]] /\ tab'[t][j] = tab[t][j]
          BY <1>1, <4>4, MapLeaves DEF LayoutInv
        <5> QED BY <3>3, <4>1, <5>1 DEF LayoutInv, UserEntries
      <4> QED BY <4>2, <4>3, <4>4
    <3> QED BY <3>2, <3>3
  <2> QED BY <1>1, <1>2, <1>4, <2>2, <2>3 DEF LayoutInv
<1>6. CASE a = Kernel /\ live = {Kernel}
  <2>1. Shared' BY <1>1, <1>6 DEF Shared
  <2>2. \A b \in Space \ {Kernel}, i \in RootIdx : dir'[b][i] = None
    BY <1>1, <1>6 DEF LayoutInv, BeforeLife
  <2>3. UserEntries' BY <2>2 DEF UserEntries
  <2> QED BY <1>1, <1>2, <1>4, <2>1, <2>3 DEF LayoutInv
<1> QED BY <1>5, <1>6 DEF MapCall

(* The invariant of the page tables that no layout can break.              *)
THEOREM LayoutInductive == Spec => []LayoutInv
<1>1. Init => LayoutInv
  BY Pages DEF Init, LayoutInv, TypeOK, BeforeLife, OneIndex, Shared, UserEntries, Space
<1>2. LayoutInv /\ [Next]_vars => LayoutInv'
  <2>1. LayoutInv /\ UNCHANGED vars => LayoutInv'
    BY DEF vars, LayoutInv, TypeOK, BeforeLife, OneIndex, Shared, UserEntries
  <2>2. LayoutInv /\ Next => LayoutInv'
    BY Steps, VmeInitLayout, ProtectLayout, MapLayout
  <2> QED BY <2>1, <2>2
<1> QED BY <1>1, <1>2, PTL DEF Spec

(* The page tables keep their types in every layout: a root entry points   *)
(* to a table, never straight to a page (_map walks all the levels).       *)
THEOREM TypeCorrect == Spec => []TypeOK
<1>1. LayoutInv => TypeOK BY DEF LayoutInv
<1> QED BY <1>1, LayoutInductive, PTL

(* A translation that is valid stays as it is, in every space and every    *)
(* layout: _map never has to flush one.                                    *)
THEOREM Stable == Spec => TranslationsStable
<1>1. ASSUME LayoutInv, Next, NEW b \in live, NEW w \in Va, Walk(b, w) # None
      PROVE  Walk(b, w)' = Walk(b, w)
  <2>0. /\ b \in Space /\ w[1] \in RootIdx /\ w[2] \in LeafIdx
        /\ dir[b][w[1]] \in Table /\ dir[b][w[1]] # None
        /\ tab[dir[b][w[1]]][w[2]] # None
    BY <1>1, Pages DEF LayoutInv, TypeOK, Walk
  <2>1. CASE VmeInit BY <1>1, <2>1 DEF VmeInit
  <2>2. ASSUME NEW a \in User, Protect(a) PROVE Walk(b, w)' = Walk(b, w)
    <3>1. b # a /\ tab' = tab /\ dir'[b] = dir[b]
      BY <1>1, <2>0, <2>2 DEF Protect, LayoutInv, TypeOK
    <3> QED BY <3>1 DEF Walk
  <2>3. ASSUME NEW a \in Space, NEW va \in Va, NEW pa \in Target,
               MapCall(a, va), Map(a, va, pa)
        PROVE  Walk(b, w)' = Walk(b, w)
    <3>1. va[1] \in RootIdx /\ va[2] \in LeafIdx BY Pages
    <3>2. dir'[b][w[1]] = dir[b][w[1]]
      BY <1>1, <2>0, <2>3, MapRoots DEF LayoutInv
    <3>3. dir[b][w[1]] \in InUse BY <2>0 DEF InUse
    <3>4. tab'[dir[b][w[1]]][w[2]] = tab[dir[b][w[1]]][w[2]]
      <4>1. CASE dir[b][w[1]] # dir'[a][va[1]]
        BY <1>1, <2>0, <2>3, <4>1, MapLeaves DEF LayoutInv
      <4>2. CASE dir[b][w[1]] = dir'[a][va[1]]
        BY <1>1, <2>0, <2>3, <3>3, <4>2, MapLeaves DEF LayoutInv
      <4> QED BY <4>1, <4>2
    <3> QED BY <2>0, <3>2, <3>4 DEF Walk
  <2> QED BY <1>1, <2>1, <2>2, <2>3, Steps
<1>2. LayoutInv /\ [Next]_vars =>
        [\A a \in live : \A va \in Va :
           Walk(a, va) # None => Walk(a, va)' = Walk(a, va)]_vars
  BY <1>1
<1> QED BY <1>2, LayoutInductive, PTL DEF Spec, TranslationsStable

(* Every space maps the kernel's pages outside user space as kas does, in  *)
(* every layout, so a trap taken in any of them finds its handler          *)
(* (_protect copies the root page of kas).                                 *)
THEOREM KernelMapped == Spec => []KernelMappedEverywhere
<1>1. ASSUME LayoutInv, NEW a \in live, NEW va \in Segments \cup KernelExtra, va \notin UserArea
      PROVE  Walk(a, va) = Walk(Kernel, va)
  <2>1. /\ a \in Space /\ va \in Va /\ va[1] \in RootIdx /\ va[2] \in LeafIdx
        /\ va = <<va[1], va[2]>>
    BY <1>1, Pages DEF LayoutInv, TypeOK
  <2>2. CASE dir[Kernel][va[1]] # None
    BY <1>1, <2>1, <2>2 DEF LayoutInv, Shared, Walk
  <2>3. CASE dir[Kernel][va[1]] = None
    BY <1>1, <2>1, <2>3 DEF LayoutInv, UserEntries, Walk
  <2> QED BY <2>2, <2>3
<1>2. LayoutInv => KernelMappedEverywhere BY <1>1 DEF KernelMappedEverywhere
<1> QED BY <1>2, LayoutInductive, PTL

-----------------------------------------------------------------------------
(* What needs RootsDisjoint.                                               *)

(* Before _vme_init every root page is empty.                              *)
LEMMA InitInv == Init => IInv
  BY DEF Init, IInv, TypeOK, BeforeLife, KernelHalf, Ownership, Target, Space, RootOf, Va

(* _vme_init gives each root entry of a segment a table of its own.        *)
LEMMA VmeInitInv ==
  ASSUME RootsDisjoint, IInv, VmeInit
  PROVE  IInv'
<1>1. PICK f \in [RootOf(Segments) -> Table] :
        /\ \A i, k \in RootOf(Segments) : f[i] = f[k] => i = k
        /\ dir' = [dir EXCEPT ![Kernel] =
                     [i \in RootIdx |-> IF i \in RootOf(Segments) THEN f[i] ELSE None]]
        /\ tab' = [t \in Table |-> [j \in LeafIdx |->
                     IF SegmentsAt(f, t, j) = {} THEN None
                     ELSE CHOOSE va \in SegmentsAt(f, t, j) : TRUE]]
  BY DEF VmeInit
<1>2. live = {} /\ live' = {Kernel} BY DEF VmeInit
<1>3. \A a \in Space, i \in RootIdx : dir[a][i] = None
  BY <1>2 DEF IInv, BeforeLife
<1>4. /\ \A i \in RootIdx :
           dir'[Kernel][i] = IF i \in RootOf(Segments) THEN f[i] ELSE None
      /\ \A a \in User : dir'[a] = dir[a]
      /\ dir' \in [Space -> [RootIdx -> Table \cup {None}]]
  BY <1>1 DEF IInv, TypeOK, Space
<1>5. tab' \in [Table -> [LeafIdx -> Target \cup {None}]]
  <2>1. \A t \in Table, j \in LeafIdx : SegmentsAt(f, t, j) \subseteq Target
    BY DEF SegmentsAt, Target
  <2> QED BY <1>1, <2>1
<1>6. TypeOK' BY <1>2, <1>4, <1>5 DEF TypeOK, Space
<1>7. BeforeLife' BY <1>2, <1>3, <1>4 DEF BeforeLife, Space
<1>8. KernelHalf'
  <2>1. \A i \in RootOf(UserArea) : i \in RootIdx /\ i \notin RootOf(Segments)
    BY Pages DEF RootsDisjoint, RootOf
  <2> QED BY <1>2, <1>4, <2>1 DEF KernelHalf
<1>9. Ownership'
  <2> SUFFICES ASSUME NEW a \in Space, NEW b \in Space, NEW i \in RootIdx, NEW k \in RootIdx,
                      dir'[a][i] # None, dir'[a][i] = dir'[b][k]
               PROVE  i = k /\ (i \in RootOf(UserArea) => a = b)
    BY DEF Ownership
  <2>1. a = Kernel /\ b = Kernel BY <1>3, <1>4 DEF Space
  <2>2. i \in RootOf(Segments) /\ k \in RootOf(Segments) /\ f[i] = f[k] BY <1>4, <2>1
  <2> QED BY <1>1, <2>1, <2>2
<1> QED BY <1>6, <1>7, <1>8, <1>9 DEF IInv

(* The copied root entries lie outside user space, where sharing is allowed.*)
LEMMA ProtectInv ==
  ASSUME IInv, NEW a \in User, Protect(a)
  PROVE  IInv'
<1>1. /\ Kernel \in live /\ a \notin live
      /\ live' = live \cup {a}
      /\ dir' = [dir EXCEPT ![a] = dir[Kernel]]
      /\ tab' = tab
      /\ a \in Space /\ Kernel \in Space /\ a # Kernel
  BY DEF Protect, Space
<1>2. TypeOK' BY <1>1 DEF IInv, TypeOK
<1>3. /\ dir'[a] = dir[Kernel]
      /\ \A b \in Space \ {a} : dir'[b] = dir[b]
  BY <1>1 DEF IInv, TypeOK
<1>4. BeforeLife' BY <1>1, <1>3 DEF IInv, BeforeLife
<1>5. KernelHalf' BY <1>1, <1>3 DEF IInv, TypeOK, KernelHalf
<1>6. Ownership'
  <2> SUFFICES ASSUME NEW b \in Space, NEW c \in Space, NEW i \in RootIdx, NEW k \in RootIdx,
                      dir'[b][i] # None, dir'[b][i] = dir'[c][k]
               PROVE  i = k /\ (i \in RootOf(UserArea) => b = c)
    BY DEF Ownership
  <2> DEFINE origin(s) == IF s = a THEN Kernel ELSE s
  <2>1. \A s \in Space, n \in RootIdx : origin(s) \in Space /\ dir'[s][n] = dir[origin(s)][n]
    BY <1>1, <1>3
  <2>2. i = k
    <3>1. dir[origin(b)][i] # None /\ dir[origin(b)][i] = dir[origin(c)][k] BY <2>1
    <3> HIDE DEF origin
    <3> QED BY <2>1, <3>1 DEF IInv, Ownership
  <2>3. ASSUME i \in RootOf(UserArea) PROVE b = c
    <3>1. dir[Kernel][i] = None BY <2>3 DEF IInv, KernelHalf
    <3>2. b # a /\ c # a BY <1>3, <2>2, <3>1
    <3> QED BY <1>3, <2>3, <3>2 DEF IInv, Ownership
  <2> QED BY <2>2, <2>3
<1> QED BY <1>2, <1>4, <1>5, <1>6 DEF IInv

(* A call of _map puts a fresh table into user space, or into kas alone.   *)
LEMMA MapInv ==
  ASSUME RootsDisjoint, IInv, NEW a \in Space, NEW va \in Va, NEW pa \in Target,
         MapCall(a, va), Map(a, va, pa)
  PROVE  IInv'
<1>0. va[1] \in RootIdx /\ a \in live BY Pages DEF Map
<1>1. /\ live' = live
      /\ \A b \in Space, i \in RootIdx : b # a \/ i # va[1] => dir'[b][i] = dir[b][i]
      /\ dir'[a][va[1]] \in Table
      /\ \/ dir'[a][va[1]] = dir[a][va[1]]
         \/ dir[a][va[1]] = None /\ dir'[a][va[1]] \notin InUse
      /\ TypeOK'
  BY MapRoots DEF IInv
<1>2. \/ a \in User /\ va[1] \in RootOf(UserArea)
      \/ a = Kernel /\ va[1] \notin RootOf(UserArea) /\ live = {Kernel}
  BY Pages DEF MapCall, RootsDisjoint, RootOf
<1>3. BeforeLife' BY <1>0, <1>1 DEF IInv, BeforeLife
<1>4. KernelHalf'
  <2>1. RootOf(UserArea) \subseteq RootIdx /\ Kernel \in Space BY Pages DEF Space
  <2>2. \A i \in RootOf(UserArea) : dir'[Kernel][i] = None
    BY <1>1, <1>2, <2>1 DEF IInv, KernelHalf
  <2>3. ASSUME NEW b \in live, NEW i \in RootIdx \ RootOf(UserArea)
        PROVE  dir'[b][i] = dir'[Kernel][i]
    <3>1. b \in Space BY DEF IInv, TypeOK
    <3>2. CASE a \in User BY <1>1, <1>2, <2>1, <3>1, <3>2 DEF IInv, KernelHalf
    <3>3. CASE a = Kernel /\ live = {Kernel} BY <3>3
    <3> QED BY <1>2, <3>2, <3>3
  <2> QED BY <1>1, <2>2, <2>3 DEF KernelHalf
<1>5. Ownership'
  <2> SUFFICES ASSUME NEW b \in Space, NEW c \in Space, NEW i \in RootIdx, NEW k \in RootIdx,
                      dir'[b][i] # None, dir'[b][i] = dir'[c][k]
               PROVE  i = k /\ (i \in RootOf(UserArea) => b = c)
    BY DEF Ownership
  <2>1. CASE dir'[a][va[1]] = dir[a][va[1]]
    <3>1. \A s \in Space, n \in RootIdx : dir'[s][n] = dir[s][n] BY <1>1, <2>1
    <3> QED BY <3>1 DEF IInv, Ownership
  <2>2. CASE dir[a][va[1]] = None /\ dir'[a][va[1]] \notin InUse
    <3>1. \A s \in Space, n \in RootIdx : dir[s][n] # None => dir[s][n] # dir'[a][va[1]]
      BY <2>2 DEF InUse
    <3>2. CASE b = a /\ i = va[1] BY <1>1, <3>1, <3>2
    <3>3. CASE c = a /\ k = va[1] BY <1>1, <3>1, <3>3
    <3>4. CASE ~ (b = a /\ i = va[1]) /\ ~ (c = a /\ k = va[1])
      BY <1>1, <3>4 DEF IInv, Ownership
    <3> QED BY <3>2, <3>3, <3>4
  <2> QED BY <1>1, <2>1, <2>2
<1> QED BY <1>1, <1>3, <1>4, <1>5 DEF IInv

(* Every step preserves the invariant.                                     *)
LEMMA NextInv ==
  ASSUME RootsDisjoint, IInv, [Next]_vars
  PROVE  IInv'
<1>1. CASE UNCHANGED vars
  BY <1>1 DEF vars, IInv, TypeOK, BeforeLife, KernelHalf, Ownership
<1>2. CASE Next BY <1>2, Steps, VmeInitInv, ProtectInv, MapInv
<1> QED BY <1>1, <1>2

(* The inductive invariant holds in every state, whatever the number of    *)
(* spaces and tables.                                                      *)
THEOREM Inductive ==
  ASSUME RootsDisjoint
  PROVE  Spec => []IInv
<1>1. IInv /\ [Next]_vars => IInv' BY NextInv
<1> QED BY InitInv, <1>1, PTL DEF Spec

-----------------------------------------------------------------------------

(* What _map does to translations: it adds the one asked for, unless there *)
(* is one, and changes no other, in no space.                              *)
LEMMA MapWalks ==
  ASSUME RootsDisjoint, IInv, NEW a \in Space, NEW va \in Va, NEW pa \in Target,
         MapCall(a, va), Map(a, va, pa)
  PROVE  /\ Walk(a, va)' = IF Walk(a, va) = None THEN pa ELSE Walk(a, va)
         /\ \A b \in Space, w \in Va :
              b # a \/ w # va => Walk(b, w)' = Walk(b, w)
<1>0. /\ va[1] \in RootIdx /\ va[2] \in LeafIdx
      /\ \A w \in Va : w[1] \in RootIdx /\ w[2] \in LeafIdx
      /\ \A w \in Va : w # va => w[1] # va[1] \/ w[2] # va[2]
  BY Pages
<1>1. \A b \in Space, i \in RootIdx :
        dir[b][i] # None /\ dir[b][i] = dir[a][va[1]] => i = va[1] /\ (b # a => b \notin live)
  <2> SUFFICES ASSUME NEW b \in Space, NEW i \in RootIdx,
                      dir[b][i] # None, dir[b][i] = dir[a][va[1]]
               PROVE  i = va[1] /\ (b # a => b \notin live)
    OBVIOUS
  <2>1. i = va[1] /\ (i \in RootOf(UserArea) => b = a)
    BY <1>0 DEF IInv, Ownership
  <2>2. CASE a \in User /\ va \in UserArea BY Pages, <2>1, <2>2
  <2>3. CASE a = Kernel /\ live = {Kernel} BY <2>1, <2>3
  <2> QED BY <2>2, <2>3 DEF MapCall
<1>2. \A b \in Space, i \in RootIdx : dir[b][i] # None => b \in live
  BY DEF IInv, BeforeLife
<1>3. CASE /\ dir[a][va[1]] # None
           /\ SetLeaf(dir[a][va[1]], va[2], pa)
           /\ UNCHANGED dir
  <2>1. /\ dir[a][va[1]] \in Table
        /\ \A t \in Table, j \in LeafIdx :
             tab'[t][j] = IF t = dir[a][va[1]] /\ j = va[2] /\ tab[t][j] = None
                          THEN pa ELSE tab[t][j]
    BY <1>0, <1>3 DEF IInv, TypeOK, SetLeaf
  <2>2. Walk(a, va)' = IF Walk(a, va) = None THEN pa ELSE Walk(a, va)
    BY <1>0, <1>3, <2>1 DEF Walk
  <2>3. ASSUME NEW b \in Space, NEW w \in Va, b # a \/ w # va
        PROVE  Walk(b, w)' = Walk(b, w)
    <3>1. w[1] \in RootIdx /\ w[2] \in LeafIdx BY <1>0
    <3>2. dir[b][w[1]] = None \/ dir[b][w[1]] # dir[a][va[1]] \/ w[2] # va[2]
      BY <1>0, <1>1, <1>2, <2>3, <3>1
    <3>3. dir[b][w[1]] \in Table \cup {None} BY <3>1 DEF IInv, TypeOK
    <3> QED BY <1>3, <2>1, <3>1, <3>2, <3>3 DEF Walk
  <2> QED BY <2>2, <2>3
<1>4. CASE /\ dir[a][va[1]] = None
           /\ \E t \in NewPages :
                /\ dir' = [dir EXCEPT ![a][va[1]] = t]
                /\ tab' = [tab EXCEPT ![t] =
                             [j \in LeafIdx |-> IF j = va[2] THEN pa ELSE None]]
  <2>1. PICK t \in Table \ InUse :
           /\ dir' = [dir EXCEPT ![a][va[1]] = t]
           /\ tab' = [tab EXCEPT ![t] =
                        [j \in LeafIdx |-> IF j = va[2] THEN pa ELSE None]]
    BY <1>4 DEF NewPages
  <2>2. /\ dir'[a][va[1]] = t
        /\ \A b \in Space, i \in RootIdx : b # a \/ i # va[1] => dir'[b][i] = dir[b][i]
        /\ \A j \in LeafIdx : tab'[t][j] = IF j = va[2] THEN pa ELSE None
        /\ \A u \in Table \ {t}, j \in LeafIdx : tab'[u][j] = tab[u][j]
        /\ t # None
    BY <1>0, <2>1 DEF IInv, TypeOK
  <2>3. Walk(a, va)' = pa /\ Walk(a, va) = None
    BY <1>0, <1>4, <2>2 DEF Walk
  <2>4. ASSUME NEW b \in Space, NEW w \in Va, b # a \/ w # va
        PROVE  Walk(b, w)' = Walk(b, w)
    <3>1. w[1] \in RootIdx /\ w[2] \in LeafIdx BY <1>0
    <3>2. CASE b = a /\ w[1] = va[1]
      BY <1>0, <1>4, <2>2, <2>4, <3>1, <3>2 DEF Walk
    <3>3. CASE ~ (b = a /\ w[1] = va[1])
      <4>1. dir'[b][w[1]] = dir[b][w[1]] BY <2>2, <3>1, <3>3
      <4>2. dir[b][w[1]] \in Table \cup {None} BY <3>1 DEF IInv, TypeOK
      <4>3. dir[b][w[1]] # None => dir[b][w[1]] # t BY <2>1, <3>1 DEF InUse
      <4> QED BY <2>2, <3>1, <4>1, <4>2, <4>3 DEF Walk
    <3> QED BY <3>2, <3>3
  <2> QED BY <2>3, <2>4
<1> QED BY <1>3, <1>4 DEF Map

(* What _protect does to translations: the new space gets kas's.           *)
LEMMA ProtectWalks ==
  ASSUME IInv, NEW a \in User, Protect(a)
  PROVE  /\ \A w \in Va : Walk(a, w)' = Walk(Kernel, w)
         /\ \A b \in Space \ {a}, w \in Va : Walk(b, w)' = Walk(b, w)
<1>1. /\ dir'[a] = dir[Kernel]
      /\ \A b \in Space \ {a} : dir'[b] = dir[b]
      /\ tab' = tab
  BY DEF Protect, IInv, TypeOK, Space
<1> QED BY <1>1 DEF Walk

(* Mapping a page into one user space changes nothing another space sees   *)
(* at a user address (_map after _protect, riscv/vme.c).                   *)
THEOREM Private ==
  ASSUME RootsDisjoint
  PROVE  Spec => UserMappingsPrivate
<1>1. ASSUME IInv, NEW a \in User, NEW va \in UserArea, NEW pa \in Frame, Map(a, va, pa)
      PROVE  \A b \in Space \ {a} : \A w \in UserArea : Walk(b, w)' = Walk(b, w)
  <2>1. a \in Space /\ UserArea \subseteq Va /\ pa \in Target BY DEF Space, Target
  <2>2. MapCall(a, va) BY DEF MapCall
  <2> QED BY <1>1, <2>1, <2>2, MapWalks
<1>2. IInv => [\A a \in User, va \in UserArea, pa \in Frame :
                Map(a, va, pa) =>
                  \A b \in Space \ {a} : \A w \in UserArea : Walk(b, w)' = Walk(b, w)]_vars
  BY <1>1
<1> QED BY <1>2, Inductive, PTL DEF UserMappingsPrivate

-----------------------------------------------------------------------------
(* Refinement.  The mapping sends the page tables to the function from     *)
(* virtual pages to what a walk finds.                                     *)
View == [a \in Space |-> [va \in Va |-> Walk(a, va)]]

(* No space exists and nothing is mapped.                                  *)
LEMMA AbstractInit == Init => Abstract!Init
  BY Pages DEF Init, Abstract!Init, Walk, Space

(* _vme_init is the boot of the abstract kernel space.                     *)
LEMMA AbstractBoot ==
  ASSUME IInv, IInv', VmeInit
  PROVE  Abstract!Boot
<1>1. /\ live = {} /\ live' = {Kernel} /\ Kernel \in Space
      /\ \A b \in Space, w \in Va : w[1] \in RootIdx /\ w[2] \in LeafIdx
  BY Pages DEF VmeInit, Space
<1>2. \A b \in Space \ {Kernel}, w \in Va : Walk(b, w) = None /\ Walk(b, w)' = None
  BY <1>1 DEF IInv, BeforeLife, Walk
<1>3. \A w \in Va : Walk(Kernel, w)' \in Target \cup {None}
  BY <1>1 DEF IInv, TypeOK, Walk
<1>4. View'[Kernel] \in [Va -> Target \cup {None}]
  BY <1>1, <1>3 DEF View
<1>5. View' = [View EXCEPT ![Kernel] = View'[Kernel]]
  BY <1>1, <1>2 DEF View
<1> QED BY <1>1, <1>4, <1>5 DEF Abstract!Boot, View

(* _protect is the creation of an abstract space.                          *)
LEMMA AbstractProtect ==
  ASSUME IInv, NEW a \in User, Protect(a)
  PROVE  Abstract!Protect(a)
<1>1. /\ a \in Space /\ Kernel \in Space
      /\ Kernel \in live /\ a \notin live /\ live' = live \cup {a}
  BY DEF Protect, Space
<1>2. View' = [View EXCEPT ![a] = View[Kernel]]
  BY <1>1, ProtectWalks DEF View
<1> QED BY <1>1, <1>2 DEF Abstract!Protect, View

(* A call of _map on an address that is mapped already maps to a stutter.  *)
LEMMA AbstractMap ==
  ASSUME RootsDisjoint, IInv, NEW a \in Space, NEW va \in Va, NEW pa \in Target,
         MapCall(a, va), Map(a, va, pa)
  PROVE  Abstract!Map(a, va) \/ UNCHANGED Abstract!vars
<1>1. a \in live /\ live' = live BY DEF Map
<1>2. /\ Walk(a, va)' = IF Walk(a, va) = None THEN pa ELSE Walk(a, va)
      /\ \A b \in Space, w \in Va : b # a \/ w # va => Walk(b, w)' = Walk(b, w)
  BY MapWalks
<1>3. CASE Walk(a, va) = None
  <2>1. View[a][va] = None /\ View'[a][va] = pa BY <1>2, <1>3 DEF View
  <2>2. View' = [View EXCEPT ![a][va] = View'[a][va]] BY <1>2 DEF View
  <2> QED BY <1>1, <2>1, <2>2 DEF Abstract!Map, View
<1>4. CASE Walk(a, va) # None
  <2>1. View' = View BY <1>2, <1>4 DEF View
  <2> QED BY <1>1, <2>1 DEF Abstract!vars, View
<1> QED BY <1>3, <1>4

(* The page tables of riscv/vme.c give each process an address space of    *)
(* its own, as am.h promises.                                              *)
THEOREM RefinesSpaces ==
  ASSUME RootsDisjoint
  PROVE  Spec => ImplementsSpaces
<1>1. ASSUME IInv, IInv', [Next]_vars
      PROVE  [Abstract!Next]_(Abstract!vars)
  <2>1. CASE VmeInit BY <1>1, <2>1, AbstractBoot DEF Abstract!Next
  <2>2. ASSUME NEW a \in User, Protect(a) PROVE Abstract!Next
    <3>1. Abstract!Protect(a) /\ a \in Space BY <1>1, <2>2, AbstractProtect DEF Space
    <3> QED BY <3>1 DEF Abstract!Next
  <2>3. ASSUME NEW a \in Space, NEW va \in Va, NEW pa \in Target,
               MapCall(a, va), Map(a, va, pa)
        PROVE  [Abstract!Next]_(Abstract!vars)
    BY <1>1, <2>3, AbstractMap DEF Abstract!Next
  <2>4. CASE UNCHANGED vars BY <2>4 DEF vars, Abstract!vars, Walk
  <2>5. CASE Next BY <2>1, <2>2, <2>3, <2>5, Steps
  <2> QED BY <1>1, <2>4, <2>5
<1> QED BY <1>1, AbstractInit, Inductive, PTL DEF Spec, ImplementsSpaces, Abstract!Spec
=============================================================================
