------------------------------ MODULE RiscvVme ------------------------------
(***************************************************************************)
(* Page tables of am/src/nemu/isa/riscv/vme.c.                             *)
(*                                                                         *)
(* A virtual page is a pair <<i, j>>: i its index in the root page, j the  *)
(* rest of the walk below it (one level of Sv32, the two lower levels of   *)
(* Sv39 taken together).  _protect copies the root page of the kernel, so  *)
(* below a root entry that the kernel has already filled the copy shares   *)
(* the kernel's tables.                                                    *)
(***************************************************************************)
CONSTANTS
  User,       (* address spaces made with _protect *)
  Kernel,     (* kas *)
  RootIdx, LeafIdx,
  Segments,   (* virtual pages of segments[], mapped to themselves *)
  KernelExtra,(* pages the program maps into kas afterwards (sv39.c) *)
  UserArea,   (* virtual pages of USER_SPACE *)
  Table,      (* pages pgalloc_usr can return *)
  Frame,      (* pages the program maps at user addresses *)
  None

Space == User \cup {Kernel}
Va == RootIdx \X LeafIdx
RootOf(area) == {va[1] : va \in area}

ASSUME KernelAssumption == Kernel \notin User
ASSUME AreaAssumption ==
  Segments \subseteq Va /\ KernelExtra \subseteq Va /\ UserArea \subseteq Va
ASSUME NoneAssumption == None \notin Va \cup Frame \cup Table

VARIABLES
  live,   (* spaces whose root page exists *)
  dir,    (* dir[a][i]: root entry i of a, the table it points to or None *)
  tab     (* tab[t][j]: leaf entry j of table t, a page or None *)

vars == <<live, dir, tab>>

Target == Va \cup Frame

Init ==
  /\ live = {}
  /\ dir = [a \in Space |-> [i \in RootIdx |-> None]]
  /\ tab = [t \in Table |-> [j \in LeafIdx |-> None]]

(* What a page-table walk from the root page of a finds for va.            *)
Walk(a, va) ==
  IF dir[a][va[1]] = None THEN None ELSE tab[dir[a][va[1]]][va[2]]

InUse == {dir[a][i] : a \in Space, i \in RootIdx} \ {None}

(* Mutant: a table in use is handed out again, with what it contains.      *)
UsedPages == Table

(* new_page(): pgalloc_usr returns a page not given out before; zeroed.    *)
NewPages == Table \ InUse

(* The segment, if any, whose leaf entry is entry j of table t when f says *)
(* which table each root entry got.                                        *)
SegmentsAt(f, t, j) == {va \in Segments : f[va[1]] = t /\ va[2] = j}

(* _vme_init: kas gets a fresh root and the identity mapping of segments.  *)
VmeInit ==
  /\ live = {}
  /\ live' = {Kernel}
  /\ \E f \in [RootOf(Segments) -> Table] :
       /\ \A i, k \in RootOf(Segments) : f[i] = f[k] => i = k
       /\ dir' = [dir EXCEPT ![Kernel] =
                    [i \in RootIdx |-> IF i \in RootOf(Segments) THEN f[i] ELSE None]]
       /\ tab' = [t \in Table |-> [j \in LeafIdx |->
                    IF SegmentsAt(f, t, j) = {} THEN None
                    ELSE CHOOSE va \in SegmentsAt(f, t, j) : TRUE]]

(* Mutant: the new root page is left empty.                                *)
ProtectEmpty(a) ==
  /\ Kernel \in live /\ a \in User \ live
  /\ live' = live \cup {a}
  /\ UNCHANGED <<dir, tab>>

(* _protect: a new root page, a copy of kas's.                             *)
Protect(a) ==
  /\ Kernel \in live /\ a \in User \ live
  /\ live' = live \cup {a}
  /\ dir' = [dir EXCEPT ![a] = dir[Kernel]]
  /\ UNCHANGED tab

(* Mutant: the leaf entry is overwritten.                                  *)
SetLeafAlways(t, j, pa) == tab' = [tab EXCEPT ![t][j] = pa]

(* The end of _map: the leaf entry is written unless it is valid already.  *)
SetLeaf(t, j, pa) ==
  tab' = [tab EXCEPT ![t][j] = IF @ = None THEN pa ELSE @]

(* Mutant: the walk ends one level early.                                  *)
MapAtRoot(a, va, pa) ==
  /\ a \in live
  /\ dir' = [dir EXCEPT ![a][va[1]] = IF @ = None THEN pa ELSE @]
  /\ UNCHANGED <<live, tab>>

(* _map: walk, allocate a missing table, set the leaf entry.               *)
Map(a, va, pa) ==
  /\ a \in live
  /\ \/ /\ dir[a][va[1]] # None
        /\ SetLeaf(dir[a][va[1]], va[2], pa)
        /\ UNCHANGED dir
     \/ /\ dir[a][va[1]] = None
        /\ \E t \in NewPages :
             /\ dir' = [dir EXCEPT ![a][va[1]] = t]
             /\ tab' = [tab EXCEPT ![t] =
                          [j \in LeafIdx |-> IF j = va[2] THEN pa ELSE None]]
  /\ UNCHANGED live

(* Calls the programs make: user pages into a user space; kernel pages     *)
(* into kas, before the first _protect.                                    *)
MapUser ==
  \E a \in User, va \in UserArea, pa \in Frame :
    Map(a, va, pa)
MapKernel ==
  /\ live = {Kernel}
  /\ \E va \in KernelExtra, pa \in Frame : Map(Kernel, va, pa)

Next == VmeInit \/ (\E a \in User : Protect(a)) \/ MapUser \/ MapKernel

Spec == Init /\ [][Next]_vars

-----------------------------------------------------------------------------

(* Types.  A root entry points to a table, never straight to a page: _map  *)
(* walks all the levels (riscv/vme.c).                                     *)
TypeOK ==
  /\ live \subseteq Space
  /\ dir \in [Space -> [RootIdx -> Table \cup {None}]]
  /\ tab \in [Table -> [LeafIdx -> Target \cup {None}]]

(* am.h, "a protected address space": mapping a page into one space never  *)
(* changes what another one sees at a user address.                        *)
UserMappingsPrivate ==
  [][\A a \in User, va \in UserArea, pa \in Frame :
       Map(a, va, pa) =>
         \A b \in Space \ {a} : \A w \in UserArea : Walk(b, w)' = Walk(b, w)]_vars

(* The kernel can trap out of any space: each one maps the kernel's pages  *)
(* as kas does.                                                            *)
KernelMappedEverywhere ==
  \A a \in live : \A va \in Segments \cup KernelExtra :
    va \notin UserArea => Walk(a, va) = Walk(Kernel, va)

(* No translation changes once it is valid, which is what lets _map go     *)
(* without sfence.vma.                                                     *)
TranslationsStable ==
  [][\A a \in live : \A va \in Va :
       Walk(a, va) # None => Walk(a, va)' = Walk(a, va)]_vars

(* The page tables implement separate address spaces.                      *)
Abstract == INSTANCE AddressSpaces WITH
              view <- [a \in Space |-> [va \in Va |-> Walk(a, va)]]
ImplementsSpaces == Abstract!Spec

-----------------------------------------------------------------------------
(* The inductive invariant behind the properties above, for layouts where  *)
(* the kernel has nothing below the root entries of user space.            *)

RootsDisjoint == RootOf(UserArea) \cap RootOf(Segments \cup KernelExtra) = {}

(* A space that does not exist maps nothing, and kas comes first.          *)
BeforeLife ==
  /\ \A a \in Space \ live, i \in RootIdx : dir[a][i] = None
  /\ live # {} => Kernel \in live

(* Outside user space the root pages are copies of kas's, and kas has      *)
(* nothing inside.                                                         *)
KernelHalf ==
  /\ \A i \in RootOf(UserArea) : dir[Kernel][i] = None
  /\ \A a \in live, i \in RootIdx \ RootOf(UserArea) : dir[a][i] = dir[Kernel][i]

(* A table hangs below one root entry, in user space of one space only.    *)
Ownership ==
  \A a, b \in Space, i, k \in RootIdx :
    dir[a][i] # None /\ dir[a][i] = dir[b][k] =>
      i = k /\ (i \in RootOf(UserArea) => a = b)

IInv == TypeOK /\ BeforeLife /\ KernelHalf /\ Ownership
=============================================================================
