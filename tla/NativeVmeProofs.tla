---------------------------- MODULE NativeVmeProofs ----------------------------
(***************************************************************************)
(* A process of the native port sees its own pages and no others, for any  *)
(* number of processes, pages and mappings, with interrupts at any point   *)
(* of a switch and nested to any depth.                                    *)
(* The list of an address space ends as long as no address is mapped twice.*)
(***************************************************************************)
EXTENDS Native, SequenceTheorems, FiniteSetTheorems, WellFoundedInduction, TLAPS

Switching == {"unmap", "map", "iret"}
Wheres ==
  [at : {"user", "handler"} \cup Switching, pp : VA \cup {Nil},
   to : {Nil} \cup (Thread \X (Nat \ {0})), intr : BOOLEAN]
Context == [where : Wheres, vm_head : Proc \cup {Nil}, ksp : Proc \cup {Nil}]

Types ==
  /\ next \in [Proc -> [VA \cup {Anchor} -> VA \cup {Nil}]]
  /\ pa \in [Proc -> [VA -> PA \cup {Nil}]]
  /\ is_mapped \in [Proc -> [VA -> BOOLEAN]]
  /\ again \in [Proc -> BOOLEAN]
  /\ cpu \in [vm_head : Proc \cup {Nil}, ksp : Proc \cup {Nil}]
  /\ host \in [VA -> PA \cup {Nil}]
  /\ proc \in Thread /\ run \in Wheres
  /\ frames \in [Thread -> Seq(Context)]

-----------------------------------------------------------------------------
(* The lists.  v comes after n if every set of nodes with n that is closed *)
(* under next has v; a loop is a set that next does not lead out of.       *)
Closed(p, S) == \A k \in S : next[p][k] \in S \cup {Nil}
Reaches(p, n, v) == \A S \in SUBSET VA : Closed(p, S) /\ (n = Nil \/ n \in S) => v \in S
Loops(p, n) == \E S \in SUBSET VA : n \in S /\ \A k \in S : next[p][k] \in S

(* A list has every mapping, or loops.                                     *)
ListInv(p) ==
  /\ \A v \in VA : pa[p][v] = Nil => next[p][v] = Nil
  /\ again[p] => Loops(p, next[p][Anchor])
  /\ ~ again[p] => \A v \in VA : pa[p][v] # Nil => Reaches(p, next[p][Anchor], v)

-----------------------------------------------------------------------------
(* What runs on the stack of proc: interrupted contexts, the last on top   *)
(* of which is run.                                                        *)
Depth == Len(frames[proc])
Level(k) == IF k <= Depth THEN frames[proc][k].where ELSE run
Goal(w) == frames[w.to[1]][w.to[2]]

(* A switch that has been interrupted: the handlers above it run with the  *)
(* address space it had, and return to it.                                 *)
SwitchInv(k) ==
  LET w == Level(k) IN
    /\ w.to \in Thread \X (Nat \ {0})
    /\ w.to[2] <= Len(frames[w.to[1]])
    /\ w.to[2] = IF w.to[1] = proc THEN k - 1 ELSE Len(frames[w.to[1]])
    /\ w.at = "iret" => Goal(w).vm_head = cpu.vm_head
    /\ \A j \in k .. Depth : frames[proc][j].vm_head = cpu.vm_head
    /\ \A j \in k + 1 .. Depth + 1 :
         Level(j).at \in {"handler", "iret"} /\ (Level(j).at = "iret" => Level(j).to[1] = proc)

StackInv ==
  /\ \A t \in Thread : \A k \in 1 .. Len(frames[t]) :
       /\ frames[t][k].where.at = "user" =>
            t \in Proc /\ frames[t][k].vm_head = t /\ frames[t][k].ksp = t
       /\ t # proc => frames[t][k].where.at \notin Switching
  /\ \A k \in 1 .. Depth + 1 : Level(k).at \in Switching => SwitchInv(k)

(* In user mode.                                                           *)
UserInv ==
  /\ run.at = "user" =>
       proc \in Proc /\ cpu.vm_head = proc /\ cpu.ksp = proc /\ ~ pmem
  /\ run.at # "user" => pmem

-----------------------------------------------------------------------------
(* What is in force, between two switches and in the two loops of one.     *)
Known(h) == h # Nil => \A v \in VA : host[v] # Nil => is_mapped[h][v]

InForce(h) == Known(h) /\ \A v \in VA : host[v] = IF h = Nil THEN Nil ELSE pa[h][v]

Unmapping(h, n) ==
  /\ Known(h)
  /\ h = Nil => n = Nil /\ \A v \in VA : host[v] = Nil
  /\ h # Nil =>
       /\ again[h] => Loops(h, n)
       /\ ~ again[h] => \A v \in VA : host[v] # Nil => Reaches(h, n, v)

Mapping(h, n) ==
  /\ Known(h)
  /\ h = Nil => n = Nil /\ \A v \in VA : host[v] = Nil
  /\ h # Nil =>
       /\ again[h] => Loops(h, n)
       /\ \A v \in VA : host[v] \in {Nil, pa[h][v]}
       /\ ~ again[h] => \A v \in VA : host[v] = pa[h][v] \/ Reaches(h, n, v)

HostInv ==
  /\ \A k \in 1 .. Depth + 1 :
       /\ Level(k).at = "unmap" => Unmapping(cpu.vm_head, Level(k).pp)
       /\ Level(k).at = "map" => Mapping(Goal(Level(k)).vm_head, Level(k).pp)
  /\ (\A k \in 1 .. Depth + 1 : Level(k).at \notin {"unmap", "map"}) => InForce(cpu.vm_head)

VmeInv == Types /\ (\A p \in Proc : ListInv(p)) /\ StackInv /\ UserInv /\ HostInv

-----------------------------------------------------------------------------
(* After a step along the list the same nodes are ahead, but for the one   *)
(* that has been passed.                                                   *)
LEMMA ReachesStep ==
  ASSUME Types, NEW p \in Proc, NEW n \in VA, NEW v \in VA, v # n, Reaches(p, n, v)
  PROVE  Reaches(p, next[p][n], v)
<1> SUFFICES ASSUME NEW S \in SUBSET VA, Closed(p, S),
                    next[p][n] = Nil \/ next[p][n] \in S
             PROVE  v \in S
  BY DEF Reaches
<1>1. S \cup {n} \in SUBSET VA /\ Closed(p, S \cup {n})
  BY DEF Closed
<1>2. v \in S \cup {n}
  BY <1>1 DEF Reaches
<1> QED
  BY <1>2

(* Nothing comes after the end.                                            *)
LEMMA ReachesNil ==
  ASSUME NEW p \in Proc, NEW v \in VA
  PROVE  ~ Reaches(p, Nil, v)
<1>1. {} \in SUBSET VA /\ Closed(p, {}) /\ v \notin {}
  BY DEF Closed
<1> QED
  BY <1>1 DEF Reaches

(* A walk that is in a loop stays in it.                                   *)
LEMMA LoopsStep ==
  ASSUME NEW p \in Proc, NEW n, Loops(p, n)
  PROVE  n \in VA /\ n # Nil /\ Loops(p, next[p][n])
  BY VmeAssumption DEF Loops

(* _map of a new address: it comes first, and what came first comes next.  *)
LEMMA NewNode ==
  ASSUME Types, NEW p \in Proc, NEW v \in VA, ListInv(p), pa[p][v] = Nil, ~ again[p],
         next' = [next EXCEPT ![p] = [@ EXCEPT ![v] = next[p][Anchor], ![Anchor] = v]],
         NEW m \in VA, m = v \/ pa[p][m] # Nil
  PROVE  Reaches(p, next[p][Anchor], m)'
<1>1. /\ next'[p][Anchor] = v /\ next'[p][v] = next[p][Anchor]
      /\ \A k \in VA \ {v} : next'[p][k] = next[p][k]
  BY VmeAssumption DEF Types
<1>2. SUFFICES ASSUME NEW S \in SUBSET VA, \A k \in S : next'[p][k] \in S \cup {Nil}, v \in S
               PROVE  m \in S
  BY <1>1, VmeAssumption DEF Reaches, Closed
<1>3. next[p][v] = Nil
  BY DEF ListInv
<1>4. Closed(p, S)
  BY <1>1, <1>2, <1>3 DEF Closed
<1>5. next[p][Anchor] = Nil \/ next[p][Anchor] \in S
  BY <1>1, <1>2
<1>6. m # v => Reaches(p, next[p][Anchor], m)
  BY DEF ListInv
<1> QED
  BY <1>2, <1>4, <1>5, <1>6 DEF Reaches

(* _map of an address that has a node: from the first node on, every node  *)
(* that has v after it leads back to the first one.                        *)
LEMMA SecondTime ==
  ASSUME Types, NEW p \in Proc, NEW v \in VA, ListInv(p), pa[p][v] # Nil, ~ again[p],
         next' = [next EXCEPT ![p] = [@ EXCEPT ![v] = next[p][Anchor], ![Anchor] = v]]
  PROVE  Loops(p, next[p][Anchor])'
<1> DEFINE S == {k \in VA : Reaches(p, k, v)}
<1>1. /\ next'[p][Anchor] = v /\ next'[p][v] = next[p][Anchor]
      /\ \A k \in VA \ {v} : next'[p][k] = next[p][k]
  BY VmeAssumption DEF Types
<1>2. v \in S
  BY VmeAssumption DEF Reaches
<1>3. next[p][Anchor] \in S
  <2>1. Reaches(p, next[p][Anchor], v)
    BY DEF ListInv
  <2>2. next[p][Anchor] \in VA
    BY <2>1, ReachesNil DEF Types
  <2> QED
    BY <2>1, <2>2
<1>4. ASSUME NEW k \in S, k # v PROVE next[p][k] \in S
  <2>1. Reaches(p, next[p][k], v)
    BY <1>4, ReachesStep
  <2>2. next[p][k] \in VA
    BY <2>1, ReachesNil DEF Types
  <2> QED
    BY <2>1, <2>2
<1>5. \A k \in S : next'[p][k] \in S
  BY <1>1, <1>3, <1>4
<1> HIDE DEF S
<1>6. S \in SUBSET VA
  BY DEF S
<1> QED
  BY <1>1, <1>2, <1>5, <1>6 DEF Loops

(* A list that loops goes on to do so.                                     *)
LEMMA StillLoops ==
  ASSUME Types, NEW p \in Proc, NEW v \in VA, Loops(p, next[p][Anchor]),
         next' = [next EXCEPT ![p] = [@ EXCEPT ![v] = next[p][Anchor], ![Anchor] = v]]
  PROVE  Loops(p, next[p][Anchor])'
<1>1. /\ next'[p][Anchor] = v /\ next'[p][v] = next[p][Anchor]
      /\ \A k \in VA \ {v} : next'[p][k] = next[p][k]
  BY VmeAssumption DEF Types
<1>2. PICK S \in SUBSET VA : next[p][Anchor] \in S /\ \A k \in S : next[p][k] \in S
  BY DEF Loops
<1>3. S \cup {v} \in SUBSET VA /\ \A k \in S \cup {v} : next'[p][k] \in S \cup {v}
  BY <1>1, <1>2
<1> QED
  BY <1>1, <1>3 DEF Loops

-----------------------------------------------------------------------------
(* The values of the variables.                                            *)
LEMMA ContextTypes ==
  ASSUME Types, NEW t \in Thread, NEW k \in 1 .. Len(frames[t])
  PROVE  /\ frames[t] \in Seq(Context) /\ Len(frames[t]) \in Nat
         /\ frames[t][k] \in Context /\ frames[t][k].where \in Wheres
<1>1. frames[t] \in Seq(Context)
  BY DEF Types
<1>2. Len(frames[t]) \in Nat /\ frames[t][k] \in Context
  BY <1>1, LenProperties, ElementOfSeq
<1> QED
  BY <1>1, <1>2 DEF Context

(* The context a switch goes to is the last one on the stack of its thread. *)
LEMMA SwitchTarget ==
  ASSUME VmeInv, run.at \in Switching
  PROVE  /\ SwitchInv(Depth + 1) /\ Depth \in Nat /\ Target = Goal(run)
         /\ run.to[1] \in Thread /\ run.to[2] = Len(frames[run.to[1]])
         /\ run.to[2] \in 1 .. Len(frames[run.to[1]])
         /\ Target \in Context
<1>1. frames[proc] \in Seq(Context) /\ Depth \in Nat
  BY LenProperties DEF VmeInv, Types, Depth
<1>2. Level(Depth + 1) = run
  BY <1>1 DEF Level
<1>3. SwitchInv(Depth + 1)
  BY <1>1, <1>2 DEF VmeInv, StackInv
<1>4. /\ run.to \in Thread \X (Nat \ {0})
      /\ run.to[2] <= Len(frames[run.to[1]])
      /\ run.to[2] = IF run.to[1] = proc THEN Depth ELSE Len(frames[run.to[1]])
  BY <1>1, <1>2, <1>3 DEF SwitchInv
<1>5. run.to[1] \in Thread /\ run.to[2] = Len(frames[run.to[1]])
  BY <1>4 DEF Depth
<1>6. run.to[2] \in 1 .. Len(frames[run.to[1]])
  BY <1>4, <1>5
<1>7. Target \in Context
  BY <1>5, <1>6, ContextTypes DEF VmeInv, Target
<1> QED
  BY <1>1, <1>3, <1>5, <1>6, <1>7 DEF Target, Goal

(* The two loops of a switch are at a node of the list they go through.    *)
LEMMA UnmapNode ==
  ASSUME VmeInv, run.at = "unmap"
  PROVE  /\ Unmapping(cpu.vm_head, run.pp)
         /\ run.pp # Nil => cpu.vm_head \in Proc /\ run.pp \in VA
<1>1. Depth \in Nat
  BY SwitchTarget DEF Switching
<1>2. Level(Depth + 1) = run
  BY <1>1 DEF Level
<1>3. Unmapping(cpu.vm_head, run.pp)
  BY <1>1, <1>2 DEF VmeInv, HostInv
<1> QED
  BY <1>3 DEF Unmapping, VmeInv, Types, Wheres

LEMMA MapNode ==
  ASSUME VmeInv, run.at = "map"
  PROVE  /\ Mapping(Target.vm_head, run.pp)
         /\ run.pp # Nil => Target.vm_head \in Proc /\ run.pp \in VA
<1>1. Depth \in Nat /\ Target = Goal(run) /\ Target \in Context
  BY SwitchTarget DEF Switching
<1>2. Level(Depth + 1) = run
  BY <1>1 DEF Level
<1>3. Mapping(Target.vm_head, run.pp)
  BY <1>1, <1>2 DEF VmeInv, HostInv
<1>4. Target.vm_head \in Proc \cup {Nil}
  BY <1>1 DEF Context
<1> QED
  BY <1>3, <1>4 DEF Mapping, VmeInv, Types, Wheres

LEMMA TypesKept == VmeInv /\ VmeNext => Types'
<1> SUFFICES ASSUME VmeInv, VmeNext PROVE Types'
  OBVIOUS
<1>0. Types
  BY DEF VmeInv
<1>1. ASSUME NEW p \in Proc, UContext(p) PROVE Types'
  <2>1. Saved(Here("user", Nil, Nil, TRUE), p, p) \in Context
    BY DEF Saved, Here, Context, Wheres
  <2>2. ASSUME NEW c \in Context PROVE <<c>> \in Seq(Context)
    OBVIOUS
  <2>3. <<Saved(Here("user", Nil, Nil, TRUE), p, p)>> \in Seq(Context)
    BY <2>1, <2>2
  <2> QED
    BY <1>0, <1>1, <2>3 DEF UContext, Types
<1>2. ASSUME NEW p \in Proc, NEW v \in VA, NEW f \in PA, Map(p, v, f) PROVE Types'
  <2>1. next' \in [Proc -> [VA \cup {Anchor} -> VA \cup {Nil}]]
    <3>1. [next[p] EXCEPT ![v] = next[p][Anchor], ![Anchor] = v]
            \in [VA \cup {Anchor} -> VA \cup {Nil}]
      <4>1. next[p] \in [VA \cup {Anchor} -> VA \cup {Nil}]
        BY <1>0 DEF Types
      <4>2. ASSUME NEW g \in [VA \cup {Anchor} -> VA \cup {Nil}],
                   NEW k \in VA \cup {Anchor}, NEW n \in VA \cup {Nil}
            PROVE  [g EXCEPT ![k] = n] \in [VA \cup {Anchor} -> VA \cup {Nil}]
        OBVIOUS
      <4> QED
        BY <4>1, <4>2
    <3> QED
      BY <1>0, <1>2, <3>1 DEF Map, Types
  <2>2. pa' \in [Proc -> [VA -> PA \cup {Nil}]] /\ host' \in [VA -> PA \cup {Nil}]
    BY <1>0, <1>2 DEF Map, Types
  <2>3. is_mapped' \in [Proc -> [VA -> BOOLEAN]] /\ again' \in [Proc -> BOOLEAN]
    BY <1>0, <1>2 DEF Map, Types
  <2> QED
    BY <1>0, <1>2, <2>1, <2>2, <2>3 DEF Map, Types
<1>3. ASSUME NEW q \in Thread, Return(q) PROVE Types'
  <2>1. Len(frames[q]) \in Nat \ {0}
    BY <1>0, <1>3, EmptySeq, LenProperties DEF Return, Types
  <2>2. run'  \in Wheres
    <3>1. cpu.vm_head \in Proc \cup {Nil} /\ run.intr \in BOOLEAN
      BY <1>0 DEF Types, Wheres
    <3>2. First(cpu.vm_head) \in VA \cup {Nil}
      BY <1>0, <3>1 DEF Types, First
    <3>3. run' \in {Here("iret", Nil, <<q, Len(frames[q])>>, run.intr),
                    Here("unmap", First(cpu.vm_head), <<q, Len(frames[q])>>, run.intr)}
      BY <1>3 DEF Return
    <3> QED
      BY <2>1, <3>1, <3>2, <3>3 DEF Here, Wheres, Switching
  <2> QED
    BY <1>0, <1>3, <2>2 DEF Return, Types
<1>4. CASE Trap
  <2>1. Saved(run, cpu.vm_head, cpu.ksp) \in Context
    BY <1>0 DEF Saved, Context, Types
  <2>2. frames' \in [Thread -> Seq(Context)]
    BY <1>0, <1>4, <2>1, AppendProperties DEF Trap, Types
  <2>3. run' \in Wheres
    BY <1>4 DEF Trap, Here, Wheres
  <2> QED
    BY <1>0, <1>4, <2>2, <2>3 DEF Trap, Types
<1>f. run.pp \in VA \cup {Nil} /\ run \in Wheres /\ cpu.vm_head \in Proc \cup {Nil}
  BY <1>0 DEF Types, Wheres
<1>5. CASE EnableIntr
  BY <1>0, <1>5 DEF EnableIntr, Types, Wheres
<1>6. CASE Unmap
  <2>1. cpu.vm_head \in Proc /\ run.pp \in VA
    BY <1>6, UnmapNode DEF Unmap
  <2>2. next[cpu.vm_head][run.pp] \in VA \cup {Nil}
    BY <1>0, <2>1 DEF Types
  <2>3. run' \in Wheres
    BY <1>6, <1>f, <2>2 DEF Unmap, Wheres
  <2>4. host' \in [VA -> PA \cup {Nil}] /\ is_mapped' \in [Proc -> [VA -> BOOLEAN]]
    BY <1>0, <1>6, <2>1 DEF Unmap, Types
  <2> QED
    BY <1>0, <1>6, <2>3, <2>4 DEF Unmap, Types
<1>7. CASE Unmapped
  <2>1. Target.vm_head \in Proc \cup {Nil}
    BY <1>7, SwitchTarget DEF Unmapped, Switching, Context
  <2>2. First(Target.vm_head) \in VA \cup {Nil}
    BY <1>0, <2>1 DEF Types, First
  <2>3. run' \in Wheres
    BY <1>7, <1>f, <2>2 DEF Unmapped, Wheres, Switching
  <2> QED
    BY <1>0, <1>7, <2>3 DEF Unmapped, Types
<1>8. CASE MapAll
  <2>1. Target.vm_head \in Proc /\ run.pp \in VA
    BY <1>8, MapNode DEF MapAll
  <2>2. /\ next[Target.vm_head][run.pp] \in VA \cup {Nil}
        /\ pa[Target.vm_head][run.pp] \in PA \cup {Nil}
    BY <1>0, <2>1 DEF Types
  <2>3. run' \in Wheres
    BY <1>8, <1>f, <2>2 DEF MapAll, Wheres
  <2>4. host' \in [VA -> PA \cup {Nil}] /\ is_mapped' \in [Proc -> [VA -> BOOLEAN]]
    BY <1>0, <1>8, <2>1, <2>2 DEF MapAll, Types
  <2> QED
    BY <1>0, <1>8, <2>3, <2>4 DEF MapAll, Types
<1>9. CASE Mapped
  <2>1. Target.vm_head \in Proc \cup {Nil}
    BY <1>9, SwitchTarget DEF Mapped, Switching, Context
  <2>2. run' \in Wheres
    BY <1>9, <1>f DEF Mapped, Wheres, Switching
  <2> QED
    BY <1>0, <1>9, <2>1, <2>2 DEF Mapped, Types
<1>10. CASE Iret
  <2>1. run.to[1] \in Thread /\ run.to[2] \in 1 .. Len(frames[run.to[1]]) /\ Target \in Context
    BY <1>10, SwitchTarget DEF Iret, Switching
  <2>2. frames[run.to[1]] \in Seq(Context)
    BY <1>0, <2>1 DEF Types
  <2>3. SubSeq(frames[run.to[1]], 1, run.to[2] - 1) \in Seq(Context)
    BY <2>1, <2>2, SubSeqProperties
  <2>4. frames' \in [Thread -> Seq(Context)]
    BY <1>0, <1>10, <2>1, <2>3 DEF Iret, Types
  <2>5. run' \in Wheres /\ cpu' \in [vm_head : Proc \cup {Nil}, ksp : Proc \cup {Nil}]
    BY <1>0, <1>10, <2>1 DEF Iret, Types, Context
  <2> QED
    BY <1>0, <1>10, <2>1, <2>4, <2>5 DEF Iret, Types
<1> QED
  BY <1>1, <1>2, <1>3, <1>4, <1>5, <1>6, <1>7, <1>8, <1>9, <1>10,
     RequestsAssumption
     DEF VmeNext

-----------------------------------------------------------------------------
(* _map keeps the lists.                                                   *)
LEMMA MapKeepsLists ==
  ASSUME VmeInv, NEW p \in Proc, NEW v \in VA, NEW f \in PA, Map(p, v, f), NEW q \in Proc
  PROVE  ListInv(q)'
<1>1. Types /\ ListInv(p) /\ ListInv(q)
  BY DEF VmeInv
<1>2. /\ next' = [next EXCEPT ![p] = [@ EXCEPT ![v] = next[p][Anchor], ![Anchor] = v]]
      /\ pa' = [pa EXCEPT ![p][v] = f]
      /\ again' = [again EXCEPT ![p] = @ \/ pa[p][v] # Nil]
  BY DEF Map
<1>3. CASE q # p
  <2>1. next'[q] = next[q] /\ pa'[q] = pa[q] /\ (again'[q] <=> again[q])
    BY <1>1, <1>2, <1>3 DEF Types
  <2> QED
    BY <1>1, <2>1 DEF ListInv, Loops, Reaches, Closed
<1>4. CASE q = p
  <2>1. f # Nil /\ pa'[p][v] = f /\ \A k \in VA \ {v} : pa'[p][k] = pa[p][k]
    BY <1>1, <1>2, VmeAssumption DEF Types
  <2>2. \A k \in VA \ {v} : next'[p][k] = next[p][k]
    BY <1>1, <1>2, VmeAssumption DEF Types
  <2>3. \A k \in VA : pa'[p][k] = Nil => next'[p][k] = Nil
    BY <1>1, <2>1, <2>2 DEF ListInv
  <2>4. again'[p] <=> (again[p] \/ pa[p][v] # Nil)
    BY <1>1, <1>2 DEF Types
  <2>5. CASE again[p]
    <3>1. Loops(p, next[p][Anchor])
      BY <1>1, <2>5 DEF ListInv
    <3>2. Loops(p, next[p][Anchor])'
      BY <1>1, <1>2, <3>1, StillLoops
    <3> QED
      BY <1>4, <2>3, <2>4, <2>5, <3>2 DEF ListInv
  <2>6. CASE ~ again[p] /\ pa[p][v] # Nil
    <3>1. Loops(p, next[p][Anchor])'
      BY <1>1, <1>2, <2>6, SecondTime
    <3> QED
      BY <1>4, <2>3, <2>4, <2>6, <3>1 DEF ListInv
  <2>7. CASE ~ again[p] /\ pa[p][v] = Nil
    <3>1. ASSUME NEW m \in VA, pa'[p][m] # Nil PROVE Reaches(p, next[p][Anchor], m)'
      <4>1. m = v \/ pa[p][m] # Nil
        BY <2>1, <3>1
      <4> QED
        BY <1>1, <1>2, <2>7, <4>1, NewNode
    <3> QED
      BY <1>4, <2>3, <2>4, <2>7, <3>1 DEF ListInv
  <2> QED
    BY <2>5, <2>6, <2>7
<1> QED
  BY <1>3, <1>4

(* Outside a switch no context that is saved or runs is in one.            *)
LEMMA NoSwitch ==
  ASSUME VmeInv, ~ InSwitch, run.at \notin Switching
  PROVE  /\ Depth \in Nat
         /\ \A k \in 1 .. Depth + 1 : Level(k).at \notin Switching
         /\ InForce(cpu.vm_head)
<1>1. Depth \in Nat /\ proc \in Thread
  BY LenProperties DEF VmeInv, Types, Depth
<1>2. \A k \in 1 .. Depth + 1 : Level(k).at \notin Switching
  BY <1>1 DEF InSwitch, Switching, Level, Depth
<1> QED
  BY <1>1, <1>2 DEF VmeInv, HostInv, Switching

LEMMA SameStack ==
  ASSUME StackInv, UNCHANGED <<cpu, proc, run, frames>>
  PROVE  StackInv' /\ Depth' = Depth /\ \A k : Level(k)' = Level(k)
<1>1. Depth' = Depth /\ Len(frames[proc])' = Len(frames[proc])
  BY DEF Depth
<1>2. \A k : Level(k)' = Level(k)
  BY <1>1 DEF Level
<1>3. \A w : Goal(w)' = Goal(w)
  BY DEF Goal
<1>4. \A k : SwitchInv(k) => SwitchInv(k)'
  BY <1>1, <1>2, <1>3 DEF SwitchInv
<1> QED
  BY <1>1, <1>2, <1>4 DEF StackInv

LEMMA MapKeeps ==
  ASSUME VmeInv, NEW p \in Proc, NEW v \in VA, NEW f \in PA, Map(p, v, f)
  PROVE  StackInv' /\ UserInv' /\ HostInv'
<1>1. Types /\ StackInv /\ UserInv
  BY DEF VmeInv
<1>2. run.at = "handler" /\ ~ InSwitch /\ UNCHANGED <<cpu, pmem, proc, run, frames>>
  BY DEF Map
<1>3. UserInv'
  BY <1>1, <1>2 DEF UserInv
<1>4. /\ Depth \in Nat /\ InForce(cpu.vm_head)
      /\ \A k \in 1 .. Depth + 1 : Level(k).at \notin Switching
  BY <1>2, NoSwitch DEF Switching
<1>5. StackInv' /\ Depth' = Depth /\ \A k : Level(k)' = Level(k)
  BY <1>1, <1>2, SameStack
<1>6. InForce(cpu.vm_head)'
  <2>1. pa' = [pa EXCEPT ![p][v] = f]
        /\ is_mapped' = [is_mapped EXCEPT ![p][v] = (cpu.vm_head = p)]
        /\ host' = IF cpu.vm_head = p THEN [host EXCEPT ![v] = f] ELSE host
    BY DEF Map
  <2>2. CASE cpu.vm_head = p
    <3>1. p # Nil /\ host' = [host EXCEPT ![v] = f] /\ is_mapped'[p][v]
      BY <1>1, <2>1, <2>2, VmeAssumption DEF Types
    <3>2. \A k \in VA \ {v} : is_mapped'[p][k] <=> is_mapped[p][k]
      BY <1>1, <2>1 DEF Types
    <3>3. \A k \in VA : host'[k] = pa'[p][k]
      BY <1>1, <1>4, <2>1, <2>2, <3>1 DEF Types, InForce
    <3> QED
      BY <1>1, <1>2, <1>4, <2>2, <3>1, <3>2, <3>3 DEF InForce, Known, Types
  <2>3. CASE cpu.vm_head # p
    <3>1. UNCHANGED host
      BY <2>1, <2>3
    <3>2. cpu.vm_head # Nil =>
            pa'[cpu.vm_head] = pa[cpu.vm_head] /\ is_mapped'[cpu.vm_head] = is_mapped[cpu.vm_head]
      BY <1>1, <2>1, <2>3 DEF Types
    <3> QED
      BY <1>2, <1>4, <3>1, <3>2 DEF InForce, Known
  <2> QED
    BY <2>2, <2>3
<1> QED
  BY <1>2, <1>3, <1>4, <1>5, <1>6 DEF HostInv, Switching

-----------------------------------------------------------------------------
(* A step that leaves the lists alone keeps them as they should be.        *)
LEMMA SameLists ==
  ASSUME NEW p \in Proc, ListInv(p), UNCHANGED <<next, pa, again>>
  PROVE  ListInv(p)'
  BY DEF ListInv, Loops, Reaches, Closed

(* A switch that goes on, or resumes another thread, is the only one.      *)
LEMMA Alone ==
  ASSUME VmeInv, run.at \in {"unmap", "map"} \/ (run.at = "iret" /\ run.to[1] # proc)
  PROVE  \A k \in 1 .. Depth :
           Level(k) = frames[proc][k].where /\ frames[proc][k].where.at \notin Switching
<1>1. Depth \in Nat
  BY SwitchTarget DEF Switching
<1> SUFFICES ASSUME NEW k \in 1 .. Depth
             PROVE  Level(k) = frames[proc][k].where /\ Level(k).at \notin Switching
  OBVIOUS
<1>2. Level(k) = frames[proc][k].where /\ Level(Depth + 1) = run
  BY <1>1 DEF Level
<1>3. SUFFICES ASSUME Level(k).at \in Switching PROVE FALSE
  BY <1>2
<1>4. SwitchInv(k)
  BY <1>1, <1>3 DEF VmeInv, StackInv
<1>5. Depth + 1 \in k + 1 .. Depth + 1
  BY <1>1
<1>6. Level(Depth + 1).at \in {"handler", "iret"}
      /\ (Level(Depth + 1).at = "iret" => Level(Depth + 1).to[1] = proc)
  BY <1>4, <1>5 DEF SwitchInv
<1> QED
  BY <1>2, <1>6

(* A step of the running context on top of the stack.                      *)
LEMMA TopStep ==
  ASSUME VmeInv, UNCHANGED <<proc, frames>>
  PROVE  /\ Depth \in Nat /\ Depth' = Depth /\ Level(Depth + 1) = run
         /\ Level(Depth + 1)' = run'
         /\ \A k \in 1 .. Depth : Level(k)' = Level(k) /\ Level(k) = frames[proc][k].where
         /\ \A w : Goal(w)' = Goal(w)
<1>1. Depth \in Nat
  BY LenProperties DEF VmeInv, Types, Depth
<1>2. Depth' = Depth
  BY DEF Depth
<1>3. Len(frames[proc])' = Depth
  BY DEF Depth
<1> QED
  BY <1>1, <1>2, <1>3 DEF Level, Goal

LEMMA TopStack ==
  ASSUME VmeInv, UNCHANGED <<proc, frames, cpu>>,
         run'.at \in Switching => SwitchInv(Depth + 1)',
         \/ \A k \in 1 .. Depth : Level(k).at \notin Switching
         \/ run'.at \in {"handler", "iret"} /\ (run'.at = "iret" => run'.to[1] = proc)
  PROVE  StackInv'
<1>1. /\ Depth \in Nat /\ Depth' = Depth /\ Level(Depth + 1) = run
      /\ Level(Depth + 1)' = run'
      /\ \A k \in 1 .. Depth : Level(k)' = Level(k)
      /\ \A w : Goal(w)' = Goal(w)
  BY TopStep
<1>2. ASSUME NEW k \in 1 .. Depth, Level(k).at \in Switching PROVE SwitchInv(k)'
  <2>1. SwitchInv(k)
    BY <1>1, <1>2 DEF VmeInv, StackInv
  <2>2. Level(k)' = Level(k)
    BY <1>1
  <2>3. \A j \in k + 1 .. Depth + 1 :
           Level(j)'.at \in {"handler", "iret"} /\ (Level(j)'.at = "iret" => Level(j)'.to[1] = proc)
    BY <1>1, <1>2, <2>1 DEF SwitchInv
  <2> QED
    BY <1>1, <2>1, <2>2, <2>3 DEF SwitchInv
<1>3. \A k \in 1 .. Depth' + 1 : Level(k)'.at \in Switching => SwitchInv(k)'
  BY <1>1, <1>2
<1> QED
  BY <1>3 DEF VmeInv, StackInv

(* What is in force is enough to say of the one switch that goes on.       *)
LEMMA TopHost ==
  ASSUME VmeInv, UNCHANGED <<proc, frames>>,
         \A k \in 1 .. Depth : Level(k).at \notin Switching,
         run'.at = "unmap" => Unmapping(cpu.vm_head, run.pp)',
         run'.at = "map" => Mapping(Goal(run).vm_head, run.pp)',
         run'.at \notin {"unmap", "map"} => InForce(cpu.vm_head)'
  PROVE  HostInv'
<1>1. /\ Depth \in Nat /\ Depth' = Depth
      /\ Level(Depth + 1)' = run'
      /\ \A k \in 1 .. Depth : Level(k)' = Level(k)
  BY TopStep
<1>2. Depth' + 1 \in 1 .. Depth' + 1
  BY <1>1
<1>3. \A k \in 1 .. Depth' + 1 : k = Depth + 1 \/ Level(k)'.at \notin Switching
  BY <1>1
<1> QED
  BY <1>1, <1>2, <1>3 DEF HostInv, Switching

-----------------------------------------------------------------------------
(* A step that leaves the lists and what is in force alone.                *)
LEMMA SameHost ==
  ASSUME UNCHANGED <<next, pa, is_mapped, again, host>>
  PROVE  \A h, n :
           /\ Unmapping(h, n)' <=> Unmapping(h, n)
           /\ Mapping(h, n)' <=> Mapping(h, n)
           /\ InForce(h)' <=> InForce(h)
  BY DEF Unmapping, Mapping, InForce, Known, Loops, Reaches, Closed

(* _ucontext gives a stack its first frame, in user mode.                  *)
LEMMA UContextKeeps ==
  ASSUME VmeInv, NEW p \in Proc, UContext(p)
  PROVE  StackInv' /\ UserInv' /\ HostInv'
<1>1. Types /\ StackInv /\ UserInv /\ HostInv
  BY DEF VmeInv
<1>2. /\ proc = Boot /\ p # proc /\ p \in Thread /\ proc \in Thread /\ frames[p] = <<>>
      /\ UNCHANGED <<next, pa, is_mapped, again, cpu, host, pmem, proc, run>>
  BY VmeAssumption DEF UContext, Thread
<1>3. /\ frames'[p] = <<Saved(Here("user", Nil, Nil, TRUE), p, p)>>
      /\ \A t \in Thread : t # p => frames'[t] = frames[t]
  BY <1>1, <1>2 DEF UContext, Types
<1>4. Len(frames[p]) = 0
  BY <1>2
<1>5. /\ Len(frames'[p]) = 1
      /\ \A k \in 1 .. 1 : /\ frames'[p][k].where.at = "user"
                           /\ frames'[p][k].vm_head = p /\ frames'[p][k].ksp = p
  BY <1>3 DEF Saved, Here
<1>6. Depth' = Depth /\ \A k : Level(k)' = Level(k)
  BY <1>2, <1>3 DEF Depth, Level
<1>7. \A t \in Thread : \A d \in Nat \ {0} : d <= Len(frames[t]) => t # p
  BY <1>4
<1>8. ASSUME NEW k \in 1 .. Depth + 1, Level(k).at \in Switching
      PROVE  SwitchInv(k)' /\ Goal(Level(k))' = Goal(Level(k))
  <2>1. SwitchInv(k)
    BY <1>1, <1>8 DEF StackInv
  <2>2. PICK w : w = Level(k)
    OBVIOUS
  <2>3. /\ w.to \in Thread \X (Nat \ {0})
        /\ w.to[1] \in Thread /\ w.to[2] \in Nat \ {0} /\ w.to[2] <= Len(frames[w.to[1]])
    BY <2>1, <2>2 DEF SwitchInv
  <2>4. w.to[1] # p
    BY <1>7, <2>3
  <2>5. frames'[w.to[1]] = frames[w.to[1]] /\ frames'[proc] = frames[proc]
    BY <1>2, <1>3, <2>3, <2>4
  <2>6. Level(k)' = w
    BY <1>6, <2>2
  <2> QED
    BY <1>2, <1>6, <2>1, <2>2, <2>3, <2>5, <2>6 DEF SwitchInv, Goal
<1>9. StackInv'
  <2>1. ASSUME NEW t \in Thread, NEW k \in 1 .. Len(frames'[t])
        PROVE  /\ frames'[t][k].where.at = "user" =>
                    t \in Proc /\ frames'[t][k].vm_head = t /\ frames'[t][k].ksp = t
               /\ t # proc' => frames'[t][k].where.at \notin Switching
    <3>1. CASE t = p
      BY <1>5, <3>1 DEF Switching
    <3>2. CASE t # p
      BY <1>1, <1>2, <1>3, <3>2 DEF StackInv
    <3> QED
      BY <3>1, <3>2
  <2> QED
    BY <1>6, <1>8, <2>1 DEF StackInv
<1>10. HostInv'
  BY <1>1, <1>2, <1>6, <1>8, SameHost DEF HostInv, Switching
<1> QED
  BY <1>1, <1>2, <1>9, <1>10 DEF UserInv

(* A trap pushes what runs, and the handler runs with its address space.   *)
LEMMA TrapKeeps ==
  ASSUME VmeInv, Trap
  PROVE  StackInv' /\ UserInv' /\ HostInv'
<1>1. Types /\ StackInv /\ UserInv /\ HostInv /\ proc \in Thread
  BY DEF VmeInv, Types
<1>2. UNCHANGED <<next, pa, is_mapped, again, cpu, host, proc>>
  BY DEF Trap
<1>3. /\ run' = Here("handler", Nil, Nil, FALSE) /\ run'.at = "handler"
      /\ \A t \in Thread : t # proc => frames'[t] = frames[t]
      /\ frames'[proc] = Append(frames[proc], Saved(run, cpu.vm_head, cpu.ksp))
  BY <1>1 DEF Trap, Types, Here
<1>4. /\ Depth \in Nat /\ Depth' = Depth + 1
      /\ \A k \in 1 .. Depth : frames'[proc][k] = frames[proc][k]
      /\ frames'[proc][Depth + 1] = Saved(run, cpu.vm_head, cpu.ksp)
  <2>1. frames[proc] \in Seq(Context)
    BY <1>1 DEF Types
  <2>2. Saved(run, cpu.vm_head, cpu.ksp) \in Context
    BY <1>1 DEF Saved, Context, Types
  <2> QED
    BY <1>2, <1>3, <2>1, <2>2, AppendProperties, LenProperties DEF Depth
<1>5. /\ \A k \in 1 .. Depth + 1 : Level(k)' = Level(k) /\ frames'[proc][k].where = Level(k)
      /\ \A k : k = Depth + 2 => Level(k)' = run'
  BY <1>2, <1>4 DEF Level, Saved
<1>6. frames'[proc][Depth + 1].vm_head = cpu.vm_head
  BY <1>4 DEF Saved
<1>7. ASSUME NEW k \in 1 .. Depth + 1, Level(k).at \in Switching
      PROVE  SwitchInv(k)' /\ Goal(Level(k))' = Goal(Level(k))
  <2>1. SwitchInv(k)
    BY <1>1, <1>7 DEF StackInv
  <2>0. PICK w : w = Level(k)
    OBVIOUS
  <2>2. /\ w.to \in Thread \X (Nat \ {0}) /\ w.to[2] <= Len(frames[w.to[1]])
        /\ w.to[2] = IF w.to[1] = proc THEN k - 1 ELSE Len(frames[w.to[1]])
    BY <2>0, <2>1 DEF SwitchInv
  <2>3. /\ w.to[2] <= Len(frames'[w.to[1]])
        /\ w.to[2] = IF w.to[1] = proc THEN k - 1 ELSE Len(frames'[w.to[1]])
    BY <1>2, <1>3, <1>4, <2>2 DEF Depth
  <2>4. Goal(w)' = Goal(w)
    <3>1. CASE w.to[1] = proc
      <4>1. w.to[2] \in 1 .. Depth
        BY <1>4, <2>2, <3>1 DEF Depth
      <4> QED
        BY <1>4, <3>1, <4>1 DEF Goal
    <3>2. CASE w.to[1] # proc
      <4>1. w.to[1] \in Thread
        BY <2>2
      <4> QED
        BY <1>3, <3>2, <4>1 DEF Goal
    <3> QED
      BY <3>1, <3>2
  <2>5. \A j \in k .. Depth + 1 : frames'[proc][j].vm_head = cpu.vm_head
    BY <1>4, <1>6, <2>1 DEF SwitchInv
  <2>6. \A j \in k + 1 .. Depth + 2 :
           Level(j)'.at \in {"handler", "iret"} /\ (Level(j)'.at = "iret" => Level(j)'.to[1] = proc)
    <3> SUFFICES ASSUME NEW j \in k + 1 .. Depth + 2
        PROVE /\ Level(j)'.at \in {"handler", "iret"}
              /\ Level(j)'.at = "iret" => Level(j)'.to[1] = proc
      OBVIOUS
    <3>1. CASE j = Depth + 2
      BY <1>3, <1>5, <3>1
    <3>2. CASE j # Depth + 2
      BY <1>4, <1>5, <2>1, <3>2 DEF SwitchInv
    <3> QED
      BY <3>1, <3>2
  <2>7. Level(k)' = w
    BY <1>5, <2>0
  <2>8. w.at = "iret" => Goal(w).vm_head = cpu.vm_head
    BY <2>0, <2>1 DEF SwitchInv
  <2>9. SwitchInv(k)'
    BY <1>2, <1>4, <2>2, <2>3, <2>4, <2>5, <2>6, <2>7, <2>8 DEF SwitchInv, Goal
  <2> QED
    BY <2>0, <2>4, <2>7, <2>9 DEF Goal
<1>8. StackInv'
  <2>1. ASSUME NEW t \in Thread, NEW k \in 1 .. Len(frames'[t])
        PROVE  /\ frames'[t][k].where.at = "user" =>
                    t \in Proc /\ frames'[t][k].vm_head = t /\ frames'[t][k].ksp = t
               /\ t # proc' => frames'[t][k].where.at \notin Switching
    <3>1. CASE t # proc
      BY <1>1, <1>2, <1>3, <3>1 DEF StackInv
    <3>2. CASE t = proc /\ k = Depth + 1
      BY <1>1, <1>2, <1>4, <3>2 DEF UserInv, Saved
    <3>3. CASE t = proc /\ k # Depth + 1
      BY <1>1, <1>2, <1>4, <3>3 DEF StackInv, Depth
    <3> QED
      BY <3>1, <3>2, <3>3
  <2>2. ASSUME NEW k \in 1 .. Depth' + 1, Level(k)'.at \in Switching
        PROVE  SwitchInv(k)'
    <3>1. k # Depth + 2
      BY <1>3, <1>5, <2>2 DEF Switching
    <3> QED
      BY <1>4, <1>5, <1>7, <2>2, <3>1
  <2> QED
    BY <2>1, <2>2 DEF StackInv
<1>9. HostInv'
  <2>1. ASSUME NEW k \in 1 .. Depth' + 1, Level(k)'.at \in {"unmap", "map"}
        PROVE  /\ k \in 1 .. Depth + 1 /\ Level(k)' = Level(k)
               /\ Goal(Level(k))' = Goal(Level(k))
    <3>1. k # Depth + 2
      BY <1>3, <1>5, <2>1
    <3> QED
      BY <1>4, <1>5, <1>7, <2>1, <3>1 DEF Switching
  <2>2. (\A k \in 1 .. Depth' + 1 : Level(k)'.at \notin {"unmap", "map"}) =>
           \A k \in 1 .. Depth + 1 : Level(k).at \notin {"unmap", "map"}
    BY <1>4, <1>5
  <2> QED
    BY <1>1, <1>2, <2>1, <2>2, SameHost DEF HostInv
<1>10. UserInv'
  <2>1. run'.at # "user"
    BY <1>3
  <2>2. pmem'
    BY <1>1 DEF Trap, UserInv
  <2> QED
    BY <2>1, <2>2 DEF UserInv
<1> QED
  BY <1>8, <1>9, <1>10

-----------------------------------------------------------------------------
(* _intr_write changes neither.                                            *)
LEMMA EnableIntrKeeps ==
  ASSUME VmeInv, EnableIntr
  PROVE  StackInv' /\ UserInv' /\ HostInv'
<1>1. /\ run.at = "handler" /\ run'.at = "handler"
      /\ UNCHANGED <<next, pa, is_mapped, again, cpu, host, pmem, proc, frames>>
  BY DEF EnableIntr, VmeInv, Types, Wheres
<1>2. StackInv'
  BY <1>1, TopStack DEF Switching
<1>3. /\ Depth \in Nat /\ Depth' = Depth /\ Level(Depth + 1) = run
      /\ Level(Depth + 1)' = run'
      /\ \A k \in 1 .. Depth : Level(k)' = Level(k)
  BY <1>1, TopStep
<1>4. ASSUME NEW k \in 1 .. Depth + 1, Level(k)'.at \in {"unmap", "map"}
      PROVE  Level(k)' = Level(k) /\ Goal(Level(k))' = Goal(Level(k))
  <2>1. Level(k)' = Level(k)
    BY <1>1, <1>3, <1>4
  <2>2. PICK w : w = Level(k)
    OBVIOUS
  <2> QED
    BY <1>1, <2>1, <2>2 DEF Goal
<1>5. (\A k \in 1 .. Depth + 1 : Level(k)'.at \notin {"unmap", "map"}) =>
         \A k \in 1 .. Depth + 1 : Level(k).at \notin {"unmap", "map"}
  BY <1>1, <1>3
<1>6. HostInv'
  BY <1>1, <1>3, <1>4, <1>5, SameHost DEF VmeInv, HostInv
<1>7. UserInv'
  BY <1>1 DEF VmeInv, UserInv
<1> QED
  BY <1>2, <1>6, <1>7

(* A handler returns: out of a nested trap always to where it came from,   *)
(* whose address space is the present one.                                 *)
LEMMA ReturnKeeps ==
  ASSUME VmeInv, NEW q \in Thread, Return(q)
  PROVE  StackInv' /\ UserInv' /\ HostInv'
<1> DEFINE d == Len(frames[q])
<1>1. /\ run.at = "handler" /\ run'.at \in {"iret", "unmap"} /\ run'.to = <<q, d>>
      /\ run'.to[1] = q /\ run'.to[2] = d
      /\ UNCHANGED <<next, pa, is_mapped, again, cpu, host, pmem, proc, frames>>
  BY DEF Return, Here
<1>2. Types /\ frames[q] \in Seq(Context) /\ d \in Nat \ {0} /\ proc \in Thread
  BY EmptySeq, LenProperties DEF VmeInv, Types, Return
<1>3. /\ run'.at = "iret" => frames[q][d].vm_head = cpu.vm_head
      /\ run'.at = "unmap" =>
           frames[q][d].vm_head # cpu.vm_head /\ run'.pp = First(cpu.vm_head)
  BY DEF Return, Here
<1>4. /\ Depth \in Nat /\ Depth' = Depth /\ Level(Depth + 1) = run
      /\ Level(Depth + 1)' = run'
      /\ \A k \in 1 .. Depth : Level(k)' = Level(k) /\ Level(k) = frames[proc][k].where
  BY <1>1, TopStep
<1> HIDE DEF d
<1>5. q = proc => d = Depth
  BY DEF d, Depth
<1>6. SwitchInv(Depth + 1)'
  <2>1. run'.to \in Thread \X (Nat \ {0}) /\ run'.to[2] <= Len(frames'[run'.to[1]])
    BY <1>1, <1>2 DEF d
  <2>2. run'.to[2] = IF run'.to[1] = proc' THEN Depth ELSE Len(frames'[run'.to[1]])
    BY <1>1, <1>5 DEF d
  <2>3. run'.at = "iret" => frames'[run'.to[1]][run'.to[2]].vm_head = cpu'.vm_head
    BY <1>1, <1>3
  <2>4. \A j \in Depth + 1 .. Depth : FALSE
    BY <1>4
  <2>5. \A j \in Depth + 2 .. Depth + 1 : FALSE
    BY <1>4
  <2>6. (Depth + 1) - 1 = Depth /\ (Depth + 1) + 1 = Depth + 2
    BY <1>4
  <2> QED
    BY <1>4, <2>1, <2>2, <2>3, <2>4, <2>5, <2>6 DEF SwitchInv, Goal
(* In the middle of another switch the handler goes back into it.          *)
<1>7. ASSUME NEW k \in 1 .. Depth, Level(k).at \in Switching
      PROVE  run'.at = "iret" /\ run'.to[1] = proc
  <2>1. InSwitch
    BY <1>2, <1>4, <1>7 DEF InSwitch, Switching, Depth
  <2>2. q = proc
    BY <2>1 DEF Return
  <2>3. SwitchInv(k)
    BY <1>4, <1>7 DEF VmeInv, StackInv
  <2>4. frames[proc][Depth].vm_head = cpu.vm_head
    BY <1>4, <2>3 DEF SwitchInv
  <2> QED
    BY <1>1, <1>3, <1>5, <2>2, <2>4
<1>8. StackInv'
  BY <1>1, <1>6, <1>7, TopStack
<1>9. HostInv'
  <2>1. CASE \E k \in 1 .. Depth : Level(k).at \in Switching
    <3>1. run'.at = "iret"
      BY <1>7, <2>1
    <3>2. ASSUME NEW k \in 1 .. Depth + 1, Level(k)'.at \in {"unmap", "map"}
          PROVE  Level(k)' = Level(k) /\ Goal(Level(k))' = Goal(Level(k))
      <4>1. Level(k)' = Level(k)
        BY <1>4, <3>1, <3>2
      <4>2. PICK w : w = Level(k)
        OBVIOUS
      <4> QED
        BY <1>1, <4>1, <4>2 DEF Goal
    <3>3. (\A k \in 1 .. Depth + 1 : Level(k)'.at \notin {"unmap", "map"}) =>
             \A k \in 1 .. Depth + 1 : Level(k).at \notin {"unmap", "map"}
      BY <1>1, <1>4
    <3> QED
      BY <1>1, <1>4, <3>2, <3>3, SameHost DEF VmeInv, HostInv
  <2>2. CASE \A k \in 1 .. Depth : Level(k).at \notin Switching
    <3>1. \A k \in 1 .. Depth + 1 : Level(k).at \notin {"unmap", "map"}
      BY <1>1, <1>4, <2>2 DEF Switching
    <3>2. InForce(cpu.vm_head)
      BY <3>1 DEF VmeInv, HostInv
    <3>3. Unmapping(cpu.vm_head, First(cpu.vm_head))
      <4>1. cpu.vm_head \in Proc \cup {Nil}
        BY <1>2 DEF Types
      <4>2. CASE cpu.vm_head = Nil
        BY <3>2, <4>2 DEF Unmapping, InForce, First
      <4>3. CASE cpu.vm_head # Nil
        <5>1. ListInv(cpu.vm_head)
          BY <4>1, <4>3 DEF VmeInv
        <5> QED
          BY <3>2, <4>3, <5>1 DEF Unmapping, InForce, First, ListInv
      <4> QED
        BY <4>2, <4>3
    <3>4. run'.at = "unmap" => Unmapping(cpu.vm_head, run.pp)'
      BY <1>1, <1>3, <3>3 DEF Unmapping, Known, Loops, Reaches, Closed
    <3>5. InForce(cpu.vm_head)'
      BY <1>1, <3>2 DEF InForce, Known
    <3>6. run'.at # "map"
      BY <1>1
    <3> QED
      BY <1>1, <2>2, <3>4, <3>5, <3>6, TopHost
  <2> QED
    BY <2>1, <2>2
<1>10. UserInv'
  BY <1>1 DEF VmeInv, UserInv
<1> QED
  BY <1>8, <1>9, <1>10

(* The switch that goes on and the next one of its steps.                  *)
LEMMA SwitchGoesOn ==
  ASSUME VmeInv, run.at \in {"unmap", "map"}, UNCHANGED <<cpu, proc, frames, pmem>>,
         run'.at \in {"unmap", "map"}, run'.to = run.to
  PROVE  StackInv' /\ UserInv'
<1>1. SwitchInv(Depth + 1) /\ Depth \in Nat
  BY SwitchTarget DEF Switching
<1>2. /\ Depth' = Depth /\ Level(Depth + 1) = run /\ Level(Depth + 1)' = run'
  BY TopStep
<1>3. \A k \in 1 .. Depth : Level(k).at \notin Switching
  BY Alone
<1>4. \A j \in Depth + 2 .. Depth + 1 : FALSE
  BY <1>1
<1>5. (Depth + 1) + 1 = Depth + 2
  BY <1>1
<1>6. SwitchInv(Depth + 1)'
  BY <1>1, <1>2, <1>4, <1>5 DEF SwitchInv
<1>7. StackInv'
  BY <1>3, <1>6, TopStack
<1> QED
  BY <1>7 DEF VmeInv, UserInv

-----------------------------------------------------------------------------
(* A node is passed: its address is not in force any more.                 *)
LEMMA UnmapKeeps ==
  ASSUME VmeInv, Unmap
  PROVE  StackInv' /\ UserInv' /\ HostInv'
<1> DEFINE h == cpu.vm_head
           n == run.pp
<1>1. /\ run.at = "unmap" /\ h \in Proc /\ n \in VA /\ Unmapping(h, n) /\ h # Nil
  BY UnmapNode, VmeAssumption DEF Unmap
<1>2. /\ run'.at = "unmap" /\ run'.to = run.to /\ run'.pp = next[h][n]
      /\ UNCHANGED <<next, pa, again, cpu, pmem, proc, frames>>
  BY <1>1 DEF Unmap, VmeInv, Types, Wheres
<1>3. /\ host'[n] = Nil /\ ~ is_mapped'[h][n]
      /\ \A v \in VA \ {n} : host'[v] = host[v] /\ (is_mapped'[h][v] <=> is_mapped[h][v])
  <2>1. is_mapped' = [is_mapped EXCEPT ![h][n] = FALSE]
    BY DEF Unmap
  <2>2. host' = IF is_mapped[h][n] THEN [host EXCEPT ![n] = Nil] ELSE host
    BY DEF Unmap
  <2>3. ~ is_mapped[h][n] => host[n] = Nil
    BY <1>1 DEF Unmapping, Known
  <2>4. host'[n] = Nil /\ \A v \in VA \ {n} : host'[v] = host[v]
    BY <1>1, <2>2, <2>3 DEF VmeInv, Types
  <2>5. ~ is_mapped'[h][n] /\ \A v \in VA \ {n} : is_mapped'[h][v] <=> is_mapped[h][v]
    BY <1>1, <2>1 DEF VmeInv, Types
  <2> QED
    BY <2>4, <2>5
<1> HIDE DEF h, n
<1>4. Known(h)'
  <2>1. h' = h
    BY <1>2 DEF h
  <2> QED
    BY <1>1, <1>3, <2>1 DEF Known, Unmapping
<1>5. Unmapping(cpu.vm_head, run.pp)'
  <2>1. again[h] => Loops(h, next[h][n])
    BY <1>1, LoopsStep DEF Unmapping
  <2>2. ASSUME ~ again[h], NEW v \in VA, host'[v] # Nil PROVE Reaches(h, next[h][n], v)
    <3>1. v # n /\ host[v] # Nil
      BY <1>3, <2>2
    <3>2. Reaches(h, n, v)
      BY <1>1, <2>2, <3>1 DEF Unmapping
    <3> QED
      BY <1>1, <3>1, <3>2, ReachesStep DEF VmeInv
  <2>3. cpu'.vm_head = h /\ run'.pp = next[h][n]
    BY <1>2 DEF h
  <2>4. again'[h] => Loops(h, next[h][n])'
    BY <1>2, <2>1, <2>3 DEF Loops, h, n
  <2>5. ASSUME ~ again'[h], NEW v \in VA, host'[v] # Nil
        PROVE  \A S \in SUBSET VA : (\A k \in S : next'[h][k] \in S \cup {Nil})
                  /\ (run'.pp = Nil \/ run'.pp \in S) => v \in S
    BY <1>2, <2>2, <2>3, <2>5 DEF Reaches, Closed
  <2>6. again'[h] => \E S \in SUBSET VA : run'.pp \in S /\ \A k \in S : next'[h][k] \in S
    BY <1>2, <2>1, <2>3 DEF Loops
  <2> QED
    BY <1>1, <1>4, <2>3, <2>5, <2>6
       DEF Unmapping, Known, Reaches, Closed, Loops, h
<1>6. \A k \in 1 .. Depth : Level(k).at \notin Switching
  BY <1>1, Alone
<1>7. HostInv'
  BY <1>2, <1>5, <1>6, TopHost
<1>8. StackInv' /\ UserInv'
  BY <1>1, <1>2, SwitchGoesOn
<1> QED
  BY <1>7, <1>8

(* At the end of the first loop nothing is in force.                       *)
LEMMA UnmappedKeeps ==
  ASSUME VmeInv, Unmapped
  PROVE  StackInv' /\ UserInv' /\ HostInv'
<1>1. run.at = "unmap" /\ run.pp = Nil
  BY DEF Unmapped
<1>2. /\ run'.at = "map" /\ run'.to = run.to /\ run'.pp = First(Target.vm_head)
      /\ UNCHANGED <<next, pa, is_mapped, again, cpu, host, pmem, proc, frames>>
  BY DEF Unmapped, VmeInv, Types, Wheres
<1>3. \A v \in VA : host[v] = Nil
  <2>1. Unmapping(cpu.vm_head, Nil)
    BY <1>1, UnmapNode
  <2>2. CASE cpu.vm_head = Nil
    BY <2>1, <2>2 DEF Unmapping
  <2>3. CASE cpu.vm_head # Nil
    <3>1. cpu.vm_head \in Proc
      BY <2>3 DEF VmeInv, Types
    <3>2. ~ again[cpu.vm_head]
      BY <2>1, <2>3, <3>1, LoopsStep DEF Unmapping
    <3> QED
      BY <2>1, <2>3, <3>1, <3>2, ReachesNil DEF Unmapping
  <2> QED
    BY <2>2, <2>3
<1>4. Target.vm_head \in Proc \cup {Nil} /\ Target = Goal(run)
  BY <1>1, SwitchTarget DEF Switching, Context
<1>5. Mapping(Target.vm_head, First(Target.vm_head))
  <2>1. CASE Target.vm_head = Nil
    BY <1>3, <2>1 DEF Mapping, Known, First
  <2>2. CASE Target.vm_head # Nil
    <3>1. PICK p \in Proc : p = Target.vm_head
      BY <1>4, <2>2
    <3>2. ListInv(p) /\ p # Nil
      BY <2>2, <3>1 DEF VmeInv
    <3>3. Mapping(p, next[p][Anchor])
      BY <1>3, <3>2 DEF Mapping, Known, ListInv
    <3> QED
      BY <3>1, <3>2, <3>3 DEF First
  <2> QED
    BY <2>1, <2>2
<1>6. PICK g, n : g = Target.vm_head /\ n = First(Target.vm_head)
  OBVIOUS
<1>7. Goal(run)'.vm_head = g /\ run'.pp = n
  BY <1>2, <1>4, <1>6 DEF Goal
<1>8. Mapping(Goal(run).vm_head, run.pp)'
  BY <1>2, <1>5, <1>6, <1>7 DEF Mapping, Known, Loops, Reaches, Closed
<1>9. \A k \in 1 .. Depth : Level(k).at \notin Switching
  BY <1>1, Alone
<1>10. HostInv'
  BY <1>2, <1>8, <1>9, TopHost
<1>11. StackInv' /\ UserInv'
  BY <1>1, <1>2, SwitchGoesOn
<1> QED
  BY <1>10, <1>11

(* A node is passed: its mapping is in force.                              *)
LEMMA MapAllKeeps ==
  ASSUME VmeInv, MapAll
  PROVE  StackInv' /\ UserInv' /\ HostInv'
<1>1. PICK h, n : h = Target.vm_head /\ n = run.pp
  OBVIOUS
<1>2. /\ run.at = "map" /\ h \in Proc /\ n \in VA /\ Mapping(h, n) /\ h # Nil
  BY <1>1, MapNode, VmeAssumption DEF MapAll
<1>3. /\ run'.at = "map" /\ run'.to = run.to /\ run'.pp = next[h][n]
      /\ UNCHANGED <<next, pa, again, cpu, pmem, proc, frames>>
  BY <1>1, <1>2 DEF MapAll, VmeInv, Types, Wheres
<1>4. /\ host'[n] = pa[h][n] /\ is_mapped'[h][n]
      /\ \A v \in VA \ {n} : host'[v] = host[v] /\ (is_mapped'[h][v] <=> is_mapped[h][v])
  <2>1. is_mapped' = [is_mapped EXCEPT ![h][n] = TRUE] /\ host' = [host EXCEPT ![n] = pa[h][n]]
    BY <1>1 DEF MapAll
  <2>2. host'[n] = pa[h][n] /\ \A v \in VA \ {n} : host'[v] = host[v]
    BY <1>2, <2>1 DEF VmeInv, Types
  <2>3. is_mapped'[h][n] /\ \A v \in VA \ {n} : is_mapped'[h][v] <=> is_mapped[h][v]
    BY <1>2, <2>1 DEF VmeInv, Types
  <2> QED
    BY <2>2, <2>3
<1>5. Goal(run)'.vm_head = h
  <2>1. Target = Goal(run)
    BY <1>2, SwitchTarget DEF Switching
  <2> QED
    BY <1>1, <1>3, <2>1 DEF Goal
<1>6. again[h] => Loops(h, next[h][n])
  BY <1>2, LoopsStep DEF Mapping
<1>7. ASSUME ~ again[h], NEW v \in VA PROVE host'[v] = pa[h][v] \/ Reaches(h, next[h][n], v)
  <2>1. CASE v = n
    BY <1>4, <2>1
  <2>2. CASE v # n /\ host[v] = pa[h][v]
    BY <1>4, <2>2
  <2>3. CASE v # n /\ host[v] # pa[h][v]
    <3>1. Reaches(h, n, v)
      BY <1>2, <1>7, <2>3 DEF Mapping
    <3> QED
      BY <1>2, <2>3, <3>1, ReachesStep DEF VmeInv
  <2> QED
    BY <2>1, <2>2, <2>3
<1>8. \A v \in VA : host'[v] \in {Nil, pa[h][v]} /\ (host'[v] # Nil => is_mapped'[h][v])
  BY <1>2, <1>4 DEF Mapping, Known
<1>9. Mapping(Goal(run).vm_head, run.pp)'
  BY <1>2, <1>3, <1>5, <1>6, <1>7, <1>8
     DEF Mapping, Known, Loops, Reaches, Closed
<1>10. \A k \in 1 .. Depth : Level(k).at \notin Switching
  BY <1>2, Alone
<1>11. HostInv'
  BY <1>3, <1>9, <1>10, TopHost
<1>12. StackInv' /\ UserInv'
  BY <1>2, <1>3, SwitchGoesOn
<1> QED
  BY <1>11, <1>12

-----------------------------------------------------------------------------
(* At the end of the second loop everything is in force.                   *)
LEMMA MappedKeeps ==
  ASSUME VmeInv, Mapped
  PROVE  StackInv' /\ UserInv' /\ HostInv'
<1>1. PICK h : h = Target.vm_head
  OBVIOUS
<1>2. /\ run.at = "map" /\ Mapping(h, Nil) /\ h \in Proc \cup {Nil} /\ Target = Goal(run)
  BY <1>1, MapNode, SwitchTarget DEF Mapped, Switching, Context
<1>3. /\ run'.at = "iret" /\ run'.to = run.to /\ cpu'.vm_head = h
      /\ UNCHANGED <<next, pa, is_mapped, again, host, pmem, proc, frames>>
  BY <1>1 DEF Mapped, VmeInv, Types, Wheres
<1>4. /\ Depth \in Nat /\ Depth' = Depth /\ Level(Depth + 1) = run
      /\ Level(Depth + 1)' = run' /\ \A k \in 1 .. Depth : Level(k)' = Level(k)
  BY <1>3, TopStep
<1>5. \A k \in 1 .. Depth : Level(k).at \notin Switching
  BY <1>2, Alone
<1>6. InForce(h)
  <2>1. CASE h = Nil
    BY <1>2, <2>1 DEF Mapping, InForce
  <2>2. CASE h # Nil
    <3>1. ~ again[h]
      BY <1>2, <2>2, LoopsStep DEF Mapping
    <3> QED
      BY <1>2, <2>2, <3>1, ReachesNil DEF Mapping, InForce
  <2> QED
    BY <2>1, <2>2
<1>7. HostInv'
  <2>1. InForce(cpu.vm_head)'
    BY <1>3, <1>6 DEF InForce, Known
  <2>2. \A k \in 1 .. Depth + 1 : Level(k)'.at \notin {"unmap", "map"}
    BY <1>3, <1>4, <1>5 DEF Switching
  <2> QED
    BY <1>4, <2>1, <2>2 DEF HostInv
<1>8. StackInv'
  <2>1. SwitchInv(Depth + 1)
    BY <1>2, SwitchTarget DEF Switching
  <2>2. \A j \in Depth + 1 .. Depth : FALSE
    BY <1>4
  <2>3. \A j \in Depth + 2 .. Depth + 1 : FALSE
    BY <1>4
  <2>4. (Depth + 1) + 1 = Depth + 2
    BY <1>4
  <2>5. SwitchInv(Depth + 1)'
    BY <1>1, <1>2, <1>3, <1>4, <2>1, <2>2, <2>3, <2>4 DEF SwitchInv, Goal
  <2>6. \A k \in 1 .. Depth + 1 : Level(k)'.at \in Switching => SwitchInv(k)'
    <3> SUFFICES ASSUME NEW k \in 1 .. Depth + 1, Level(k)'.at \in Switching
                 PROVE  SwitchInv(k)'
      OBVIOUS
    <3>1. k = Depth + 1
      BY <1>4, <1>5
    <3> QED
      BY <1>4, <2>5, <3>1
  <2> QED
    BY <1>3, <1>4, <2>6 DEF VmeInv, StackInv
<1>9. UserInv'
  BY <1>2, <1>3 DEF VmeInv, UserInv
<1> QED
  BY <1>7, <1>8, <1>9

-----------------------------------------------------------------------------
(* What iret resumes.                                                      *)
LEMMA Resumed ==
  ASSUME VmeInv, Iret
  PROVE  \E q \in Thread, d \in Nat \ {0} :
           /\ proc' = q /\ d = Len(frames[q]) /\ frames[q] \in Seq(Context)
           /\ q = run.to[1] /\ run.at = "iret"
           /\ run' = frames[q][d].where /\ cpu'.ksp = frames[q][d].ksp
           /\ frames[q][d].vm_head = cpu.vm_head /\ cpu'.vm_head = cpu.vm_head
           /\ frames'[q] \in Seq(Context) /\ Len(frames'[q]) = d - 1
           /\ \A k \in 1 .. d - 1 : frames'[q][k] = frames[q][k]
           /\ \A t \in Thread : t # q => frames'[t] = frames[t]
           /\ q = proc => d = Depth
           /\ UNCHANGED <<next, pa, is_mapped, again, host>>
<1>1. run.at = "iret"
  BY DEF Iret
<1>2. /\ SwitchInv(Depth + 1) /\ Depth \in Nat /\ Target = Goal(run) /\ Level(Depth + 1) = run
      /\ run.to[1] \in Thread /\ run.to[2] = Len(frames[run.to[1]])
      /\ run.to[2] \in 1 .. Len(frames[run.to[1]])
  BY <1>1, SwitchTarget DEF Switching, Level
<1>3. PICK q \in Thread, d \in {run.to[2]} : q = run.to[1] /\ d = run.to[2]
  BY <1>2
<1>4. frames[q] \in Seq(Context) /\ Len(frames[q]) \in Nat /\ d = Len(frames[q]) /\ d \in Nat \ {0}
  <2>1. frames[q] \in Seq(Context)
    BY DEF VmeInv, Types
  <2> QED
    BY <1>2, <1>3, <2>1, LenProperties
<1>5. frames' = [frames EXCEPT ![q] = SubSeq(frames[q], 1, d - 1)] /\ proc' = q
  BY <1>3 DEF Iret
<1>6. /\ frames'[q] = SubSeq(frames[q], 1, d - 1)
      /\ \A t \in Thread : t # q => frames'[t] = frames[t]
  BY <1>5 DEF VmeInv, Types
<1>7. /\ frames'[q] \in Seq(Context) /\ Len(frames'[q]) = d - 1
      /\ \A k \in 1 .. d - 1 : frames'[q][k] = frames[q][k]
  BY <1>4, <1>6, SubSeqProperties
<1>8. frames[q][d].vm_head = cpu.vm_head /\ (q = proc => d = Depth)
  BY <1>1, <1>2, <1>3 DEF SwitchInv, Goal
<1>9. /\ run' = frames[q][d].where /\ cpu'.ksp = frames[q][d].ksp
      /\ cpu'.vm_head = cpu.vm_head /\ UNCHANGED <<next, pa, is_mapped, again, host>>
  BY <1>3 DEF Iret, Target, VmeInv, Types
<1> QED
  BY <1>1, <1>3, <1>4, <1>5, <1>6, <1>7, <1>8, <1>9

(* iret takes the last context off a stack, and it runs.                   *)
LEMMA IretKeeps ==
  ASSUME VmeInv, Iret
  PROVE  StackInv' /\ UserInv' /\ HostInv'
<1>1. PICK q \in Thread, d \in Nat \ {0} :
           /\ proc' = q /\ d = Len(frames[q]) /\ frames[q] \in Seq(Context)
           /\ q = run.to[1] /\ run.at = "iret"
           /\ run' = frames[q][d].where /\ cpu'.ksp = frames[q][d].ksp
           /\ frames[q][d].vm_head = cpu.vm_head /\ cpu'.vm_head = cpu.vm_head
           /\ frames'[q] \in Seq(Context) /\ Len(frames'[q]) = d - 1
           /\ \A k \in 1 .. d - 1 : frames'[q][k] = frames[q][k]
           /\ \A t \in Thread : t # q => frames'[t] = frames[t]
           /\ q = proc => d = Depth
           /\ UNCHANGED <<next, pa, is_mapped, again, host>>
  BY Resumed
<1>2. StackInv /\ HostInv /\ proc \in Thread /\ Depth \in Nat
  BY LenProperties DEF VmeInv, Types, Depth
<1>3. UserInv'
  <2>1. run'.at = "user" => q \in Proc /\ cpu'.vm_head = q /\ cpu'.ksp = q
    BY <1>1, <1>2 DEF StackInv
  <2>2. pmem' <=> run'.at # "user"
    BY DEF Iret
  <2> QED
    BY <1>1, <2>1, <2>2 DEF UserInv
<1>4. Depth' = d - 1
  BY <1>1 DEF Depth
<1>5. \A k \in 1 .. d : Level(k)' = frames[q][k].where
  <2> SUFFICES ASSUME NEW k \in 1 .. d PROVE Level(k)' = frames[q][k].where
    OBVIOUS
  <2>1. CASE k <= d - 1
    BY <1>1, <1>4, <2>1 DEF Level
  <2>2. CASE k = d
    BY <1>1, <1>4, <2>2 DEF Level
  <2> QED
    BY <2>1, <2>2
<1>r. ASSUME NEW t \in Thread, NEW k \in 1 .. Len(frames'[t])
      PROVE  k \in 1 .. Len(frames[t]) /\ frames'[t][k] = frames[t][k]
  <2>1. CASE t = q
    <3>1. Len(frames[q]) = d /\ Len(frames'[q]) = d - 1
      BY <1>1
    <3>2. k \in 1 .. d - 1 /\ k \in 1 .. d
      BY <2>1, <3>1
    <3>3. \A j \in 1 .. d - 1 : frames'[q][j] = frames[q][j]
      BY <1>1
    <3> QED
      BY <2>1, <3>1, <3>2, <3>3
  <2>2. CASE t # q
    <3>1. frames'[t] = frames[t]
      BY <1>1, <2>2
    <3> QED
      BY <3>1
  <2> QED
    BY <2>1, <2>2
(* Between frames of the running thread.                                   *)
<1>6. CASE q = proc
  <2>1. /\ d = Depth /\ Level(Depth + 1) = run
        /\ \A k \in 1 .. Depth : Level(k)' = Level(k)
    BY <1>1, <1>2, <1>5, <1>6 DEF Level
  <2>2. ASSUME NEW k \in 1 .. Depth, Level(k).at \in Switching
        PROVE  SwitchInv(k)' /\ Goal(Level(k))' = Goal(Level(k))
    <3>1. SwitchInv(k)
      BY <1>2, <2>2 DEF StackInv
    <3>2. PICK w : w = Level(k)
      OBVIOUS
    <3>3. /\ w.to \in Thread \X (Nat \ {0}) /\ w.to[2] <= Len(frames[w.to[1]])
          /\ w.to[2] = IF w.to[1] = proc THEN k - 1 ELSE Len(frames[w.to[1]])
      BY <3>1, <3>2 DEF SwitchInv
    <3>4. /\ w.to[2] <= Len(frames'[w.to[1]])
          /\ w.to[2] = IF w.to[1] = proc' THEN k - 1 ELSE Len(frames'[w.to[1]])
          /\ Goal(w)' = Goal(w)
      <4>1. CASE w.to[1] = proc
        BY <1>1, <1>6, <2>1, <3>3, <4>1 DEF Goal
      <4>2. CASE w.to[1] # proc
        BY <1>1, <1>6, <3>3, <4>2 DEF Goal
      <4> QED
        BY <4>1, <4>2
    <3>5. Level(k)' = w
      BY <2>1, <3>2
    <3>6. w.at = "iret" => Goal(w)'.vm_head = cpu'.vm_head
      BY <1>1, <3>1, <3>2, <3>4 DEF SwitchInv
    <3>7. \A j \in k .. Depth - 1 : frames'[proc'][j].vm_head = cpu'.vm_head
      <4>1. \A j \in k .. Depth - 1 : j \in 1 .. d - 1 /\ j \in k .. Depth
        BY <1>2, <2>1
      <4>2. \A j \in k .. Depth : frames[proc][j].vm_head = cpu.vm_head
        BY <3>1 DEF SwitchInv
      <4> QED
        BY <1>1, <1>6, <4>1, <4>2
    <3>8. \A j \in k + 1 .. Depth :
             Level(j)'.at \in {"handler", "iret"} /\ (Level(j)'.at = "iret" => Level(j)'.to[1] = proc')
      BY <1>1, <1>2, <1>6, <2>1, <3>1 DEF SwitchInv
    <3>9. Depth' = Depth - 1 /\ Depth' + 1 = Depth
      BY <1>2, <1>4, <2>1
    <3>10. SwitchInv(k)'
      BY <3>3, <3>4, <3>5, <3>6, <3>7, <3>8, <3>9 DEF SwitchInv, Goal
    <3> QED
      BY <3>2, <3>4, <3>5, <3>10 DEF Goal
  <2>3. Depth' + 1 = Depth
    BY <1>2, <1>4, <2>1
  <2>4. StackInv'
    <3>1. \A t \in Thread : \A k \in 1 .. Len(frames'[t]) :
            k \in 1 .. Len(frames[t]) /\ frames'[t][k] = frames[t][k]
      BY <1>r
    <3> QED
      BY <1>1, <1>2, <1>6, <2>1, <2>2, <2>3, <3>1 DEF StackInv
  <2>5. (\A k \in 1 .. Depth : Level(k)'.at \notin {"unmap", "map"}) =>
           \A k \in 1 .. Depth + 1 : Level(k).at \notin {"unmap", "map"}
    BY <1>1, <1>2, <2>1
  <2>6. HostInv'
    <3>1. ASSUME NEW k \in 1 .. Depth
          PROVE  /\ Level(k)'.at = "unmap" => Unmapping(cpu.vm_head, Level(k).pp)'
                 /\ Level(k)'.at = "map" => Mapping(Goal(Level(k)).vm_head, Level(k).pp)'
      <4>1. k \in 1 .. Depth + 1 /\ Level(k)' = Level(k)
        BY <1>2, <2>1
      <4>2. Level(k).at = "unmap" => Unmapping(cpu.vm_head, Level(k).pp)
        BY <1>2, <4>1 DEF HostInv
      <4>3. Level(k).at = "map" =>
              Mapping(Goal(Level(k)).vm_head, Level(k).pp) /\ Goal(Level(k))' = Goal(Level(k))
        BY <1>2, <2>2, <4>1 DEF HostInv, Switching
      <4> QED
        BY <1>1, <4>1, <4>2, <4>3, SameHost
    <3>2. (\A k \in 1 .. Depth : Level(k)'.at \notin {"unmap", "map"}) => InForce(cpu.vm_head)'
      BY <1>1, <1>2, <2>5, SameHost DEF HostInv
    <3> QED
      BY <2>3, <3>1, <3>2 DEF HostInv
  <2> QED
    BY <1>3, <2>4, <2>6
(* To another thread, which no switch has left.                            *)
<1>7. CASE q # proc
  <2>1. \A k \in 1 .. Depth :
           Level(k) = frames[proc][k].where /\ frames[proc][k].where.at \notin Switching
    BY <1>1, <1>7, Alone
  <2>2. \A k \in 1 .. d : Level(k)'.at \notin Switching
    BY <1>1, <1>2, <1>5, <1>7 DEF StackInv
  <2>3. Depth' + 1 = d
    BY <1>4
  <2>4. StackInv'
    <3>1. \A t \in Thread : \A k \in 1 .. Len(frames'[t]) :
            k \in 1 .. Len(frames[t]) /\ frames'[t][k] = frames[t][k]
      BY <1>r
    <3>2. \A k \in 1 .. Len(frames[proc]) : frames[proc][k].where.at \notin Switching
      BY <2>1 DEF Depth
    <3>3. ASSUME NEW t \in Thread, NEW k \in 1 .. Len(frames'[t])
          PROVE  /\ frames'[t][k].where.at = "user" =>
                      t \in Proc /\ frames'[t][k].vm_head = t /\ frames'[t][k].ksp = t
                 /\ t # proc' => frames'[t][k].where.at \notin Switching
      <4>1. k \in 1 .. Len(frames[t]) /\ frames'[t][k] = frames[t][k]
        BY <3>1
      <4>2. t # proc' => frames[t][k].where.at \notin Switching
        BY <1>1, <1>2, <3>2, <4>1 DEF StackInv
      <4> QED
        BY <1>2, <4>1, <4>2 DEF StackInv
    <3> QED
      BY <2>2, <2>3, <3>3 DEF StackInv
  <2>5. InForce(cpu.vm_head)
    <3>1. Level(Depth + 1) = run
      BY <1>2 DEF Level
    <3>2. \A k \in 1 .. Depth + 1 : Level(k).at \notin {"unmap", "map"}
      BY <1>1, <1>2, <2>1, <3>1 DEF Switching
    <3> QED
      BY <1>2, <3>2 DEF HostInv
  <2>6. InForce(cpu.vm_head)'
    BY <1>1, <2>5 DEF InForce, Known
  <2>7. HostInv'
    BY <2>2, <2>3, <2>6 DEF HostInv, Switching
  <2> QED
    BY <1>3, <2>4, <2>7
<1> QED
  BY <1>6, <1>7

-----------------------------------------------------------------------------
(* VmeInv holds at first, and every step keeps it.                         *)
LEMMA VmeFirst == VmeInit => VmeInv
<1> SUFFICES ASSUME VmeInit PROVE VmeInv
  OBVIOUS
<1>1. Types
  BY DEF VmeInit, Types, Here, Wheres, Thread, Context
<1>2. /\ Depth = 0 /\ proc = Boot /\ run.at = "handler"
      /\ \A t \in Thread : Len(frames[t]) = 0
      /\ \A k \in 1 .. 1 : Level(k) = run
  BY DEF VmeInit, Here, Thread, Depth, Level
<1>3. \A p \in Proc : ListInv(p)
  BY DEF VmeInit, ListInv
<1>4. UserInv
  BY <1>2 DEF UserInv, VmeInit
<1>5. \A k \in 1 .. Depth + 1 : Level(k).at = "handler"
  BY <1>2
<1>6. StackInv
  <2>1. \A t \in Thread : \A k \in 1 .. Len(frames[t]) : FALSE
    BY <1>2
  <2> QED
    BY <1>5, <2>1 DEF StackInv, Switching
<1>7. InForce(cpu.vm_head)
  BY DEF InForce, Known, VmeInit
<1>8. HostInv
  BY <1>5, <1>7 DEF HostInv
<1> QED
  BY <1>1, <1>3, <1>4, <1>6, <1>8 DEF VmeInv

LEMMA VmeStep == VmeInv /\ VmeNext => VmeInv'
<1> SUFFICES ASSUME VmeInv, VmeNext PROVE VmeInv'
  OBVIOUS
<1>1. Types'
  BY TypesKept
<1>2. (\A p \in Proc : ListInv(p)') /\ StackInv' /\ UserInv' /\ HostInv'
  <2>1. CASE \E p \in Proc : UContext(p)
    <3>1. UNCHANGED <<next, pa, again>>
      BY <2>1 DEF UContext
    <3> QED
      BY <2>1, <3>1, UContextKeeps, SameLists DEF VmeInv
  <2>2. CASE \E r \in Requests : Map(r[1], r[2], r[3])
    <3>1. PICK p \in Proc, v \in VA, f \in PA : Map(p, v, f)
      BY <2>2, RequestsAssumption
    <3> QED
      BY <3>1, MapKeepsLists, MapKeeps
  <2>3. CASE \E q \in Thread : Return(q)
    <3>1. UNCHANGED <<next, pa, again>>
      BY <2>3 DEF Return
    <3> QED
      BY <2>3, <3>1, ReturnKeeps, SameLists DEF VmeInv
  <2>4. CASE Trap
    <3>1. UNCHANGED <<next, pa, again>>
      BY <2>4 DEF Trap
    <3> QED
      BY <2>4, <3>1, TrapKeeps, SameLists DEF VmeInv
  <2>5. CASE EnableIntr
    <3>1. UNCHANGED <<next, pa, again>>
      BY <2>5 DEF EnableIntr
    <3> QED
      BY <2>5, <3>1, EnableIntrKeeps, SameLists DEF VmeInv
  <2>6. CASE Unmap
    <3>1. UNCHANGED <<next, pa, again>>
      BY <2>6 DEF Unmap
    <3> QED
      BY <2>6, <3>1, UnmapKeeps, SameLists DEF VmeInv
  <2>7. CASE Unmapped
    <3>1. UNCHANGED <<next, pa, again>>
      BY <2>7 DEF Unmapped
    <3> QED
      BY <2>7, <3>1, UnmappedKeeps, SameLists DEF VmeInv
  <2>8. CASE MapAll
    <3>1. UNCHANGED <<next, pa, again>>
      BY <2>8 DEF MapAll
    <3> QED
      BY <2>8, <3>1, MapAllKeeps, SameLists DEF VmeInv
  <2>9. CASE Mapped
    <3>1. UNCHANGED <<next, pa, again>>
      BY <2>9 DEF Mapped
    <3> QED
      BY <2>9, <3>1, MappedKeeps, SameLists DEF VmeInv
  <2>10. CASE Iret
    <3>1. UNCHANGED <<next, pa, again>>
      BY <2>10 DEF Iret
    <3> QED
      BY <2>10, <3>1, IretKeeps, SameLists DEF VmeInv
  <2> QED
    BY <2>1, <2>2, <2>3, <2>4, <2>5, <2>6, <2>7, <2>8, <2>9, <2>10 DEF VmeNext
<1> QED
  BY <1>1, <1>2 DEF VmeInv

(* Every reachable state of the address spaces satisfies VmeInv: the lists *)
(* loop or have every mapping, a switch is on one stack only, and what is  *)
(* in force is what its loops have left (am/src/native/vme.c, cte.c).      *)
THEOREM VmeInvariant == NatSpec => []VmeInv
<1>1. NatInit => VmeInv
  BY VmeFirst DEF NatInit
<1>2. VmeInv /\ [NatNext]_natVars => VmeInv'
  <2> SUFFICES ASSUME VmeInv, [NatNext]_natVars PROVE VmeInv'
    OBVIOUS
  <2>1. CASE Memory
    BY <2>1, VmeStep DEF Memory
  <2>2. CASE UNCHANGED vmeVars
    <3>1. UNCHANGED <<next, pa, is_mapped, again, cpu, host, pmem, proc, run, frames>>
      BY <2>2 DEF vmeVars
    <3>2. Types'
      BY <3>1 DEF VmeInv, Types
    <3>3. \A p \in Proc : ListInv(p)'
      BY <3>1, SameLists DEF VmeInv
    <3>4. StackInv' /\ Depth' = Depth /\ \A k : Level(k)' = Level(k)
      BY <3>1, SameStack DEF VmeInv
    <3>5. UserInv'
      BY <3>1 DEF VmeInv, UserInv
    <3>6. HostInv'
      BY <3>1, <3>4, SameHost DEF VmeInv, HostInv, Goal
    <3> QED
      BY <3>2, <3>3, <3>4, <3>5, <3>6 DEF VmeInv
  <2> QED
    BY <2>1, <2>2 DEF NatNext, natVars, AudioProgram, AudioThread, Keyboard
<1> QED
  BY <1>1, <1>2, PTL DEF NatSpec

(* A process in user mode finds exactly the pages _map has given it, with  *)
(* the contents given last, no physical memory, and its own kernel stack.  *)
THEOREM OwnPagesOnly == NatSpec => []NativeIsolation
<1>1. VmeInv => NativeIsolation
  <2> SUFFICES ASSUME VmeInv, run.at = "user" PROVE NativeIsolation
    BY DEF VmeInv, UserInv, NativeIsolation
  <2>1. proc \in Proc /\ cpu.vm_head = proc /\ cpu.ksp = proc /\ ~ pmem /\ proc # Nil
    BY VmeAssumption DEF VmeInv, UserInv
  <2>2. Depth \in Nat /\ Level(Depth + 1) = run
    BY LenProperties DEF VmeInv, Types, Depth, Level
  <2>3. \A k \in 1 .. Depth + 1 : Level(k).at \notin {"unmap", "map"}
    <3> SUFFICES ASSUME NEW k \in 1 .. Depth + 1, Level(k).at \in {"unmap", "map"} PROVE FALSE
      OBVIOUS
    <3>1. SwitchInv(k)
      BY DEF VmeInv, StackInv, Switching
    <3>2. k # Depth + 1 /\ Depth + 1 \in k + 1 .. Depth + 1
      BY <2>2
    <3> QED
      BY <2>2, <3>1, <3>2 DEF SwitchInv
  <2>4. InForce(proc)
    BY <2>1, <2>3 DEF VmeInv, HostInv
  <2>5. host = pa[proc]
    <3>1. host \in [VA -> PA \cup {Nil}] /\ pa[proc] \in [VA -> PA \cup {Nil}]
      BY <2>1 DEF VmeInv, Types
    <3> QED
      BY <2>1, <2>4, <3>1 DEF InForce
  <2> QED
    BY <2>1, <2>5 DEF NativeIsolation
<1> QED
  BY <1>1, VmeInvariant, PTL
-----------------------------------------------------------------------------
(* How a list ends.  Walk follows it for as many steps as there are pages: *)
(* what it comes to depends on next alone.                                 *)

(* Every set of numbers has a least one.                                   *)
LEMMA LeastElement ==
  ASSUME NEW T \in SUBSET Nat, T # {}
  PROVE  \E x \in T : \A y \in T : x <= y
<1>1. PICK x \in T : \A y \in T : ~ (<<y, x>> \in OpToRel(<, Nat))
  BY NatLessThanWellFounded, WFMin
<1>2. \A y \in T : ~ (y < x)
  BY <1>1 DEF OpToRel
<1> QED BY <1>2

(* A set of numbers with 0 that goes on is all numbers.                    *)
LEMMA Induct ==
  ASSUME NEW S \in SUBSET Nat, 0 \in S, \A n \in S : n + 1 \in S
  PROVE  S = Nat
<1> SUFFICES ASSUME Nat \ S # {} PROVE FALSE
  OBVIOUS
<1>1. PICK x \in Nat \ S : \A y \in Nat \ S : x <= y
  BY LeastElement
<1>2. x - 1 \in S /\ x > 0
  BY <1>1
<1> QED BY <1>1, <1>2

Steps == Cardinality(VA) + 1
After(p, n) == IF n = Nil THEN Nil ELSE next[p][n]
IsWalk(p, h) ==
  h = [k \in 0 .. Steps |->
         IF k = 0 THEN Anchor ELSE IF h[k - 1] = Nil THEN Nil ELSE next[p][h[k - 1]]]
At(p) == CHOOSE h : IsWalk(p, h)

LEMMA StepsType == Steps \in Nat \ {0}
BY VmeAssumption, FS_CardinalityType DEF Steps

(* The walk exists: any part of it can be continued.                       *)
LEMMA WalkExists ==
  ASSUME Types, NEW p \in Proc
  PROVE  \E h : IsWalk(p, h)
<1> DEFINE V == VA \cup {Anchor, Nil}
           Part(m, h) == /\ h \in [0 .. m -> V] /\ h[0] = Anchor
                         /\ \A k \in 1 .. m : h[k] = After(p, h[k - 1])
           S == {m \in Nat : \E h : Part(m, h)}
<1>1. ASSUME NEW n \in V PROVE After(p, n) \in V
  BY <1>1 DEF After, Types
<1>2. 0 \in S
  <2>1. Part(0, [k \in 0 .. 0 |-> Anchor]) OBVIOUS
  <2> QED BY <2>1
<1>3. ASSUME NEW m \in S PROVE m + 1 \in S
  <2>1. PICK h : Part(m, h) BY <1>3
  <2> DEFINE g == [k \in 0 .. m + 1 |-> IF k <= m THEN h[k] ELSE After(p, h[m])]
  <2>2. h[m] \in V /\ m \in Nat BY <2>1
  <2>3. \A k \in 0 .. m : g[k] = h[k] OBVIOUS
  <2>4. g[m + 1] = After(p, h[m]) /\ After(p, h[m]) \in V BY <1>1, <2>2
  <2>5. g \in [0 .. m + 1 -> V]
    <3>1. ASSUME NEW k \in 0 .. m + 1 PROVE g[k] \in V
      <4>1. k \in 0 .. m \/ k = m + 1 BY <2>2
      <4> QED BY <2>1, <2>3, <2>4, <4>1
    <3> QED BY <3>1
  <2>6. ASSUME NEW k \in 1 .. m + 1 PROVE g[k] = After(p, g[k - 1])
    <3>1. k \in 1 .. m \/ k = m + 1 BY <2>2
    <3>2. k - 1 \in 0 .. m /\ (k \in 1 .. m => k \in 0 .. m) /\ (m + 1) - 1 = m BY <2>2
    <3> HIDE DEF g
    <3> QED BY <2>1, <2>3, <2>4, <3>1, <3>2
  <2>7. g[0] = Anchor BY <2>1, <2>2, <2>3
  <2> HIDE DEF g
  <2>8. Part(m + 1, g) BY <2>5, <2>6, <2>7
  <2> QED BY <2>2, <2>8
<1>4. S = Nat
  <2> HIDE DEF S
  <2>1. S \in SUBSET Nat BY DEF S
  <2> QED BY <1>2, <1>3, <2>1, Induct
<1>5. PICK h : Part(Steps, h) BY <1>4, StepsType
<1>6. IsWalk(p, h)
  <2>1. \A k \in 0 .. Steps :
          h[k] = IF k = 0 THEN Anchor ELSE IF h[k - 1] = Nil THEN Nil ELSE next[p][h[k - 1]]
    <3> SUFFICES ASSUME NEW k \in 0 .. Steps, k # 0 PROVE h[k] = After(p, h[k - 1])
      BY <1>5 DEF After
    <3> QED BY <1>5, StepsType
  <2> QED BY <1>5, <2>1 DEF IsWalk
<1> QED BY <1>6

(* What Walk says, step by step.                                           *)
LEMMA WalkSteps ==
  ASSUME Types, NEW p \in Proc
  PROVE  /\ At(p)[0] = Anchor
         /\ \A k \in 1 .. Steps : At(p)[k] = After(p, At(p)[k - 1])
         /\ Walk(p) = {At(p)[k] : k \in 1 .. Steps}
<1>1. IsWalk(p, At(p)) BY WalkExists, Zenon DEF At
<1> DEFINE h == At(p)
<1> HIDE DEF h
<1>2. h = [k \in 0 .. Steps |->
             IF k = 0 THEN Anchor ELSE IF h[k - 1] = Nil THEN Nil ELSE next[p][h[k - 1]]]
  BY <1>1 DEF IsWalk, h
<1>3. h[0] = Anchor BY <1>2, StepsType
<1>4. \A k \in 1 .. Steps : h[k] = After(p, h[k - 1]) BY <1>2, StepsType DEF After
<1>5. Walk(p) = {h[k] : k \in 1 .. Steps}
  <2> DEFINE at[k \in 0 .. Cardinality(VA) + 1] ==
               IF k = 0 THEN Anchor ELSE IF at[k - 1] = Nil THEN Nil ELSE next[p][at[k - 1]]
  <2>1. at = h BY DEF At, IsWalk, Steps, h
  <2>2. Walk(p) = {at[k] : k \in 1 .. Cardinality(VA) + 1} BY DEF Walk
  <2> HIDE DEF at
  <2> QED BY <2>1, <2>2 DEF Steps
<1> QED BY <1>3, <1>4, <1>5 DEF h

(* A list that loops is walked for ever.                                   *)
LEMMA LoopNeverEnds ==
  ASSUME Types, NEW p \in Proc, Loops(p, next[p][Anchor])
  PROVE  ~ Ends(p)
<1>1. PICK L \in SUBSET VA : next[p][Anchor] \in L /\ \A k \in L : next[p][k] \in L
  BY DEF Loops
<1> DEFINE h == At(p)
           S == {m \in Nat : m + 1 \in 1 .. Steps => h[m + 1] \in L}
<1> HIDE DEF h
<1>2. h[0] = Anchor /\ \A k \in 1 .. Steps : h[k] = After(p, h[k - 1])
  BY WalkSteps DEF h
<1>3. 0 \in S
  <2>1. 1 \in 1 .. Steps /\ 1 - 1 = 0 /\ 0 + 1 = 1 BY StepsType
  <2>2. h[1] = After(p, Anchor) BY <1>2, <2>1
  <2> QED BY <1>1, <2>1, <2>2, VmeAssumption DEF After
<1>4. ASSUME NEW m \in S PROVE m + 1 \in S
  <2> SUFFICES ASSUME (m + 1) + 1 \in 1 .. Steps PROVE h[(m + 1) + 1] \in L
    OBVIOUS
  <2>1. m + 1 \in 1 .. Steps /\ ((m + 1) + 1) - 1 = m + 1 BY StepsType
  <2>2. h[m + 1] \in L BY <2>1
  <2>3. h[(m + 1) + 1] = After(p, h[m + 1]) BY <1>2, <2>1
  <2> QED BY <1>1, <2>2, <2>3, VmeAssumption DEF After
<1>5. S = Nat
  <2> HIDE DEF S
  <2>1. S \in SUBSET Nat BY DEF S
  <2> QED BY <1>3, <1>4, <2>1, Induct
<1>6. ASSUME NEW k \in 1 .. Steps PROVE h[k] # Nil
  <2>1. k - 1 \in Nat /\ (k - 1) + 1 = k BY StepsType
  <2>2. h[k] \in L BY <1>5, <2>1
  <2> QED BY <2>2, VmeAssumption
<1> QED BY <1>6, WalkSteps DEF Ends, h

(* A list that was not given an address twice is a line: f are its nodes.  *)
Line(p, n, f) ==
  /\ n \in Nat /\ f \in [0 .. n -> VA \cup {Anchor}] /\ f[0] = Anchor
  /\ \A i \in 1 .. n : f[i] \in VA /\ next[p][f[i - 1]] = f[i]
  /\ next[p][f[n]] = Nil
  /\ \A i \in 1 .. n : \A j \in 1 .. n : f[i] = f[j] => i = j
  /\ {v \in VA : pa[p][v] # Nil} = {f[i] : i \in 1 .. n}

LineInv == \A p \in Proc : ~ again[p] => \E n, f : Line(p, n, f)

(* The walk along a line: its nodes, and then the end.                     *)
LEMMA LineEnds ==
  ASSUME Types, NEW p \in Proc, NEW n, NEW f, Line(p, n, f)
  PROVE  Ends(p) /\ {v \in VA : pa[p][v] # Nil} = Walk(p) \ {Nil}
<1>1. n \in Nat /\ n + 1 <= Steps
  <2>1. [i \in 1 .. n |-> f[i]] \in Injection(1 .. n, VA)
    <3> DEFINE e == [i \in 1 .. n |-> f[i]]
    <3>1. e \in [1 .. n -> VA] BY DEF Line
    <3>2. \A a, b \in 1 .. n : e[a] = e[b] => a = b BY DEF Line
    <3> HIDE DEF e
    <3>3. DOMAIN e = 1 .. n BY <3>1
    <3>4. IsInjective(e) BY <3>2, <3>3 DEF IsInjective
    <3>5. e \in Injection(1 .. n, VA) BY <3>1, <3>4 DEF Injection
    <3> QED BY <3>5 DEF e
  <2>2. Cardinality(1 .. n) <= Cardinality(VA) BY <2>1, FS_Injection, VmeAssumption
  <2>3. n \in Nat /\ Cardinality(1 .. n) = n
    <3>1. n \in Nat /\ 1 \in Int /\ n \in Int BY DEF Line
    <3>2. Cardinality(1 .. n) = IF 1 > n THEN 0 ELSE n - 1 + 1 BY <3>1, FS_Interval
    <3> QED BY <3>1, <3>2
  <2>4. Cardinality(VA) \in Nat BY VmeAssumption, FS_CardinalityType
  <2> QED BY <2>2, <2>3, <2>4 DEF Steps
<1> DEFINE h == At(p)
           S == {m \in Nat : m <= Steps => h[m] = IF m <= n THEN f[m] ELSE Nil}
<1> HIDE DEF h
<1>2. h[0] = Anchor /\ \A k \in 1 .. Steps : h[k] = After(p, h[k - 1])
  BY WalkSteps DEF h
<1>3. 0 \in S BY <1>1, <1>2 DEF Line
<1>4. ASSUME NEW m \in S PROVE m + 1 \in S
  <2> SUFFICES ASSUME m + 1 <= Steps
               PROVE  h[m + 1] = IF m + 1 <= n THEN f[m + 1] ELSE Nil
    OBVIOUS
  <2>1. m + 1 \in 1 .. Steps /\ (m + 1) - 1 = m /\ m <= Steps BY StepsType
  <2>2. h[m + 1] = After(p, h[m]) /\ h[m] = IF m <= n THEN f[m] ELSE Nil BY <1>2, <2>1
  <2>3. CASE m + 1 <= n
    <3>1. m + 1 \in 1 .. n /\ m \in 0 .. n BY <1>1, <2>3
    <3>2. h[m] = f[m] /\ f[m] # Nil BY <1>1, <2>2, <2>3, <3>1, VmeAssumption DEF Line
    <3>3. next[p][f[m]] = f[m + 1] BY <2>1, <3>1 DEF Line
    <3> QED BY <2>2, <2>3, <3>2, <3>3 DEF After
  <2>4. CASE m = n
    <3>1. h[m] = f[n] /\ next[p][f[n]] = Nil BY <1>1, <2>2, <2>4 DEF Line
    <3> QED BY <1>1, <2>2, <2>4, <3>1 DEF After
  <2>5. CASE m > n
    <3>1. h[m] = Nil BY <1>1, <2>2, <2>5
    <3> QED BY <1>1, <2>2, <2>5, <3>1 DEF After
  <2> QED BY <1>1, <2>3, <2>4, <2>5
<1>5. S = Nat
  <2> HIDE DEF S
  <2>1. S \in SUBSET Nat BY DEF S
  <2> QED BY <1>3, <1>4, <2>1, Induct
<1>6. \A k \in 1 .. Steps : h[k] = IF k <= n THEN f[k] ELSE Nil
  <2> SUFFICES ASSUME NEW k \in 1 .. Steps PROVE h[k] = IF k <= n THEN f[k] ELSE Nil
    OBVIOUS
  <2>1. k \in S /\ k <= Steps BY <1>5, StepsType
  <2> QED BY <2>1
<1>7. Walk(p) = {h[k] : k \in 1 .. Steps} BY WalkSteps DEF h
<1>8. Nil \in Walk(p)
  <2>1. n + 1 \in 1 .. Steps /\ ~ (n + 1 <= n) BY <1>1
  <2> QED BY <1>6, <1>7, <2>1
<1>9. Walk(p) \ {Nil} = {f[i] : i \in 1 .. n}
  <2>1. ASSUME NEW i \in 1 .. n PROVE f[i] # Nil /\ i \in 1 .. Steps /\ i <= n
    <3>1. f[i] \in VA BY DEF Line
    <3> QED BY <1>1, <3>1, VmeAssumption, StepsType
  <2>2. ASSUME NEW k \in 1 .. Steps, h[k] # Nil PROVE k \in 1 .. n /\ h[k] = f[k]
    BY <1>1, <1>6, <2>2
  <2> QED BY <1>6, <1>7, <2>1, <2>2
<1> QED BY <1>8, <1>9 DEF Ends, Line

(* _map of a new address puts its node in front of the line.               *)
LEMMA LineGrows ==
  ASSUME Types, NEW p \in Proc, NEW v \in VA, NEW x \in PA, NEW n, NEW f, Line(p, n, f),
         pa[p][v] = Nil, pa' = [pa EXCEPT ![p][v] = x],
         next' = [next EXCEPT ![p] = [@ EXCEPT ![v] = next[p][Anchor], ![Anchor] = v]]
  PROVE  \E m, g : Line(p, m, g)'
<1> DEFINE g == [i \in 0 .. n + 1 |-> IF i = 0 THEN Anchor ELSE IF i = 1 THEN v ELSE f[i - 1]]
<1>1. /\ next'[p][Anchor] = v /\ next'[p][v] = next[p][Anchor]
      /\ \A k \in VA \ {v} : next'[p][k] = next[p][k]
      /\ pa'[p][v] = x /\ \A k \in VA \ {v} : pa'[p][k] = pa[p][k]
      /\ x # Nil /\ v # Anchor /\ Anchor \notin VA
  BY VmeAssumption DEF Types
<1>2. /\ n \in Nat /\ f \in [0 .. n -> VA \cup {Anchor}] /\ f[0] = Anchor
      /\ \A i \in 1 .. n : f[i] \in VA /\ next[p][f[i - 1]] = f[i] /\ f[i] # v
      /\ next[p][f[n]] = Nil
      /\ \A i \in 1 .. n : \A j \in 1 .. n : f[i] = f[j] => i = j
      /\ {k \in VA : pa[p][k] # Nil} = {f[i] : i \in 1 .. n}
  BY DEF Line
<1>3. /\ g[0] = Anchor /\ g[1] = v
      /\ \A i \in 1 .. n : g[i + 1] = f[i] /\ i + 1 \in 2 .. n + 1
      /\ \A i \in 2 .. n + 1 : i - 1 \in 1 .. n /\ g[i] = f[i - 1]
      /\ \A i \in 1 .. n + 1 : i = 1 \/ i \in 2 .. n + 1
  BY <1>2
<1>4. g \in [0 .. n + 1 -> VA \cup {Anchor}]
  <2>1. \A i \in 0 .. n + 1 : i = 0 \/ i = 1 \/ i \in 2 .. n + 1 BY <1>2
  <2>2. \A i \in 0 .. n + 1 : g[i] \in VA \cup {Anchor} BY <1>2, <1>3, <2>1
  <2> QED BY <2>2
<1> HIDE DEF g
<1>5. ASSUME NEW i \in 1 .. n + 1 PROVE g[i] \in VA /\ next'[p][g[i - 1]] = g[i]
  <2>1. CASE i = 1
    <3>1. i - 1 = 0 /\ g[i] = v BY <1>3, <2>1
    <3> QED BY <1>1, <1>3, <3>1
  <2>2. CASE i = 2
    <3>1. i \in 2 .. n + 1 /\ 1 \in 1 .. n /\ 2 - 1 = 1 BY <1>2, <2>2
    <3>2. g[i] = f[1] /\ g[i - 1] = v
      <4>1. i - 1 = 1 BY <2>2
      <4> QED BY <1>3, <3>1, <4>1
    <3>3. f[1] \in VA /\ next[p][f[1 - 1]] = f[1] BY <1>2, <3>1
    <3>4. next[p][Anchor] = f[1]
      <4>1. 1 - 1 = 0 OBVIOUS
      <4> QED BY <1>2, <3>3, <4>1
    <3> QED BY <1>1, <3>2, <3>3, <3>4
  <2>3. CASE i > 2
    <3>1. i \in 2 .. n + 1 /\ i - 1 \in 2 .. n + 1 /\ i - 1 \in 1 .. n /\ i - 1 - 1 \in 1 .. n
      BY <1>2, <2>3
    <3>2. g[i] = f[i - 1] /\ g[i - 1] = f[i - 1 - 1] BY <1>3, <3>1
    <3>3. f[i - 1] \in VA /\ f[i - 1 - 1] \in VA \ {v} /\ next[p][f[i - 1 - 1]] = f[i - 1]
      BY <1>2, <3>1
    <3> QED BY <1>1, <3>2, <3>3
  <2> QED BY <1>2, <2>1, <2>2, <2>3
<1>6. next'[p][g[n + 1]] = Nil
  <2>1. CASE n = 0 BY <1>1, <1>2, <1>3, <2>1
  <2>2. CASE n # 0
    <3>1. n \in 1 .. n BY <1>2, <2>2
    <3>2. g[n + 1] = f[n] /\ f[n] \in VA \ {v} /\ next[p][f[n]] = Nil BY <1>2, <1>3, <3>1
    <3>3. next'[p][f[n]] = next[p][f[n]] BY <1>1, <3>2
    <3> QED BY <3>2, <3>3
  <2> QED BY <2>1, <2>2
<1>7. ASSUME NEW i \in 1 .. n + 1, NEW j \in 1 .. n + 1, g[i] = g[j] PROVE i = j
  <2>1. ASSUME NEW k \in 2 .. n + 1 PROVE g[k] # v BY <1>2, <1>3
  <2>2. CASE i = 1 \/ j = 1 BY <1>3, <1>7, <2>1, <2>2
  <2>3. CASE i # 1 /\ j # 1
    <3>1. i \in 2 .. n + 1 /\ j \in 2 .. n + 1 BY <1>3, <2>3
    <3>2. i - 1 \in 1 .. n /\ j - 1 \in 1 .. n /\ f[i - 1] = f[j - 1] BY <1>3, <1>7, <3>1
    <3>3. i - 1 = j - 1 BY <1>2, <3>2
    <3> QED BY <3>3
  <2> QED BY <2>2, <2>3
<1>8. {k \in VA : pa'[p][k] # Nil} = {g[i] : i \in 1 .. n + 1}
  <2>1. {k \in VA : pa'[p][k] # Nil} = {k \in VA : pa[p][k] # Nil} \cup {v} BY <1>1
  <2>2. {g[i] : i \in 1 .. n + 1} = {f[i] : i \in 1 .. n} \cup {v}
    <3>1. ASSUME NEW i \in 1 .. n + 1 PROVE g[i] \in {f[k] : k \in 1 .. n} \cup {v}
      BY <1>3
    <3>2. ASSUME NEW i \in 1 .. n PROVE f[i] \in {g[k] : k \in 1 .. n + 1}
      <4>1. i + 1 \in 1 .. n + 1 /\ g[i + 1] = f[i] BY <1>2, <1>3
      <4> QED BY <4>1
    <3>3. v \in {g[k] : k \in 1 .. n + 1}
      <4>1. 1 \in 1 .. n + 1 BY <1>2
      <4> QED BY <1>3, <4>1
    <3> QED BY <3>1, <3>2, <3>3
  <2> QED BY <1>2, <2>1, <2>2
<1>9. Line(p, n + 1, g)'
  <2>1. n + 1 \in Nat BY <1>2
  <2> QED BY <1>3, <1>4, <1>5, <1>6, <1>7, <1>8, <2>1 DEF Line
<1> QED BY <1>9

(* A step that leaves the lists alone keeps the lines.                     *)
LEMMA SameLines == LineInv /\ UNCHANGED <<next, pa, again>> => LineInv'
<1> SUFFICES ASSUME LineInv, UNCHANGED <<next, pa, again>>, NEW p \in Proc, ~ again'[p]
             PROVE  \E n, f : Line(p, n, f)'
  BY DEF LineInv
<1>1. PICK n, f : Line(p, n, f) BY DEF LineInv
<1>2. Line(p, n, f)' BY <1>1 DEF Line
<1> QED BY <1>2

(* Every step keeps the lines: only _map changes a list.                   *)
LEMMA LinesKept == Types /\ LineInv /\ VmeNext => LineInv'
<1> SUFFICES ASSUME Types, LineInv, VmeNext PROVE LineInv'
  OBVIOUS
<1>1. ASSUME NEW r \in Requests, Map(r[1], r[2], r[3]) PROVE LineInv'
  <2> DEFINE p == r[1]
             v == r[2]
             x == r[3]
  <2>1. p \in Proc /\ v \in VA /\ x \in PA BY RequestsAssumption
  <2>2. /\ pa' = [pa EXCEPT ![p][v] = x]
        /\ next' = [next EXCEPT ![p] = [@ EXCEPT ![v] = next[p][Anchor], ![Anchor] = v]]
        /\ again' = [again EXCEPT ![p] = @ \/ pa[p][v] # Nil]
    BY <1>1 DEF Map
  <2> HIDE DEF p, v, x
  <2>3. ASSUME NEW q \in Proc, ~ again'[q] PROVE \E n, f : Line(q, n, f)'
    <3>1. CASE q = p
      <4>1. ~ again[p] /\ pa[p][v] = Nil BY <2>1, <2>2, <2>3, <3>1 DEF Types
      <4>2. PICK n, f : Line(p, n, f) BY <2>1, <4>1 DEF LineInv
      <4> QED BY <2>1, <2>2, <3>1, <4>1, <4>2, LineGrows
    <3>2. CASE q # p
      <4>1. next'[q] = next[q] /\ pa'[q] = pa[q] /\ ~ again[q]
        BY <2>1, <2>2, <2>3, <3>2 DEF Types
      <4>2. PICK n, f : Line(q, n, f) BY <4>1 DEF LineInv
      <4>3. Line(q, n, f)' BY <4>1, <4>2 DEF Line
      <4> QED BY <4>3
    <3> QED BY <3>1, <3>2
  <2> QED BY <2>3 DEF LineInv
<1>2. CASE UNCHANGED <<next, pa, again>> BY <1>2, SameLines
<1> QED
  BY <1>1, <1>2 DEF VmeNext, UContext, Trap, EnableIntr, Return, Unmap, Unmapped, MapAll, Mapped, Iret

(* The lists of the address spaces end exactly until an address is mapped  *)
(* again; those that end have every mapping (vme.c:88).                    *)
THEOREM ListsEnd == NatSpec => []MapListsEnd
<1>1. NatInit => LineInv
  <2> SUFFICES ASSUME VmeInit, NEW p \in Proc PROVE \E n, f : Line(p, n, f)
    BY DEF NatInit, LineInv
  <2> DEFINE f == [i \in 0 .. 0 |-> Anchor]
  <2>1. next[p][Anchor] = Nil /\ {v \in VA : pa[p][v] # Nil} = {} BY DEF VmeInit
  <2>2. f \in [0 .. 0 -> VA \cup {Anchor}] /\ f[0] = Anchor /\ 1 .. 0 = {} OBVIOUS
  <2> HIDE DEF f
  <2>3. Line(p, 0, f) BY <2>1, <2>2 DEF Line
  <2> QED BY <2>3
<1>2. VmeInv /\ LineInv /\ [NatNext]_natVars => LineInv'
  <2> SUFFICES ASSUME VmeInv, LineInv, [NatNext]_natVars PROVE LineInv'
    OBVIOUS
  <2>1. CASE Memory BY <2>1, LinesKept DEF Memory, VmeInv
  <2>2. CASE UNCHANGED vmeVars BY <2>2, SameLines DEF vmeVars
  <2> QED BY <2>1, <2>2 DEF NatNext, natVars, AudioProgram, AudioThread, Keyboard
<1>3. VmeInv /\ LineInv => MapListsEnd
  <2> SUFFICES ASSUME VmeInv, LineInv, NEW p \in Proc
               PROVE  /\ Ends(p) <=> ~ again[p]
                      /\ ~ again[p] => {v \in VA : pa[p][v] # Nil} = Walk(p) \ {Nil}
    BY DEF MapListsEnd
  <2>1. CASE again[p]
    <3>1. ~ Ends(p) BY <2>1, LoopNeverEnds DEF VmeInv, ListInv
    <3> QED BY <2>1, <3>1
  <2>2. CASE ~ again[p]
    <3>1. PICK n, f : Line(p, n, f) BY <2>2 DEF LineInv
    <3> QED BY <2>2, <3>1, LineEnds DEF VmeInv
  <2> QED BY <2>1, <2>2
<1> QED BY <1>1, <1>2, <1>3, VmeInvariant, PTL DEF NatSpec
=============================================================================
