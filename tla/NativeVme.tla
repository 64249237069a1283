------------------------------ MODULE NativeVme ------------------------------
(***************************************************************************)
(* Address spaces and traps of the native port (am/src/native/vme.c and    *)
(* cte.c).  A Unix process is the machine: a trap is a signal, an address  *)
(* space is a list of mappings that __am_switch puts into force by munmap  *)
(* and mmap, one after the other, and the physical memory is made          *)
(* inaccessible while a user program runs.                                 *)
(*                                                                         *)
(* A handler may enable interrupts (vm_handler of amtest does), and then   *)
(* returns through __am_switch with interrupts enabled.                    *)
(***************************************************************************)
EXTENDS Naturals, Sequences, FiniteSets

CONSTANTS
  Proc,      (* user processes, each with an address space and a kernel stack *)
  VA, PA,    (* pages of user space and of the physical memory *)
  Boot,      (* the context main runs in, without an address space *)
  Nil,
  Anchor,    (* the first node of a list, which holds no mapping *)
  Requests,  (* the calls of _map: address space, address, physical page *)
  MaxDepth   (* bound on nested traps of a process *)

ASSUME VmeAssumption ==
  /\ IsFiniteSet(VA)
  /\ Boot \notin Proc /\ {Nil, Anchor} \cap (VA \cup PA \cup Proc) = {} /\ Nil # Anchor
ASSUME RequestsAssumption == Requests \subseteq Proc \X VA \X PA

VARIABLES
  next,      (* PageMap.next, for each address space *)
  pa,        (* PageMap.pa, Nil if the node does not exist *)
  is_mapped,
  again,     (* history: addresses mapped a second time, by address space *)
  cpu,       (* vm_head and ksp of thiscpu *)
  host,      (* the mappings of user space that are in force *)
  pmem,      (* the physical memory is accessible *)
  proc,      (* whose stack the program runs on *)
  run,       (* where it is: see Here *)
  frames     (* contexts saved on the stack of each process, the last on top *)

vmeVars == <<next, pa, is_mapped, again, cpu, host, pmem, proc, run, frames>>

Thread == Proc \cup {Boot}

(* at: in user mode, in a handler (or main), or in __am_switch; pp: the    *)
(* node the loop is at; to: the context that will be resumed; intr:        *)
(* interrupts are enabled.                                                 *)
Here(at, pp, to, intr) == [at |-> at, pp |-> pp, to |-> to, intr |-> intr]

(* After _vme_init and _protect for each process.                          *)
VmeInit ==
  /\ next = [p \in Proc |-> [n \in VA \cup {Anchor} |-> Nil]]
  /\ pa = [p \in Proc |-> [v \in VA |-> Nil]]
  /\ is_mapped = [p \in Proc |-> [v \in VA |-> FALSE]]
  /\ again = [p \in Proc |-> FALSE]
  /\ cpu = [vm_head |-> Nil, ksp |-> Nil]
  /\ host = [v \in VA |-> Nil]
  /\ pmem = TRUE
  /\ proc = Boot /\ run = Here("handler", Nil, Nil, FALSE)
  /\ frames = [t \in Thread |-> <<>>]

(* The nodes list_foreach comes to: all those it has met after as many     *)
(* steps as there are nodes, and one more.                                 *)
Walk(p) ==
  LET at[k \in 0 .. Cardinality(VA) + 1] ==
        IF k = 0 THEN Anchor ELSE IF at[k - 1] = Nil THEN Nil ELSE next[p][at[k - 1]]
  IN  {at[k] : k \in 1 .. Cardinality(VA) + 1}

Ends(p) == Nil \in Walk(p)

(* An interrupt has come in the middle of __am_switch.  The handler it     *)
(* calls is taken to call no _map and to return to where it came from, as  *)
(* vm_handler does: another switch would go through the same lists and     *)
(* leave the first one to go on with a context that has been resumed.      *)
InSwitch == \E t \in Thread : \E k \in 1 .. Len(frames[t]) :
              frames[t][k].where.at \in {"unmap", "map", "iret"}

-----------------------------------------------------------------------------
(* Mutant: the new node is put in front, but does not point to the rest.   *)
MapUnlinked(p, v, f) ==
  /\ run.at = "handler" /\ ~ run.intr /\ ~ InSwitch
  /\ pa' = [pa EXCEPT ![p][v] = f]
  /\ next' = [next EXCEPT ![p] = [@ EXCEPT ![Anchor] = v]]
  /\ is_mapped' = [is_mapped EXCEPT ![p][v] = (cpu.vm_head = p)]
  /\ host' = IF cpu.vm_head = p THEN [host EXCEPT ![v] = f] ELSE host
  /\ again' = [again EXCEPT ![p] = @ \/ pa[p][v] # Nil]
  /\ UNCHANGED <<cpu, pmem, proc, run, frames>>

(* _map, called by main or a handler with interrupts disabled.  A node     *)
(* that exists is linked in a second time.  If the list has no end any     *)
(* more, the loop that looks for the address finds it or runs for ever.    *)
Map(p, v, f) ==
  /\ run.at = "handler" /\ ~ run.intr /\ ~ InSwitch
  /\ Ends(p) \/ v \in Walk(p)
  /\ pa' = [pa EXCEPT ![p][v] = f]
  /\ next' = [next EXCEPT ![p] = [@ EXCEPT ![v] = next[p][Anchor], ![Anchor] = v]]
  /\ is_mapped' = [is_mapped EXCEPT ![p][v] = (cpu.vm_head = p)]
  /\ host' = IF cpu.vm_head = p THEN [host EXCEPT ![v] = f] ELSE host
  /\ again' = [again EXCEPT ![p] = @ \/ pa[p][v] # Nil]
  /\ UNCHANGED <<cpu, pmem, proc, run, frames>>

Saved(where, head, ksp) == [where |-> where, vm_head |-> head, ksp |-> ksp]

(* _ucontext: a context in user mode at the end of the kernel stack.       *)
UContext(p) ==
  /\ run.at = "handler" /\ proc = Boot /\ frames[p] = <<>>
  /\ frames' = [frames EXCEPT ![p] = <<Saved(Here("user", Nil, Nil, TRUE), p, p)>>]
  /\ UNCHANGED <<next, pa, is_mapped, again, cpu, host, pmem, proc, run>>

-----------------------------------------------------------------------------
(* A system call, a page fault or an interrupt: sig_handler, setup_stack   *)
(* and the beginning of irq_handle, which masks the signals.  Main may     *)
(* trap by _yield, too.                                                    *)
Trap ==
  /\ run.at = "user" \/ run.intr \/ (proc = Boot /\ run.at = "handler")
  /\ Len(frames[proc]) < MaxDepth
  /\ frames' = [frames EXCEPT ![proc] = Append(@, Saved(run, cpu.vm_head, cpu.ksp))]
  /\ run' = Here("handler", Nil, Nil, FALSE)
  /\ pmem' = (pmem \/ run.at = "user")
  /\ UNCHANGED <<next, pa, is_mapped, again, cpu, host, proc>>

(* _intr_write(1) in a handler or in main.                                 *)
EnableIntr ==
  /\ run.at = "handler" /\ ~ run.intr
  /\ run' = [run EXCEPT !.intr = TRUE]
  /\ UNCHANGED <<next, pa, is_mapped, again, cpu, host, pmem, proc, frames>>

(* The first node of a list, or nothing if there is no list.               *)
First(p) == IF p = Nil THEN Nil ELSE next[p][Anchor]

(* The context c is the d-th on the stack of q.                            *)
Target == frames[run.to[1]][run.to[2]]

(* The handler returns a context, its own or another process's, and        *)
(* __am_switch begins.                                                     *)
Return(q) ==
  /\ run.at = "handler" /\ frames[proc] # <<>> /\ frames[q] # <<>>
  /\ InSwitch => q = proc
  /\ LET to == <<q, Len(frames[q])>>
         head == frames[q][to[2]].vm_head
     IN  run' = IF head = cpu.vm_head THEN Here("iret", Nil, to, run.intr)
                ELSE Here("unmap", First(cpu.vm_head), to, run.intr)
  /\ UNCHANGED <<next, pa, is_mapped, again, cpu, host, pmem, proc, frames>>

(* munmap all mappings, one by one ...                                     *)
Unmap ==
  /\ run.at = "unmap" /\ run.pp # Nil
  /\ LET p == cpu.vm_head IN
       /\ host' = IF is_mapped[p][run.pp] THEN [host EXCEPT ![run.pp] = Nil] ELSE host
       /\ is_mapped' = [is_mapped EXCEPT ![p][run.pp] = FALSE]
       /\ run' = [run EXCEPT !.pp = next[p][run.pp]]
  /\ UNCHANGED <<next, pa, again, cpu, pmem, proc, frames>>

Unmapped ==
  /\ run.at = "unmap" /\ run.pp = Nil
  /\ run' = [run EXCEPT !.at = "map", !.pp = First(Target.vm_head)]
  /\ UNCHANGED <<next, pa, is_mapped, again, cpu, host, pmem, proc, frames>>

(* ... mmap all mappings ...                                               *)
MapAll ==
  /\ run.at = "map" /\ run.pp # Nil
  /\ LET p == Target.vm_head IN
       /\ host' = [host EXCEPT ![run.pp] = pa[p][run.pp]]
       /\ is_mapped' = [is_mapped EXCEPT ![p][run.pp] = TRUE]
       /\ run' = [run EXCEPT !.pp = next[p][run.pp]]
  /\ UNCHANGED <<next, pa, again, cpu, pmem, proc, frames>>

(* ... and remember whose they are.                                        *)
Mapped ==
  /\ run.at = "map" /\ run.pp = Nil
  /\ cpu' = [cpu EXCEPT !.vm_head = Target.vm_head]
  /\ run' = [run EXCEPT !.at = "iret"]
  /\ UNCHANGED <<next, pa, is_mapped, again, host, pmem, proc, frames>>

(* Mutant: the kernel stack of the context is not installed.               *)
IretKeepsKsp ==
  /\ run.at = "iret"
  /\ proc' = run.to[1] /\ run' = Target.where
  /\ frames' = [frames EXCEPT ![proc'] = SubSeq(@, 1, run.to[2] - 1)]
  /\ pmem' = (Target.where.at # "user")
  /\ UNCHANGED <<next, pa, is_mapped, again, cpu, host>>

(* iret: resume the context; the physical memory is closed on the way to   *)
(* user mode.                                                              *)
Iret ==
  /\ run.at = "iret"
  /\ proc' = run.to[1] /\ run' = Target.where
  /\ frames' = [frames EXCEPT ![proc'] = SubSeq(@, 1, run.to[2] - 1)]
  /\ cpu' = [cpu EXCEPT !.ksp = Target.ksp]
  /\ pmem' = (Target.where.at # "user")
  /\ UNCHANGED <<next, pa, is_mapped, again, host>>

VmeNext ==
  \/ \E p \in Proc : UContext(p)
  \/ \E r \in Requests : Map(r[1], r[2], r[3])
  \/ \E q \in Thread : Return(q)
  \/ Trap \/ EnableIntr \/ Unmap \/ Unmapped \/ MapAll \/ Mapped \/ Iret

-----------------------------------------------------------------------------
(* A process in user mode finds exactly the pages that _map has given it,  *)
(* each with its latest contents, cannot reach the physical memory, and    *)
(* traps onto its own stack, wherever interrupts came while a switch went  *)
(* through the lists; the kernel always reaches the physical memory.       *)
NativeIsolation ==
  IF run.at = "user" THEN
    /\ cpu.vm_head = proc /\ cpu.ksp = proc
    /\ host = pa[proc]
    /\ ~ pmem
  ELSE pmem

(* The list of an address space ends unless an address was mapped again,   *)
(* and then never: one careless _map (vme.c:88), and the next switch loops *)
(* for ever.  A list that ends has every mapping.                          *)
MapListsEnd ==
  \A p \in Proc :
    /\ Ends(p) <=> ~ again[p]
    /\ ~ again[p] => {v \in VA : pa[p][v] # Nil} = Walk(p) \ {Nil}
=============================================================================
