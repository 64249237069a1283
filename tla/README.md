# Verification of the Abstract Machine for RISC-V (wukong_am)

This directory holds TLA+ models of the runtime in this repository, the
TLC configurations that check them, and TLAPS proofs about them. Paths
are relative to the repository.

To run a check, in this directory:

```shell
tlc -workers 2 -config MCBarrier.cfg MCBarrier     # any .cfg with its MC module
tlapm BarrierProofs.tla                            # or any other *Proofs.tla
```

## The system

The repository is an *Abstract Machine*: a small runtime, `am/`, that gives bare
hardware one C interface (`am/am.h`), with ports to simulators and processors, a
C library `libs/klib`, tests of the runtime and of processors in `tests/`,
applications in `apps/`, and among those the firmware of an SSD controller,
`apps/firmware`. Here is what each part keeps, does, and must get right.

| Component | State | Operations | What makes it correct | Module |
|---|---|---|---|---|
| MPE of XiangShan, `am/src/xs/isa/riscv/mpe.c`, `boot/start_dual.S` | `count`, `sense`; `threadsense` per hart; `ncpu` | `_barrier`, `_atomic_xchg`, `_atomic_add`, `_mpe_setncpu`, `_mpe_wakeup`, `_mpe_init` | nobody leaves the barrier early, it can be used again at once, everybody leaves | `Barrier`, `MpDemo` |
| Multi-processor demo, `tests/amtest/src/tests/mp.c` | `print_lock`, `sum`, `atomic_sum` | `mp_print`, `finalize` | the output `README.md` documents | `MpDemo` |
| UART-Lite and TRM, `am/src/noop` | transmit FIFO | `_trm_init`, `_putc` | output is not lost | `MpDemo` (reset of the FIFO) |
| Traps, `am/src/nemu/isa/riscv/{mtime.S,cte.c,cte64.c,trap.S}` | `mie`, `mip`, `sip`, `sstatus.SIE` | M-mode trap vector, S-mode handlers, `csrs mie, 0` | no interrupt is lost, none is taken for nothing, handlers do not nest | `TrapDeleg` |
| PLIC and CLINT drivers, `am/src/xs/isa/riscv/{plic,clint}.c` | enable bits; pending and claimed sources in the device | claim, complete, enable, disable, set, clear | each claim has its completion | `TrapDeleg` |
| External-interrupt test, `tests/amtest/src/tests/extintr.c` | `should_claim`, `claim_count_all` | `external_trigger`, `random_trigger`, `do_ext_intr` | its own assertions | `TrapDeleg` |
| VME, `am/src/nemu/isa/riscv/vme.c` | page tables | `_vme_init`, `_protect`, `_map` | address spaces are separate; the kernel is in all of them; valid entries never change | `RiscvVme` |
| PMP, `am/src/xs/isa/riscv/pmp.c` | `pmpaddr`, `pmpcfg` | `init_pmp`, `enable_pmp`, `enable_pmp_TOR`, `disable_pmp` | the hardware grants what was asked for | `Pmp` |
| PMA and cache drivers, `pma.c`, `cache.c` | none | single register accesses | - | not modelled |
| Sound buffer of native and nemu, `am/src/native/devices/audio.c`, `am/src/nemu/common/audio.c` | the ring `sbuf`, `head`, `tail`, the shared `count` | `audio_write` in the program, `audio_play` in SDL's thread or the device | samples are heard in order, no copy leaves the ring, the test ends | `NativeAudio` |
| Key queue of native, `am/src/native/devices/input.c` | `key_queue`, `key_f`, `key_r` | the event thread and its signal, `__am_input_read` | keys arrive in order | `NativeKeys` |
| Traps and VME of native, `am/src/native/{cte,vme,platform}.c` | list of mappings per space, `thiscpu`, contexts on stacks, the host's mappings | signals as traps, `_map`, `_ucontext`, `__am_switch`, `iret` | a process sees its own pages and nothing else | `NativeVme` |
| Other devices of nemu, noop and native; native `mpe.c` | the PS/2 decoder | register reads, SDL calls, `fork` | - | not modelled |
| x86-qemu port | `boot_record`, `ap_ready`, page tables | start of the application processors | every processor starts with its own stack | not modelled |
| Other ports (nutshell, navy, sdi, dummy) | none of their own | system calls, register accesses, stubs | - | not modelled |
| klib | the heap of `malloc` | `malloc`, `free`, `mem*`, `str*`, `printf` | blocks are disjoint and aligned | not modelled |
| Firmware: timer and GPIO tests, `apps/firmware/src/test/test_misc.c`, `hal/hal_int.c` | flags shared with handlers, the sources' masks | arm, poll, give up, handlers | a pass means an interrupt; a source is silent afterwards | `IrqTests` |
| Firmware: I2C driver and regulator test, `hal/hal_i2c.c` | the controller's FIFOs, the regulator's registers | bounded waits after each transfer | the regulator is left as it was | `I2cTest` |
| Firmware: SPI driver and flash test, `hal/hal_spi.c` | the flash, its busy state and write enable latch | erase, program, read, bounded waits | a pass means the flash works | `SpiTest` |
| Firmware: NAND tests, `test/test_nand.c`, `hal/hal_bmu.c`, `hal/hal_nctl.c` | free buffers, command queue, queues of finished and failed reads | allocate, post, wait, compare, free | no buffer in two hands, a pass means the data was there | `NandTest` |
| Firmware: block table, `sys/ftl_init.c` | the lists of free and of bad blocks | `fv_ers_build` | each block on one list | `BlockTable` |
| Firmware: UART ring, `drv/uart.c` | `head`, `tail`, `recv_count` | `quene_push` in the interrupt, `quene_pop` in the program | bytes come out in order; the count never says more than there is | `UartRing` |
| Firmware: other drivers | - | - | - | not modelled |
| Memory-consistency tests, `tests/dualcoretest` | shared words | two harts load and store | loads of one word do not go backwards | not modelled |
| Other tests, applications, benchmarks | - | straight-line or vendored programs | - | not modelled |

How the parts interact:

- **Boot.** `_start` (`start_dual.S`) sends both harts to `_trm_init`, which
  initialises the UART and calls `main`; the second one sits in reset until a
  hart calls `_mpe_wakeup(1)`. Both then run the *same* program from the start,
  on the same memory.
- **Interrupts.** A device raises a source of the PLIC; the PLIC raises the
  external interrupt of the M or the S context. M-mode (`mtime.S`) hands timer
  and external interrupts down by setting `SSIP` or `SEIP`. The S-mode handler
  (`cte.c`) calls the handler that the program registered. It cannot undo what
  M-mode did, so it executes `csrs mie, 0`, which is illegal in S-mode on
  purpose: the trap makes M-mode clear `SEIP` and set `MEIE`.
- **Address spaces.** The program gives the VME a page allocator;
  `_protect` copies the kernel's root page, so what a space shares with the
  kernel is decided by which root entries are valid at that moment.
- **Protection.** `cte64.c` sets up the PMP in M-mode, before S-mode runs.

- **Native port.** A Unix process is the machine. Two threads of SDL share the
  sound buffer and the key queue with the program; traps are signals, of which
  one of a kind can be pending; user space is what `mmap` says at the moment.
- **Firmware.** `test_ut_main` runs one hardware test after the other. Devices
  work in the background, some tests wait for them with a time-out and go on
  without an error, and interrupt handlers set flags that tests poll.

What is hard here: harts that interleave at every access to memory, with stores
that need not become visible in order; machine-mode traps between any two
instructions of a supervisor-mode handler; page tables and PMP registers that
entries share; rings that interrupts and main loops share. `PROJECT.json` lists
the hazards with their lines.

## Modules

```
AbstractBarrier <--implements-- Barrier <--INSTANCE-- MpDemo
                                   ^-- BarrierProofs  ^-- MpDemoProofs
AddressSpaces   <--implements-- RiscvVme <-- RiscvVmeProofs
TrapDeleg <-- TrapDelegProofs      Pmp <-- PmpProofs
BoundedFifo     <--implements-- UartRing
IrqTests  I2cTest  SpiTest  NandTest  BlockTable  UartRing
          ^------------- Firmware -------------^      <-- FirmwareProofs
NativeAudio  NativeKeys  NativeVme
          ^------ Native ------^      <-- NativeDeviceProofs, NativeVmeProofs
MCBarrier  MCMpDemo  MCTrapDeleg  MCRiscvVme  MCPmp      (instances for TLC)
MCFirmware  MCNative
```

An operator whose comment begins with "Mutant" is a plausible bug of the
definition it precedes. No specification uses it; it is there to show that a
property notices the bug.

### Barrier and AbstractBarrier

`_barrier()` of `mpe.c:70-87`, one action for each access to shared memory.

| Code | Model |
|---|---|
| `threadsense = !threadsense` | `Enter` |
| `_atomic_add(&count, 1) == _ncpu()-1` | `Add`, `IsLast` |
| `count = 0` | goes into `pending` in `Add`, lands in `ResetCount` |
| `sense = threadsense` | goes into `pending` in `Add`, lands in `PublishSense` |
| `while (sense != threadsense)`, `fence`, return | `Released`, `Leave` |

`InOrder` decides whether the two stores land in program order. The RISC-V
memory model (RVWMO) lets them be swapped, as no fence separates them. The
safety of the barrier is checked with stores in order and proved for both
orders; its liveness holds with stores in order only: swapped, they lose an arrival.
`arrived`, `left` and `gen` are history variables and influence nothing.
`AbstractBarrier` is the contract: a processor may leave once all have arrived.

### MpDemo

The path of both harts from reset to the end of `finalize`, through the steps of
`Barrier` (`INSTANCE ... WITH`). `sum++` is a load and a store; the atomics are
one step. Thread-local storage starts as garbage, since `.tbss` is cleared by
`init_tls`, which each hart runs. A `printf` is one token in the UART's FIFO.
`_mpe_setncpu` calls `atoi(&arg)` on one character: `NextByte` says what may lie
behind it on the stack; a digit makes the assertion fail and ends the run.

### TrapDeleg

One hart in `external_intr` (`extintr.c`): `external_trigger` in the S context
without and with `wfi`, then in the M context, then `random_trigger`.

| Code | Model |
|---|---|
| `mtime.S` `is_timer`, `is_ext`, `is_illegal` | `MTimer`, `MExt`, `Illegal`: interrupts are off in M-mode, so each is one step |
| `trap.S`, `__am_irq_handle` | `TakeTrap`, `Sret` |
| `__am_irq_SEIP_handler`, `__am_irq_STIP_handler` | `ClearSip`, `StipMie` |
| `do_ext_intr` | `Claim`, `ClearIntr`, `Complete`, `Recheck`, `ResetShouldClaim`, `SeipMie` |
| `external_trigger` | `Enable`, `SetIntr`, `Sleep` or `Wait` (the loop of polls, which may end at any of them), `Check`, `Disable` |
| `random_trigger` | `StartRandom`, `MainLoop` |
| an interrupt is taken before the next instruction | `Interrupted`, a guard of every instruction |

`plic_set_intr` and `plic_clear_intr` combine their bit with a word which
`READ_INTR_REG` reads at the wrong address (it adds the base address to an
address that includes it). What is there is not the generator's register; the
model takes it to read as zero, so the write drops the other signals of the word.

Timer ticks come at any point, but `slack` demands that the program runs between
two of them: an interval shorter than a handler would keep the hart in handlers
for ever. `Burst` says the same of the random generator.

### RiscvVme and AddressSpaces

A virtual page is a root entry and a position below it; one level of tables
stands for the level or two levels below the root. `VmeInit`, `Protect` and
`Map` are `_vme_init`, `_protect` and `_map`; pages come zeroed from
the program's allocator. `MapUser` and `MapKernel` are the calls programs make:
user pages into user spaces, and, as `sv39_test` does, extra kernel pages before
a user space exists. `AddressSpaces` is what `am.h` promises: each space is a
mapping of its own. The refinement mapping is what a page walk finds.

### Pmp

`enable_pmp`, `enable_pmp_TOR` and `disable_pmp` as they write `pmpaddr` and
`pmpcfg` (`csr_set_num` only ever sets bits), and, from the privileged
architecture, what the registers mean. Addresses are in units of four bytes.
Any call may come for any entry at any time: on one in use, on the default
one, next to a TOR entry whose address register the call overwrites, and TOR on
entry 0, which has no register below it and always starts at address 0.

Two history variables say what callers have asked for. `region` is what each
entry was last asked to protect. `stale` holds the entries that do not do so: one
whose registers a later call for its neighbour moved, one that was enabled
again with bits of an earlier use still in `pmpcfg`, one that was disabled in TOR
or NAPOT mode, and TOR on entry 0 for a region that does not start at 0. A new
call for the entry that leaves nothing behind makes it good again.

### UartRing and BoundedFifo

`drv/uart.c`: `Push` is `quene_push` in the interrupt handler, `Begin`, `Take`,
`LoadCount`, `StoreCount` are one turn of `get_uart_buffer` with `quene_pop`;
the decrement of `recv_count` is a load and a store, and an increment between
the two is lost. `BoundedFifo` is what a ring promises: what is put comes out in
order, and what finds no room is dropped. The refinement mapping is the bytes
between `head` and `tail`.

### IrqTests, I2cTest, SpiTest, NandTest, BlockTable, Firmware

| Code | Model |
|---|---|
| `hal_hardware_timer_test_delay_us`, `hal_gpio_test` | `Arm`, `Poll`, `Seen`, `GiveUp` of `IrqTests`; the flags are not volatile, `hoisted` says that the compiler reads them once |
| `hal_isr_irq`, the two handlers | `Serve`: `HandleGpio`; `EnterTimer`, which spins on `rd_timers_eol` until `EolZero`, and `LeaveTimer`. Interrupts are off in a handler |
| `hal_i2c_write`, `hal_i2c_read` | `PostWrite`; `PostAddress`, `PostRead`; `I2cWaited` ends the bounded wait with the controller idle or not |
| `hal_i2c_test` | `I2cScript`, `NextLine` |
| `hal_spi_*` | `Send` for a short command, `StartTransfer` and `SpiMoves` for one whose bytes wait for room or data in a FIFO, without a time-out; then `SpiWaited`. The flash ignores commands while it is busy |
| `hal_spi_test` | `Commands`, `Compare` |
| `hal_bmu_alloc_buff` | `Ask`, then `BmuAnswers`: a wait without a time-out |
| `test_base_one_unit_write`, `..._read_check` | `PostProgram`; `PostFetch`, then `ReadOk` or `ReadFailed` |
| the three tests of `test_nand_main` | `NandScript` |
| `fv_ers_build` | `Build` for a block, `Leftover` for those not needed, `LinkFree`, `LinkBad` |

The devices (`Raise`, `EolZero`, `I2cDevice`, `SpiMoves`, `SpiDevice`, the BMU's
answer, `NandDevice`) are external: they do what the drivers expect of them,
late or never; the NAND flash may fail each command, and the regulator need not
take a value that is written to it (`refused` remembers whether the last one
was). `Firmware` runs the tests in the order of `test_ut_main`, with all
handlers and devices beside the program. `Builds` says which are compiled in
(`test_entry.c:6-11`). `fv_ers_build` and the receiver of the UART have no
caller in the repository and run by themselves.

### NativeAudio, NativeKeys, NativeVme, Native

`NativeAudio` has one action for each access to `count`, which is volatile;
`port` chooses between native, where `audio_play` is a second thread, and nemu,
where the device is, and where `audio_write` reads `count` once. `wait` is the
flag of the request: the test of amtest waits for room, other programs need not.

`NativeKeys` has the event thread, the pending signal, which is one bit, and a
program that polls (`keyboard.c`) or reads a key in each interrupt (`intr.c`).
Keys are numbered in the order in which they are pressed.

In `NativeVme`, `Trap` is a signal from its delivery to `irq_handle`, `Return`
the handler's return, `Unmap`, `Unmapped`, `MapAll`, `Mapped` the loops of
`__am_switch` node by node, `Iret` the magic call. `EnableIntr` is
`_intr_write(1)`, which the handler of `vm.c` executes, so that a switch may be
interrupted. Such an interrupt's handler is taken to return to where it came
from and to call no `_map` (`InSwitch`): `vm_handler` does so, and another
switch inside the first would leave `__am_switch` without a defined result.
The kernel traps onto the stack it is on, a process onto `thiscpu->ksp`.

`Native` selects the part a program uses (`mainargs`); the parts share nothing.

## Runs

| Run | Instance | Shows |
|---|---|---|
| `barrier` | 3 harts, 3 barriers, stores in order | `NobodyLeavesEarly`, `ResetLosesNoArrival`, `EverybodyReturns`, and `Barrier` implements `AbstractBarrier`, liveness included |
| `barrier_weak` | 3 harts, 2 barriers, stores in either order | **violated**: the reset of `count` lands after a fast hart's next arrival and wipes it out; all spin for ever |
| `mp` | 2 harts, 3 increments | the console lock excludes, `atomic_sum` is exact, `sum` is at most the documented value and at least 2, both harts print the same sums, both finish |
| `mp_output` | the same | **violated**: the second hart's `_trm_init` discards output of the first |
| `trap` | 2 sources, 2 rounds per call, 3 random claims, bursts of 2 | no assertion of the test fails wherever the timer ticks; nothing is left over between rounds; every source that is pending in an enabled context is claimed, every claimed one completed (`ExternalServed`), also when it comes as the test is about to end; the test ends |
| `trap_tick` | the same | **violated**: `csrwi sip, 0` in the external handler drops a pending timer interrupt |
| `vme` | 2 user spaces, 3 root entries of 2 pages, 4 tables | `UserMappingsPrivate`, `TranslationsStable`, `KernelMappedEverywhere`, the inductive invariant, and `RiscvVme` implements `AddressSpaces` |
| `vme_xs` | a kernel segment below a root entry of user space | **violated**: a page mapped into one space appears in another |
| `pmp` | 3 entries, the last one the default; 4 granules; 3 sets of permissions | `RegionsRespected`: any calls in any order; where no entry up to the deciding one is stale, S-mode has the permissions asked for |
| `pmp_disable` | the same | **violated**: a disabled NAPOT entry matches all memory, a TOR entry all of it from its start |
| `firmware` | timer, SPI and GPIO tests in one build; I2C, NAND, block table and UART in others (bounds below) | what each verdict means (`ServedOnce`, `SpiVerdict`, `NandVerdict`), what a test leaves behind (`RegulatorRestored`, `BuffersAccounted`), the shape of the lists (`BlockLists`), the ring (`RingInv`, `RingImplementsFifo`), and that the tests come to an end (`TestEnds`) |
| `native` | sound buffer of 4 with 7 samples; 11 keys in a queue of 4; 2 processes, 2 pages, traps 2 deep | `AudioCountInRange`, `AudioInOrder`, `AudioFinishes`, `KeysInOrder`, `NativeIsolation`, `MapListsEnd` |

Some of these properties say exactly how far the code gets, because it does not
get further: `RegulatorRestored` asks for the old value where no read has come late
and the regulator has taken the last write, and asks nothing of a chip with
another id, into whose voltage register the test writes that id; `TestEnds`
says that a late byte, once it blocks the next I2C read, does so for ever
(`I2cBlocked`) and that nothing else keeps the tests from their end, and assumes that the devices answer
for which the code waits without a time-out; `RegionsRespected` leaves out stale
entries, of which `pmp_disable` shows one kind (the others are in the text above);
`BuffersAccounted` counts a lost buffer for each failed
read; `BlockLists` has the one bad block that is not marked and the block a stale
fail bit condemns; `MapListsEnd` says that a list ends if and only if no address
was mapped twice; `AudioInOrder` leaves out the executions in which an update of
`count` was lost or `stream` overrun, while `AudioCountInRange` does not.

### Why the bounds are enough

- *Barrier.* A hart can be at most one barrier ahead of another one, so two
  barriers let a fast hart meet slow ones in every way; the third makes the
  parity of `sense` come round. Three harts give a first, a middle and a last
  arriver. The proofs cover every number.
- *MpDemo.* The least sum, 2, needs two increments; the third shows it does not
  fall further. There are two harts in the code (`MAX_CPU`).
- *TrapDeleg.* Two rounds show what one leaves for the next; two sources let a
  second be pending while the first is served; a third claim in the random part
  comes after both have been served. A timer interrupt is either pending or not.
- *RiscvVme.* Two user spaces are needed for an effect of one on another; two
  pages per table to share a table without sharing a page; of the three root
  entries one is the kernel's from the start, one is user space, one the kernel
  fills later. Four tables suffice for all that can be allocated. Tables, frames
  and user spaces are symmetric, and all properties of the run are safety
  properties. The proofs cover every number.
- *Pmp.* Three entries give entry 0, which has none below it, one between two
  others, and the default one; TOR entries that share a register with a neighbour
  on either side; four granules give blocks of 1, 2 and 4. Permissions are none,
  read, and both, so that bits left behind show.

- *Firmware.* Two polls give an interrupt before, between and after them. Two
  pages of the flash tell a comparison of all from one of the first, and a lost
  command from another. A unit of 2 pages on 2 planes and 6 buffers, one of
  them reserved, are the least `BuffersAssumption` allows for a unit to be in
  the queue while a page is read. Six blocks, of which 3 are needed, on two dies
  give every pattern of good and bad, and leftovers. A ring of 4 wraps around,
  is empty and is full; the count drifts from 0 to 3. The tests in one build
  share only the processor and its interrupts; those without interrupts need
  not run in the same instance, which keeps it small.
- *Native.* A buffer of 4 with writes of 2 and requests of 1 wraps around in
  writes and in reads and can be empty and full; 7 samples are an odd last
  write. A queue of 4 overflows twice with 11 keys. Two processes with two pages
  and one page in common; one address that may be mapped again; nesting of 2 is
  an interrupt in a handler. The bounds on keys, samples and depth stop counters.

`CHECK_DEADLOCK FALSE` is set for `firmware` (`test_ut_main` ends in an empty
loop, `fv_ers_build` is done, and a receiver whose count has drifted to zero with
the ring full does stop), `native` (programs end, keys run out, and a process
whose list has become a cycle cannot map again) and `barrier_weak` (the harts do
get stuck). The other models have a step for the end of the program, or, like
`Pmp`, calls that are always possible, so that a deadlock would be an error.

### Fairness

- *Barrier, MpDemo.* Weak fairness of each hart's steps: harts execute
  independently, and a store in a store buffer drains. The spin lock of `MpDemo`
  needs no strong fairness, as each hart takes it twice and no more: the other
  cannot be overtaken for ever. The UART sends what it holds.
- *TrapDeleg.* Weak fairness of the machine-mode steps, of the handlers and of
  the program, i.e. the hart executes; of the timer and the random generator:
  `wfi` waits for one of them. Once the test has ended nothing is assumed.
- *Firmware.* Weak fairness of the program and of a pending interrupt's handler:
  the processor executes. Weak fairness of each device that the code waits for
  without a time-out: the timers (`rd_timers_eol`, `test_misc.c:182`), the FIFOs of
  the SPI controller (`hal_spi.c:200`, `250`, `255`), the BMU (`hal_bmu.c:28`, whose
  comment says "need consider timeout mechanism") and the NAND controller. The
  code justifies none of these: they are assumptions about the hardware, and
  without any one of them a test can hang. Nothing is assumed of the flash, the
  I2C bus, the regulator, the timer's interrupt and the pin. Text is printed by
  polling the UART's transmitter, which is not modelled and taken to send.
- *Native.* Weak fairness of the program and of the thread SDL calls
  `audio_play` from (or of nemu's device). `AudioFinishes` is about programs that
  wait for room: one that does not may undo every update of `audio_play`.
- *RiscvVme, Pmp.* None: only safety is checked.

## Proofs

tlapm checks the proof modules to the last leaf. The assumptions on constants
are the named ASSUMEs of the modules; TLC evaluates them in the runs. Between
them the theorems state every invariant and every action property that a
passing run checks, and the safety of the three refinements.

An induction that a proof needs runs over a set of numbers: the set of those for
which the fact holds contains 0 and is closed under successor, so it is `Nat`
(`Induct`), which follows from `Nat` being well-founded. That is how a fact about
every step of a walk along a list is proved.

**BarrierProofs**, for any finite set of harts and any number of barriers, and
for either order of the last arriver's two stores:

- `Inductive`: `IInv` is an invariant. `NobodyLeavesEarly` alone is not
  inductive: one must know that `sense` and each `threadsense` are the parity of
  the barriers passed, that a hart is at most one barrier ahead, that only
  one hart, the last, has stores under way, and what they say of `count`: it is
  the number of harts waiting in the current barrier, more by `Ncpu` while
  a reset that was overtaken has not landed, and at most that number once such
  a reset has wiped arrivals out. Then the barrier never fills: harts wait for
  ever, and none leaves early.
  The proof has a lemma per action; the arithmetic of `count` rests on facts
  about cardinalities of finite sets.
- `TypeCorrect`, `WaitsForAll`, `ResetSafe`: `TypeOK`, `NobodyLeavesEarly` and
  `ResetLosesNoArrival`, which says that a reset loses no arrival unless it was
  overtaken; with stores in order none is.
- `RefinesContract`: each step of `Barrier` is a step of `AbstractBarrier` or
  leaves its variables alone.

**RiscvVmeProofs**, for any number of spaces, tables and pages.

For every layout of kernel and user space, that of XiangShan included:

- `LayoutInductive`: `LayoutInv`. A space that does not exist has an empty root
  page (`BeforeLife`); a table hangs below one root index only (`OneIndex`), and
  from the spaces that have a table of kas there it is that table (`Shared`); what
  a space has in other tables are user pages (`UserEntries`).
- `TypeCorrect`, `Stable`, `KernelMapped`: `TypeOK`, `TranslationsStable` and
  `KernelMappedEverywhere`. So these survive the layout in which isolation fails.

Assuming `RootsDisjoint`, that the kernel maps nothing below the root entries of
user space, which the violated run `vme_xs` shows cannot be dropped:

- `Inductive`: `IInv`. Outside user space the root pages agree with the kernel's,
  and the kernel has nothing in user space (`KernelHalf`); a table hangs below a
  user entry of one space only (`Ownership`), which is what isolation means in the
  tables.
- `Private`: `UserMappingsPrivate`. It follows from `MapWalks`: `_map` adds the
  translation asked for unless there is one, and changes no other, in no space.
- `RefinesSpaces`: `RiscvVme` implements `AddressSpaces`. A call of `_map` for
  an address that is mapped already is a stutter.

**PmpProofs**, for any number of entries and any memory of a power of two
granules, whatever calls are made in whatever order:

- `PmpInductive`: `PmpInv`. An entry that is not stale matches exactly the region
  it was last asked to protect (`EntryInv`), so that the lowest that matches is the lowest that was
  asked. It rests on what a NAPOT register means: its low ones fit one
  power of two and no other, the size of the block (`NapotUnique`: the `CHOOSE` in
  `NapotSize` has one choice), since of two powers of two the smaller divides the
  larger (`Chain`). A later call leaves an entry alone or makes it stale: it can
  move it by its own register or, with TOR, by the one below (`Moved`).
- `RegionsAreRespected`: `RegionsRespected`.

**NativeDeviceProofs**, for every size of buffer, write and request, with
writes no larger than the buffer (the program of amtest asks for less, and
`audio.c:74` asserts it of programs that wait), and every size of the key queue:

- `AudioInductive`: `AudioInv` and `OrderInv`. Two threads without a lock undo
  each other's updates, but the program's copy of `count` is never below `count`
  (only `audio_play` has changed it since, and that only takes away), the copy of
  `audio_play` never above; so whichever store comes last leaves `count` between
  the two. As long as no update was lost, `count` is the samples written and not
  heard up to what a thread has done to the ring and not to `count` yet, and
  the slots from `tail` on hold exactly those samples.
- `CountStaysInRange`, `SamplesInOrder`: `AudioCountInRange` and `AudioInOrder`.
- `KeysArriveInOrder`: `KeysInOrder`. `KeyInv` says of each slot that it holds the
  latest event of that remainder, so a key that is read, whatever has overflowed,
  is later than the one before it.

**MpDemoProofs**, for two harts (`MAX_CPU`), one barrier whose stores are in
order, any number of increments and any byte behind the argument of `atoi`:

- `MpInductive`: `MpInv`. The documented sums are not inductive. One must know
  where each hart is in its loop (`LoopInv`), that the barrier releases nobody
  before both are done (`BarInv`, the barrier's invariant hart by hart), and for
  the least sum that a hart past its first round loads 1 or more (`SumInv`).
- `TypeCorrect`, `OneHartPrints`, `PrintedSums`, `LeastSum`, `SameSums`: `TypeOK`,
  `PrintExclusive`, `SumsAsDocumented`, `SumAtLeastTwo`, `HartsPrintTheSame`.

**TrapDelegProofs**, for any set of sources, numbers of rounds, claims and bursts:

- `TrapInductive`: `TrapInv`. In a round (`RoundInv`) only the program's own
  source can be raised, pending, enabled or in service, at the points named
  there; `MEIE` is off exactly while `SEIP` passes an interrupt on. In the
  random part (`RandomInv`) an external handler is entered only while something
  can be claimed. Interrupts are on exactly outside handlers. The argument does
  not use `slack`.
- `TypeCorrect`, `TestNeverFails`, `QuietBetween`: `TypeOK`, `TestPasses` and
  `QuietBetweenRounds`.

**FirmwareProofs**, for every build of the firmware: each part is proved about as
a part of `FwSpec`, whatever the other tests, the devices and the handlers do
meanwhile. For any number of polls, pages and buffers, any size of the ring, any
number of blocks and dies, and any contents of the registers:

- `EachServedOnce`: `ServedOnce`, with an invariant for each source: a source that
  has been served is disarmed, a flag that is set was set by a handler.
- `RegulatorLeftAlone`: `RegulatorRestored`. Its invariant follows the script line
  by line: what is in the controller's FIFOs, in `save_value` and in the chip,
  whether or not a write has ended and the regulator has taken its byte.
- `PassMeansWritten`: `SpiVerdict`, for any number of pages. A read that finds the
  data finds it on an idle flash, and until the comparison only reads follow, so
  the flash is idle there and takes the erase that comes next; `CommandAt` says
  where which command is.
- `NandInductive`: `NandInv`. `BuffersAccounted` is not inductive: that a failed
  read loses a buffer and nothing else does needs to know that the read whose answer
  is awaited is the last command of the queue or has one answer, and that nothing
  else is in the queues of answers (`Reading`). `Accounting` counts: buffers that are
  free, posted, or in the program's hand are all but the reserved and the lost
  ones, and those posted are at most the pages written since the last read, so that
  an allocation always finds a buffer. `Verified` says that the pages compared so far hold the
  data of the test and that no command in the queue will touch one of them.
- `BuffersKept`, `PassMeansProgrammed`: `BuffersAccounted` and `NandVerdict`. The
  proof needs `BuffersAssumption` as it is: two buffers may be lost before the
  third test, which for a unit of one page would leave it none under a bound
  of `2 * Unit` alone. The code has 512 buffers and units of 12 pages, and
  at most two reads can fail before the third test, as a test ends at its first
  failed read.
- `RingInductive`: `RingInv`. That `recv_count` is never too large is not
  inductive: one must know that between the load and the store of the decrement
  the loaded value is positive and at most `recv_count`, as the interrupt only
  increases it, and that a decrement under way accounts for one byte that has
  left the ring (`InPop`).
- `RingRefinesFifo`: each step is `Put`, `Get` or a stutter of `BoundedFifo`.
  `Push` appends to `Contents` and `Take` takes its head; both are lemmas about
  positions modulo the size. It needs nothing of `recv_count` but that `Take` on
  an empty ring does not occur, which is `RingInv`.
- `ListsComplete`: `BlockLists`. `BlockInv` has each list as the rising sequence of
  its set of blocks (`IsList`): linked from each to the next, starting at `..._str`,
  ending at `..._end`. A block that is taken is above all before it, so it goes to
  the end of either list; that the table has enough good blocks or leaves none over
  needs a count (cardinalities). `NthIs` says that following `next_ptr` from the
  start, as `Nth` does, gives that sequence.

**NativeVmeProofs**, for any number of processes, pages and calls of `_map`, with
traps nested to any depth, assuming of handlers that interrupt a switch what
`InSwitch` says:

- `VmeInvariant`: `VmeInv`. That a process finds its own pages once a switch is
  over needs to know what a switch has left after each node. `Unmapping` says
  that an address still in force comes later in the old list, `Mapping` that one
  not in force yet comes later in the new one, `Known` that everything in force is
  marked `is_mapped`, so `munmap` is called for it. "Comes later"
  (`Reaches`) is closure under `next`, as the prover has no induction over lists; a
  list that has become a cycle (`Loops`) keeps a switch in its loop, which is
  harmless to isolation. `StackInv` describes interrupted switches: there is one
  switch at a time, the handlers above it run with the address space it had,
  and each context on a stack that is not running is outside switches.
- `OwnPagesOnly`: `NativeIsolation`.

- `ListsEnd`: `MapListsEnd`. `LineInv` numbers the nodes of a list from the anchor
  on as long as no address was mapped twice (`Line`); `_map` adds a number. The
  steps `Walk` counts are enough for it because the set of addresses is finite
  (`VmeAssumption`). A list that loops has a set of nodes closed under `next`, which
  the walk never leaves.

Only model-checked are the properties about what must happen, as the prover has no
reasoning under fairness: `EverybodyReturns`, the liveness of
`ImplementsContract` (its safety is `RefinesContract`), `BothFinish`,
`ExternalServed`, `TestFinishes`, `TestEnds` and `AudioFinishes`. The properties of
the violated runs are false, and have no theorem.

## Findings

Each of these has a run that finds the violation and an entry in `PROJECT.json`.

1. `_barrier` needs a fence between `count = 0` and `sense = threadsense`
   (`mpe.c:80-81`).
2. The second hart resets the UART under the first one's output
   (`uartlite.c:14`, through `_trm_init`).
3. `csrwi sip, 0` in `__am_irq_SEIP_handler` is said to have no effect
   (`cte.c:41`) and drops a pending timer interrupt.
4. In the XiangShan layout `segments[]` reaches into `USER_SPACE`
   (`vme.c:21`), and address spaces share the table below that root entry.
5. `disable_pmp` does not disable (`pmp.c:277`).

Smaller ones, met while reading, for which no run was spent:

- `_mpe_setncpu` calls `atoi(&arg)` on a single character (`mpe.c:6`).
- `_map` ignores an address that is mapped already (`vme.c:132`): its caller is
  not told.
- `enable_pmp_TOR` uses the entry `pmp_reg - 1`, where its comment says
  `pmp_reg + 1` (`pmp.c:245`), and so takes the region of the entry below away
  (`pmp.c:258`); the model does the same and calls that entry stale.
- `plic_set_priority` is off by one source (`plic.c:77`), `plic_disable`
  toggles (`plic.c:95`), and `SET`/`CLEAR` of the generator read the wrong
  address (`plic.c:123`). The tests do not depend on the first; the models
  contain the other two.
- `hal_i2c_test` writes the chip's id into the voltage register when the id is
  not the expected one (`test_misc.c:154`).
- An I2C byte that arrives after the time-out of its transfer is never read, and
  the next `hal_i2c_read` waits for ever (`hal_i2c.c:66`); `TestEnds` says so.
- A failed NAND read loses its buffer (`test_nand.c:1336`), and the result of
  `hal_bmu_alloc_buff` is not checked (`hal_bmu.c:35`).
- `fv_ers_build` marks the entry after each leftover block as bad, the last one
  behind the table (`ftl_init.c:182`); a failed reset condemns the first block
  (`nand_init.c:270`).
- When the time-out of the timer test and its interrupt coincide,
  `TIMER_DELAY_FLAG` stays set (`test_misc.c:167`).
- `recv_count` only ever drifts down; in the end the receiver is deaf
  (`uart.c:67`, `uart.c:213`).
- `audio_play` may copy more than it was asked for (`native/devices/audio.c:14`,
  which loads `count` twice), and updates of `count` are lost on both ports.
- Native `_map` on an address that is mapped already makes the list a cycle
  (`native/vme.c:88`): the next switch does not end.
- Code without a caller: the delay loops wait on after their time-out
  (`hal_timer.c:38`), `hal_intc_disable_intr` clears the bits of a number
  (`hal_int.c:48`), `hal_quene_init` leaves a divisor zero (`hal_uart.c:105`),
  `hal_spi_erase` mixes `-` and `&` and erases 64K blocks as 4K sectors
  (`hal_spi.c:155`, `169`), `IRQ_GPIO30_Int` repeats the number of `IRQ_GPIO29_Int`
  (`hal_int.h`).
- A failing `malloc` of klib moves its pointer all the same (`stdlib.c:46`).

## Not modelled

Most of the repository's lines are no part of the runtime: vendored programs
(`apps/fceux`, `apps/litenes`, `apps/coremark*`, `apps/microbench`, the benchmarks'
tables and payloads), register headers of the firmware, and processor tests
that are straight-line programs. They have no state that a model of this system
would share, so the models cover a small part of the lines of the repository,
though most of what runs concurrently in it.

Of the parts that are modelled: permissions, `satp` and switching of address
spaces in the RISC-V VME; `_unprotect` is empty. Priorities and thresholds of the
PLIC (one value in the tests). Polling of `TX_FULL`, `getchar`. System calls,
`_yield` and `_kcontext` of the RISC-V ports. Protection bits of native mappings,
kernel threads and forked processors of the native port.

Of the firmware: the tests of `test_nand.c` that `test_nand_main` does not call;
the tables of the FTL that nothing reads; the headers `global.h` and `register.h`
are not in the repository, so that register layouts are known from their use.
`ldvio` and its kin check a property of the processor, not of code here. klib's
`malloc` and string functions are sequential and small: unit tests reach them.
The start of x86 processors rests on real-mode code and the local APIC. PMA and
cache drivers are single register accesses.

## Plan

Done: barrier and multi-processor demo; trap redirection; page tables; PMP; the
native port's rings, keys and address spaces; the firmware's tests, block table
and UART ring; a proof of each safety property that the passing runs check.

What would come next:

1. Proofs: that `Firmware` refines its parts, each by itself, so that a proof
   about a part needs no lemma about the steps of the others; what a driver may
   assume of a device, as an assumption of the theorem instead of a definition.
2. Switches inside switches on the native port, as a contract on handlers.
3. Start of x86 application processors.
