# HyperCore in TLA+

HyperCore is a bare-metal type-1 hypervisor for one guest, at EL2 of AArch64 and
in HS-mode of RISC-V. This directory holds TLA+ models of its parts that keep
state, the TLC configurations that check them on small instances, and proofs
checked by TLAPS. `PROJECT.json` lists the runs, which source lines every
definition models, the hazards the properties are aimed at, and the theorems.
Paths below are relative to the repository root.

    tlc -workers 2 -config MCA64_sched.cfg MCA64      # one run
    tlapm A64CoreProofs.tla                           # the proofs of a module

## 1. The system

### Parts, their state and how they interact

| part | state | operations | talks to |
|---|---|---|---|
| ready list (`src/core/sched_simple.c`) | `g_ready_list` under `g_sched_lock`, `g_running[]`, each pCPU's `current_task` | sorted insertion, selection of the first task a pCPU may run, publication | both schedulers, PSCI, vGIC |
| aarch64 scheduler and switch (`src/core/sched.c`, `src/arch/aarch64/vcpu.c`) | the EL1 context of each vCPU, in memory or in a pCPU's registers | `create_task`, `create_task2`, `sched_yield`, `__el2_switch_to` | called by the timer interrupt; saves and restores the vGIC |
| vGIC CPU interface (`src/core/emul_gic.c`) | per-vCPU `pending_virq[8]` under `virq_lock`, list registers live or saved | inject, flush, save, restore, guest SGIs | filled by timer, UART and SGIs of any pCPU, flushed by the pCPU that runs the vCPU |
| IRQ entry, host IPI (`src/arch/aarch64/traps.c`, `src/drivers/gic/gicv3.c`) | pending interrupts | tick, virtual timer, UART, reschedule IPI | calls all of the above |
| guest PSCI (`include/emul_psci.h`) | none of its own: it writes `mpidr`, `affinity` and the vCPU of a task that is already on the ready list | CPU_ON, unlocked, in several steps | scheduler, reschedule IPI |
| emulated PL011 (`src/core/emul_uart.c`) | ring of received characters, RIS/IMSC, interrupt latch, under `g_uart_lock` | drain the host UART (every pCPU), register reads and writes (guest) | vGIC |
| page allocator (`src/core/page_alloc.c`, `bitmap.c`) | a bitmap under `g_page_lock` | allocate and free runs of pages | page tables, per-CPU areas, kmalloc |
| heap (`src/core/kmalloc.c`, `tlsf.c`) | one pool of blocks, size classes and two levels of bitmaps under `g_kmalloc_lock` | malloc, free, memalign, realloc | regions, vCPUs, vector areas, the KMAP bitmap |
| stage 2 and guest faults (`src/arch/aarch64/page_table_s2.c`, `aarch64_guest_fault_manager.c`, `src/core/guest_memory.c`, `emul_dev.c`) | one table for all vCPUs under `g_s2_lock`; device pages with AF=0 | map on fault, MMIO dispatch | page allocator, emulated devices |
| vGICv3 distributor (`src/core/emul_gicv3.c`) | one register file for all vCPUs, no lock | trapped reads and writes | stage-2 faults |
| aarch64 boot (`src/arch/aarch64/init.c`, `mm.c`, `smp.c`, `head.S`, `page_table.c`, `src/core/ioremap.c`) | `g_hyper_config`, the host's tables, the KMAP window, online flags | parse and validate the trees, build the tables, start secondaries with a limit on the wait, create the guest | everything |
| RISC-V scheduler and vCPU (`src/arch/riscv64/sched_riscv.c`, `vcpu.c`, `exception.c`) | the same ready list, CSRs, FP and vector units | yield, switch, publication after it | ready list |
| RISC-V interrupts (`riscv_virt_irq_manager.c`, `riscv_timer_manager.c`, `plic.c`, `emul_uart.c`) | interrupt image of each vCPU, HVIP of each pCPU, the vPLIC, a 16550 | assert, clear, claim and complete, level updates | traps, IPIs |
| RISC-V IPI, fences, SBI (`ipi.c`, `riscv_fence_manager.c`, `riscv_sbi_manager.c`) | request words, completion counters | SBI calls, remote fences, synchronous with a timeout | scheduler |
| RISC-V boot (`reset.c`, `mm.c`, `mmu.c`, `smp.c`, `guest_dtb.c`, `riscv_features.c`) | both page tables, hart numbers, the guest's tree | read the boot arguments, build the tables and the tree, start harts, create vCPUs | everything |
| console, printf, libfdt | - | output; third-party | - |

### What is hard

* pCPUs interleave in `sched_yield`: the choice is made under the lock, the
  publication after it, and the outgoing task goes on the ready list *before* its
  registers are saved (`sched.c:205`).
* `psci_vcpu_on` creates a task that any tick can pick up, and then finds it again
  and writes its identity without a lock.
* a vIRQ moves from an injector on one pCPU through a bounded queue to a bounded
  set of list registers that are themselves switched between vCPUs.
* a masked virtual timer is unmasked only by the guest's handler, so the loss of
  its vIRQ stops the guest's clock.
* all pCPUs drain one host UART, with a latch that suppresses further interrupts, and
  raise the interrupt for a task that the scheduler may have in its hands just then, so
  that the search for it fails.
* list walks without a lock (`psci_task_exists`, the broadcast SGI) can step on an
  entry another pCPU takes off, and follow its NULL.
* two vCPUs fault on one missing table at once, with a table built level by level
  under a lock that the handlers share.
* TLSF keeps sizes, links, marks, lists and bitmaps in step over any sequence of
  requests; a slip shows up many calls later.
* on RISC-V a task is published only after its switch, a level is computed under a
  lock and applied after it, and two pCPUs may fence each other with interrupts off.
* both boots go on while the CPUs they have started run, tick and take locks.

### What makes the parts correct

| part | property | hazard |
|---|---|---|
| aarch64 scheduler | a task is in one place (`OneOwner`); its registers are live on one pCPU (`OneLiveContext`); EL1 runs with the context of the task the scheduler names (`GuestOwnContext`); a ready task runs (`VcpuRuns`) | the windows of `sched_yield` and CPU_ON |
| vGIC | queues bounded and free of duplicates (`QueueOK`, proved); an injected vIRQ is lost only to a full queue (`NoLostVirq`), all others are delivered (`VirqDelivered`) | flush and switch racing injections, full queues and list registers |
| virtual timer | a masked timer has its vIRQ on the way, unless a full queue dropped just that one (`TimerNotStuck`) | a dropped vIRQ |
| PL011 | every character accounted for (`Conserved`); no latch without an interrupt (`LatchHasIrq`); while vCPU0's task cannot be found every pCPU has another one for the interrupt (`UartHasTarget`); characters are read (`RxServiced`) | injection after the unlock, a target that is between two lists, full rings and queues |
| page allocator | no page has two owners (`Exclusive`); the bitmap is what callers hold (`MapIsBlocks`); first fit (`PoolSpec`) | boundaries of words, alignment and memory; exhaustion |
| heap | lists, bitmaps, marks and links agree and free neighbours are merged (`HeapSound`); payloads are disjoint, as long as asked, and a request fails only when no run would do (`HeapPromise`) | splits and merges in any order |
| stage 2 | the tables are a tree and no page is lost (`TablesAreTree`); the guest's view only grows (`ViewGrows`); only an access outside the regions brings the hypervisor down (`OnlyWildPanics`); every access ends (`AccessEnds`) | two faults at once |
| vGICv3 registers | a vCPU's own frame holds what it enabled (`OwnFrameKept`) | no lock |
| RISC-V scheduler | a vCPU is never lost nor in two hands (`OnePlace`), and runs with its own registers (`OwnContext`) | publication after the switch, lazy units |
| RISC-V interrupts | what is raised for a vCPU reaches it (`HvipCoversImage`, `TimerFires`); levels settle (`LevelSettled`) | image and register written by different pCPUs |
| RISC-V fences | a reported fence was made (`FenceDone`); nobody waits for ever (`SyncEnds`) | completions of earlier requests, mutual fences |
| configuration | a tree that passes agrees with the configuration (`GuestAgrees`); the tree made for the guest describes its machine (`RvDtbDescribes`) | cells, short properties, duplicates, boot arguments |
| boot | what is mapped for keeps stays mapped (`MapsKept`, `RvGuestMapped`); a redistributor is set up by its CPU (`OwnRedist`); harts have numbers of their own (`RvHarts`); boot ends (`BootEnds`) | late and refused CPUs, ticks at any moment |

## 2. Modules

`SchedSimple` - the ready list as pure operators over a sequence of tasks.
`IsInsertPos`/`Insert` are `__insert_task_sorted` and `simple_scheduler_sched`
(behind every entry of equal priority), `IsNext`/`NoNext` the selection of
`simple_scheduler_next_no_publish` (first entry with this affinity or none).

`VGic` - a vCPU's queue and its list registers as pure operators: `InjectVirq`
(drop when full, drop a duplicate), `FlushLrs`/`FlushQueue` (oldest entries into
the free list registers in order, the rest kept).

`A64Core` - EXTENDS both: the running hypervisor. The state of a pCPU is its
registers (`lr`, `hw` = whose context they hold, `hwid` = VMPIDR_EL2), its control
state `pc` and the locals of the handler it is in; the shared state is the list,
`running`, pending IPIs and the fields of tasks.

| actions | code |
|---|---|
| `YieldNext`, `YieldStay`, `Publish`, `Requeue`, `SwitchSave`, `SwitchRestore` | `sched_yield` and `__el2_switch_to`, cut at the unlocks and at the points where another pCPU can see the difference |
| `IrqHypTimer`, `IrqVirtTimer`, `IrqUart`, `IrqIpi`, `UartPoll` | `do_irq_mode`; a tick yields and then polls the UART |
| `HvcCpuOn`, `CpuOnExists`, `CpuOnCreate`, `CpuOnFind`, `BindMpidr`, `BindAny`, `BindCpu`, `BindVcpu` | CPU_ON: each unlocked write, and each step of each unlocked walk, is an action |
| `HvcOther` | the PSCI calls that answer without changing shared state |
| `GuestSgi`, `GuestSgiAll`, `SgiAllStep` | ICC_SGI1R traps; the broadcast walks the list unlocked, one entry per step |
| `GuestAck`, `GuestEoi` | the guest's reads of IAR and writes of EOIR (external) |

Steps are merged only where no other pCPU can tell: the search for a target and the
injection (a target found is valid memory whatever happens to the list meanwhile,
and the injection has its own lock), a selection that finds nothing and the flush
that follows, restoring the list registers and the flush after it, and insertion of
the new task with the kick of `create_task2`. Not merged: selection and publication
(the task is in neither place between them), requeueing and saving.

A walk that stands on an entry another pCPU has extracted reads NULL
(`__chain_extract_task` clears the links), faults at EL2 and stays in
`do_hyper_sync`: `pc = "hung"`. That is an outcome of the model, not an error of it.

The behaviours start where boot ends: secondaries wait in wfi, pCPU0 in its idle
loop, the task of vCPU0 is on the ready list.

`Uart` - the receive side of the emulated PL011: `ServiceHost`, `PollFlag`,
`ReadData`, `InjectRx`, `UpdateIrq`, `InjectIrq` are `uart_emul_service_host` and
what it calls, split at the locks; `GuestReadDr`, `GuestWriteImsc`, `GuestWriteIcr`,
`GuestWriteCr` the trapped accesses; the guest's handler is external. Characters are
numbered by arrival, `Junk` is what an empty UARTDR returns. `InjectIrq` looks for the
target after the unlock, as `uart_emul_target_task` does: vCPU0's task if it is current
on pCPU0 or on the ready list (`Found`), else this pCPU's current task, and with neither it
returns with the latch set. What moves vCPU0's task is kept from `A64Core`: `YieldNext`,
`Publish`, `Requeue` on pCPU0, and `StartVcpu` for the others; that the fallback is never
missing is `UartHasTarget` of `A64Core`, and here follows from these steps. `Inject` may
find the queue full and drop the vIRQ (`lost`). The guest's driver is taken to access the
registers under its own lock (`Access`, external). Left out: a second task with vCPU0's
mpidr, from a CPU_ON for vCPU0 that the search for an existing task missed.

`PagePool` - the abstract specification of the page allocator: a set of blocks; a
request gets the lowest free aligned run or, only if there is none, fails.
`PageAlloc` - EXTENDS it with the bitmap: `FindNext` reads word by word with the
mask of the first word and the cut of the last, as `_find_next_bit` does,
`FindNextZeroArea` is the `again:` loop of `bitmap_find_next_zero_area_off`. It
keeps the pool's variables as history, so `PoolSpec` itself is the refinement.

`HeapSpec` - the abstract heap: disjoint payloads, each long enough, and when a
request may fail. `Tlsf` - `tlsf.c` in words of 8 bytes: headers with sizes and marks,
`prev` links, free lists and both levels of bitmaps as functions from the heap as a
call finds it to the heap as it leaves it (`Split`, `MergePrev`, `MergeNext`,
`TrimFree`, `LocateFree`, ...); `Malloc`, `Memalign`, `Free`, `Realloc` are the calls.
`Overwrite` puts junk into whatever a payload may overwrite, so that nothing depends on
a header that callers can reach. `HeapPromise` is the refinement
(`INSTANCE HeapSpec WITH held <- ...`). `KernelMem` composes allocator and heap:
`InitKmalloc` takes the pool from the pages, and then a behaviour explores the callers of
one or of the other, which share nothing.

`Stage2` - the shared table as pages of entries; `S2Lock`, `AllocTable`, `LinkTable`,
`NextLevelMap`, `WriteLeaf` are the steps of `stage2_map` in the lock. `VGicDist` - the
register tables of the emulated GICv3 and which cell an access reaches. `GuestMem`
composes them: `Issue` (an access of the guest), `Translate` (the hardware's walk,
external), `MapPage`, `MapLevel`, `MapLeaf` (the translation fault), `EmulateRead`,
`EmulateLoad`, `EmulateStore`, `EmulateFails` (the access flag fault in the GIC's regions;
load and store apart, since there is no lock), `EmulateUart` (the same in the PL011's
region, whose registers are `Uart`'s). `GuestView` - the abstract view: pages appear one at a
time where their region leads; `ViewGrows` is the refinement.

`RvCore` - the running RISC-V hypervisor on `SchedSimple`, with `VPlic` (the vPLIC's
registers as operators) and `Ns16550` (the emulated UART). The control state of a pCPU
is `todo`, the sequence of steps that its trap still has to make, each a critical
section or an unlocked access; a step may put the steps of what it calls in front.

| actions | code |
|---|---|
| `Tick`, `Soft`, `Ext`, `Take`, `Hfence`, `Count` | interrupts, and the IPI handler with its completion count |
| `Yield`, `Requeue`, `Switch`, `Publish` | `sched_yield` and `__vcpu_switch` |
| `Materialize`, `TimerRefresh`, `Inject`, `Retract`, `FindRunning`, `FindReady`, `Kick`, `SbiSendIpi` | image and HVIP, timers, injection into a vCPU found without the lock |
| `Refresh`, `Levels`, `UartLine`, `UpdateIrq`, `Service`, `IirTx` | vPLIC and UART levels, computed and applied apart |
| `Select`, `Fences`, `SyncRead`, `SyncSend`, `SyncSbi`, `SyncDone`, `SyncTimeout` | `riscv_remote_fence` and the synchronous IPI |
| `Compute`, `Redirect`, `SetTimer`, `SendIpi`, `ClearIpi`, `RemoteFence`, `UartLoad`, `UartStore`, `PlicLoad`, `PlicStore`, `NoEffect` | what a guest does, and its traps |

`fenced`, `raced` and `own` are history.

`BootCfg` - device trees as sequences of nodes, `fdt_helper.c` on them, `LoadDtb` and
`ValidateGuestDtb` of `init.c`. `HostMap` - the host's tables: the builders of static
tables, `MapLevel`, `UnmapLevel`, `FreeLevel` of `page_table.c` a level at a time, and
the KMAP window. `A64Boot` EXTENDS both: one action per function of the boot sequence,
`PageStep` for each level of each page, and the secondaries (`SecondaryEntry`,
`SecondaryMmu`, `PcpuInit`, `EnableTick`, `MarkOnline`, `EarlyTick`). A CPU with 42-bit
addresses stops in `EnableStage2Fatal`, after the test maps; per-CPU areas that get no
pages go on with page `TOTAL_PAGES`; and a CPU whose frame lies behind the redistributor
map reads what happens to be mapped there.
`RvConfig` - flattened trees as tokens, features, boot arguments, and the tree written
for the guest. `RvMmu` - `__pg_map` a level at a time and `ptw_walk`. `RvBoot` EXTENDS
both: the boot of the other architecture. `Boot` puts the two side by side; a behaviour
is one of them.

`MCA64`, `MCUart`, `MCPageAlloc`, `MCGuestMem`, `MCRv`, `MCBoot` - instances for TLC.
`SchedSimpleProofs`, `VGicProofs`, `A64CoreProofs`, `UartProofs`, `KernelMemProofs`,
`GuestMemProofs`, `RvCoreProofs`, `BootProofs` - theorems (section 4).

Definitions named "Faulty variant" are used by no specification: each is a
plausible mistake in the definition that follows it, and substituting it must break
the property it is listed with in `PROJECT.json`.

## 3. Runs

| run | instance | shows |
|---|---|---|
| `a64_sched` | 2 pCPUs, 3 vCPUs, 3 tasks, 1 list register, no UART | `TypeOK`, `OneOwner`, `GuestOwnContext`, `UartHasTarget` |
| `a64_virq` | 2 pCPUs, 2 vCPUs, an SGI to targets and to all, UART, timer; queues of 2 for the 3 vINTIDs | `OneLiveContext`, `NoLostVirq`, `TimerNotStuck` |
| `a64_live` | 2 pCPUs, 2 vCPUs, one SGI, fairness | `VcpuRuns`, `VirqDelivered` |
| `uart` | 2 pCPUs, ring of 2, 2 characters, fairness | `TypeOK`, `Conserved`, `LatchHasIrq`, `RxServiced` |
| `page_alloc` | 14 pages, alignment 2, requests of 1, 2, 3, 5, words of 4 bits; a pool of 21 words, two lists per power of two, requests of 0, 2, 4, 8 words, alignment 4 | `Exclusive`, `MapIsBlocks`, `HeapSound`, `PoolSpec`, `HeapPromise` |
| `guest_memory` | 2 vCPUs, 3 accesses, tables of 3 entries and 2 levels | `GmTypeOK`, `TablesAreTree`, `OnlyWildPanics`, `OwnFrameKept`, `ViewGrows`, `AccessEnds` |
| `riscv` | 2 pCPUs, 3 vCPUs, both units, 2 guest operations from one of five menus | `RvTypeOK`, `OnePlace`, `HvipCoversImage`, `OwnContext`, `FenceDone`, `LevelSettled`, `TimerFires`, `SyncEnds` |
| `boot` | aarch64: 15 host and 14 guest trees, 3 CPUs, cells of 3 bits, tables of 4 entries; RISC-V: 9 trees, 3 harts, pages of 2 bytes | `BootTypeOK`, `GuestAgrees`, `MapsKept`, `OwnRedist`, `RvGuestMapped`, `RvHarts`, `RvDtbDescribes`, `BootEnds` |
| `a64_identity` | expects a violation | `RunsWithIdentity` |
| `a64_double_pend` | expects a violation, 2 list registers | `NoDoublePend` |
| `a64_time_slice` | expects a violation, 1 pCPU, fairness | `VcpuRuns` |
| `uart_order` | expects a violation | `InOrder` |

Bounds. Two pCPUs are all the code admits on aarch64 (`secondary_entry` in
`head.S` parks any other). Two vCPUs are the default configuration (the limit is
4); `a64_sched` has three, so that a CPU_ON is also made on pCPU1, kicks pCPU0 with
the reschedule IPI and races its ticks. `NTask` bounds the tasks ever created. Priorities are all 10, as both
`create_task` and `psci_vcpu_on` pass; the operators of `SchedSimple`, and the
theorems, take any. One list register makes every flush a contended one (hardware
has 4 or more; `a64_double_pend` needs two). In the code `VCPU_MAX_PENDING_VIRQ` is 8, a
queue holds no vINTID twice, and up to 18 are in use (16 SGIs, timer, UART), so a queue can
be full: in `a64_virq` it has two slots for three vINTIDs, and injections are dropped.
`a64_sched` has no UART, since `UartHasTarget` is about the tasks alone. In `uart`
two characters and the junk of an empty UARTDR are three pushes, which wrap round a ring
of two and overfill it. In `page_alloc` the memory ends inside a word and at an aligned page, requests straddle words, and the odd ones leave holes that
the alignment hides. In the heap the requests reach exact
fits, splits, both merges, and refusals; a request of 0 is refused. In `guest_memory`
three accesses are enough for two vCPUs to fault on one page and for one of them to come
back to it; every page of every table is in play. Two levels have what more would
repeat, a link above a leaf, and the theorems are for any number. In `riscv` pCPU 0 switches between two
vCPUs while pCPU 1 runs the third; the menus keep apart guest operations that do not
interact, `Calls` has masks that wrap behind the last hart, and two operations are a
request with one on the other pCPU in its way; boot has created all vCPUs, or was taken
away by a tick after the first (`Created`). `MCBoot` lists what is wrong with each
tree; the physical sizes below, at and above 40 bits, and junk in the window's bitmap are
chosen by the board: behind the bits that boot uses, in their way, or so that no run is
left for the redistributor frames and `ioremap` fails.

Fairness. EL2 runs with IRQs masked and its handlers do not block, so a pCPU in one
goes on (WF on the steps of handlers). A tick that comes meanwhile stays pending and
is re-armed by its own handler, so it is taken when EL2 is left again and again (SF
on `IrqHypTimer`). Two things are asked of the guest: that it acknowledges and ends
interrupts it can see (SF), and that it does not postpone ticks for ever, which it
could, since `handle_sysreg` re-arms the timer at every trapped write. A broadcast
SGI can hang a pCPU (above), so `a64_live` has none. In `Uart`, a pCPU goes on with
its service, and pCPU0 with its yield (WF); vCPU0's task gets pCPU0 back at a later tick
(SF, what `VcpuRuns` says); and the guest takes its interrupt and goes on in its handler
(SF). Nothing is asked of its other accesses, and none of the services to begin. In
`GuestMem` a pCPU goes on with its walk and its handler (WF); it need not make another
access. In `RvCore` a pCPU goes on with its trap, and out of one it is interrupted in
the end, since its timer is always armed (WF on both together); nothing is asked of the
guest, and `SyncTimeout` can always end a wait. In `Boot` the boot CPU goes on and takes
its tick (WF); nothing is asked of the secondaries, so one that never comes online does
not keep boot from ending.

### Findings

* `a64_identity`: comments in `sched.c:81` and `vcpu.c:281` take it that
  `psci_vcpu_on` has written mpidr and VMPIDR before the task first runs. The task
  is on the ready list meanwhile, and its affinity is written before its VMPIDR: a
  tick of pCPU1 in between runs the new vCPU with VMPIDR 0 and without its context id.
* `a64_double_pend`: `emul_gic.c:270` says "don't double-pend". The test looks at
  the queue, not at the list registers: an interrupt that is pending or active in one
  can be listed in a second.
* `a64_time_slice`: the README says that two vCPUs are time-sliced on one pCPU;
  CPU_ON pins vCPU i to pCPU i, and with one pCPU vCPU1 never runs.
* `uart_order`: two pCPUs polling the host UART can swap two characters, or the
  second reads UARTDR of an empty FIFO, since flag and data are read outside the lock.

## 4. Proofs

The theorems hold for every value of the constants that the named assumptions next to
their declarations admit: any number of pCPUs, vCPUs, tasks, priorities, list registers,
vINTIDs, characters, pages, words, table entries and harts, any device trees. The
assumptions are that sizes are positive naturals, that the interrupts in use are in the
sets of interrupts, that RISC-V's context tokens are finitely many, in `GuestMem` that
the GIC's register frames, RAM and the PL011 lie inside the guest's physical space, and in `A64Boot` that
trees are well formed (`IsTree`: properties are cells but for the ones that are strings)
and that the first redistributor frame is the boot CPU's, as `init_gicv3` takes for
granted, and in `RvBoot` what the addresses in `mm.c` and `arch_page.h` satisfy
(`RvLayoutAssumption`: image, UART and PLIC begin on a page, the direct mapping on a
block on both sides, all of it within the tables and the pages outside the blocks).

* `SchedSimpleProofs`: `InsertKeepsUnique` - insertion at a sorted place adds exactly the
  task and makes no duplicate; `RankOnto` - the k-th free list register exists. Lemma
  `RemoveKeepsUnique` says the same of extraction.
* `VGicProofs`: `InjectQueue`, `FlushQueueIsTail` - the queue stays bounded and free
  of duplicates, a flush leaves a suffix of it; `FlushLrsType`.
* `A64CoreProofs`:
  * `TypeCorrect` from `TypeInv` = `TypeOK` and `LocalsOK`: the types of
    `nxt` and `arg` alone do not say that a handler which uses them has set them.
  * `TaskHasOneOwner` from `OwnerInv` = `TypeInv`, `OneOwner`, `YieldOK`,
    `OnlyCreated`. `OneOwner` is not inductive: publishing overwrites `running`, so
    the proof needs that `cur` is what it overwrites (`YieldOK`), and CPU_ON adds a
    task, so that nobody has one which does not exist yet (`OnlyCreated`). Most
    actions touch neither the list nor an owner; lemma `QuietStep` deals with them
    at once, and `NextMoves`, `PublishMoves`, `RequeueMoves`, `SwitchMoves`,
    `CreateMoves` with the rest.
  * `GuestRunsOwnContext` from `ContextInv`: outside requeue, save and restore the
    registers hold the published task's context.
  * `ContextLiveOnce`: `OneLiveContext` follows from `PinnedForHolder`, for any number
    of vCPUs. `PinInv` says that whoever has a task is the pCPU it is pinned to, except
    between the two writes of its affinity; so requeueing before saving is harmless by
    itself, and what can go wrong is a CPU_ON that pins a task anew while another pCPU
    has it. On the instance of `a64_virq` TLC finds `PinnedForHolder` to hold. The condition cannot be dropped: with three vCPUs, a CPU_ON made on pCPU1
    can find a task that pCPU0 has run without an identity, requeued and not yet saved,
    and bind it to pCPU1, which then restores a stale context. With two vCPUs the same
    takes five tasks, that is CPU_ONs repeated while the first one's task is in
    flight, and a walk that a requeue carries past the fresh task.
  * `QueuesStayGood` (`QueueOK`: bounded, no vINTID twice), which `VirqsNotLost` needs, from
    the lemmas of `VGicProofs`.
  * `VirqsNotLost`, `TimersNotStuck`: `NoLostVirq` and `TimerNotStuck`, when contexts are
    live once, for every length of the queue and every set of vINTIDs. A full queue drops
    what is injected (`NoRoom`); the theorems say that this is the only way to lose a vIRQ,
    and that a masked timer without one is the timer whose own vIRQ was dropped (`vtlost`).
    Both say that something is on its way (`OnWay`): queued, or in the
    list registers, wherever those are. `SaveInv` says that what `gic_vcpu_save` stores
    are the outgoing task's. `FlushKeeps` is the heart: an entry that leaves
    the queue is the k-th for the k-th free list register.
* `UartProofs`: `UartTypes`; `NothingLost`, that is `Conserved`, from `PlaceInv`: each
  character is in exactly one place, counted with multiplicity, the ring is the
  `rx_count` slots from `rx_tail` on, and a pCPU holds a character only between the read
  and the push; `LatchAlwaysHasIrq`, for the two pCPUs
  that `secondary_entry` admits, from `LatchInv`: the latch implies that receive is pending
  and unmasked, except inside a guest access, whose closing `uart_emul_update_irq` puts it
  right. That a failed search for vCPU0's task has a current task to fall back on is
  `WhereInv`: the search fails only while pCPU0 is between selecting a task and requeueing
  the other; pCPU0 has a second task only when the other pCPU, on which CPU_ON was called,
  has a current one; and before vCPU0 has run nothing is unmasked. With a third pCPU that
  has run nothing yet the vIRQ could be lost. `lost` is the drop by a full queue.
* `KernelMemProofs`: the bitmap keeps the pool's promise, and with it (lemma
  `PagesExclusive`) exclusive ownership. `ZeroAreaIs` - the word-wise search
  with its masks answers the lowest aligned run of zero bits, or a number that is not
  below the size - rests on lemmas about what `_find_next_bit` answers. Then
  `BitmapIsBlocks` (`MapIsBlocks`), `AllocatorIsPool` (every step of the bitmap is
  a step of `PagePool`, so `PoolSpec` holds) and `PagesHeldOnce` (`Exclusive`). The two
  invariants are inductive together (`AllocInv`) and neither is alone: a run of zero bits
  is free of blocks only if the bitmap is the blocks, and freeing one block clears
  another's bits unless they are disjoint.
  * `HeapStaysSound`: `HeapSound`, for every pool, number of lists and set of requests.
    Within a call the structure is broken: a block is out of its list and not yet used, its
    neighbour's mark is stale. `Good(h, B, X, U)` is what holds all the same: the blocks `B`
    tile the pool (`Tiles`); marks, links and lists are right (`Marked`, `Listed`) but for the
    blocks `X` that the call has in its hands; `U` are the used ones of the others. Each
    function of `tlsf.c` has a lemma that says which `Good` it needs and which it leaves
    (`SplitIs`, `AbsorbIs`, `MergeNextIs`, `MergePrevIs`, `PrepareUsedIs`, `TrimUsedIs`,
    `LeadingIs`, `FreedIs`, `LocateIs`), a call begins and ends with `X` empty, and
    `OverwriteIs` shows that no junk in a payload reaches the structure. `MappingIn` - each
    size has a list that exists - is about powers of two (`Pow2Is`, `Pow2Sum`, `FlsIs`).
    One condition: the pool's one block is shorter than `block_size_max` (`PoolIndexed`).
    `tlsf_add_pool` also accepts a pool whose block is exactly that long, and
    `mapping_insert` puts it into list `FL_INDEX_COUNT`, one behind the last; kmalloc's
    16 MB are far from it. And `TlsfAssumption` has requests below `block_size_max`:
    `adjust_request_size` answers 0 for a longer one, which `tlsf_malloc` takes for a
    failure and `tlsf_realloc`, which kmalloc does not call, for a size.
  * `HeapKeepsPromise`: every call is a step of `HeapSpec`, under the same condition. Granted
    memory: the search starts at a list all of whose blocks are long enough (`SearchServes`,
    `FoundServes`), trimming leaves less than a block's worth (`TrimmedFits`), what
    `tlsf_memalign` asks for in addition covers the gap to the alignment and the least block
    in front of it (`GapFits`, `MemalignRoom`), and the blocks tile the pool (`Granted`). A
    refusal: the search passes no list that has a block as long as the size class
    (`SearchReaches`, `LongIsFound`), and a free run of that length lies in one block, since
    free neighbours have been merged (`Covered`, `RefusedRightly`). Both theorems rest on
    `HeapInductive`.
* `GuestMemProofs`:
  * `OwnFrame`: `OwnFrameKept`, although the emulated registers have no lock: a vCPU's
    own frame is written by nobody else, and its load and store are of one access
    (`FrameInv`).
  * `GuestMemTypes`, `TablesStayTree`, `PanicsAreWild`, `TablesAreView` (the refinement of
    `GuestView`) from `FaultInductive`. `TablesAreTree` is not inductive: a table
    that is allocated and not yet linked is in nobody's entry (`Holder`), and what a
    handler wrote on its last level is what its successor in the lock will find. `Forest`
    is the inductive form: every table has one parent, a level below it, and one holder.
    They are stated while pages last (`NPages` not handed out): `alloc_one_page` answers
    `TOTAL_PAGES` when there is none, and `stage2_map` takes that for a page. The tables
    that boot builds are covered by `BootAddSteps`, an induction along the guest's memory.
* `RvCoreProofs`: `RvTypes`, `VcpuInOnePlace`, `RunsOwnContext`, `FenceReported`,
  `ImageReachesHvip` from `RvInductive`, the conjunction of `TypeInv` (each step in
  `todo` has the arguments it needs), `PlaceInv` (in the middle of a yield the task is
  in the hands of the step that comes next, and the trap has one of a few shapes),
  `CtxInv` (a pCPU's registers are those of its live vCPU, which in the switch is not its
  current one; the saved ones of every other vCPU are its own), `FenceInv` (a counter
  that has moved, or is about to, since it was read, has the fence behind it) and
  `CoverInv` (inside a trap, too, HVIP has the image of the current vCPU, or
  the trap or a software interrupt will copy it).
  * `LevelsSettle`: `LevelSettled`, from `LevelInv`. The property speaks of moments with no
    trap under way; `LevelInv` says at every other one that a level which is not right has the
    step ahead that will set it, and that every level already read and not yet applied
    is still the right one. Three things make it inductive: the order of a trap's steps (`Well`:
    what updates a level comes before all the rest but searches and kicks; a read of IIR
    ends in `ns16550a_update_irq`; `set_current` is followed by `riscv_vplic_refresh`); that
    `riscv_find_guest_vcpu` can only miss a vCPU that is on its way in and will read its
    level itself (`FindRight`, `Renewing`, by `RenewStep`); and that without an overlap a
    pCPU which updates levels finds everyone else quiet (`RaceMeans`). Steps that touch
    no level are dealt with at once (`AllSilent`, `FineSilent`).
* `BootProofs`:
  * `GuestFits`: `GuestAgrees`, from `ConfigInv` (the trees have been read and held against
    each other before anything else happens) and `ValidAgrees`, which is about the
    validation itself, for any tree. The proof attempt found the property as it stood
    false: a distributor that ends behind the redistributors passed as set apart from
    them. `Agrees` now says so, and `MCBoot` has such a tree.
  * `HartsHaveNumbers`: `RvHarts`, from `HartInv`: `g_cpu_to_hart` and the scratch areas
    are each other's inverse except for the hart that has just been started.
  * `RedistOwned`: `OwnRedist`, provided `MapsKept`. That no CPU touches another's frame,
    and that the boot CPU's tables are saved before a secondary starts, is `SmpInv` and needs
    no condition. That the frame is mapped is `FramesInv`: from `init_interrupt` on each
    page of the redistributors is mapped or among the calls still to be made, and no
    secondary is started before these are over (`PageStepCalls`: a call is carried to its
    end whatever level it is at).
  * `BootTypes`: `BootTypeOK` while pages last (`PagesLast`). The pages taken lie in the
    pool unless the page right behind it has been given out, which is what an allocator
    that has run out answers with.
  * `GuestIsMapped`: `RvGuestMapped` while pages last (`RvPagesLast`), for bootargs whose
    RAM lies within what the tables can map (`RamFits`; nothing in the code tests it).
    The invariant (`Mapping`) holds between any two levels of a `__pg_map` call: every
    table has one place, a root, a level and a number there (`Keyed`), an entry leads to
    the table of its own place and every table is led to (`Linked`), a leaf is where a
    call asked for it (`Asked`), and every call so far is written or still under way at a
    table of its path (`Serves`). It needs that no two calls contradict each other (`Plan`),
    for a page inside a block would be written into the table above it ("walk block desc");
    `PlanIs` shows that of the boot's calls. At the end places tell tables apart, so a
    walk can only find what was asked for (`WalkSound`), finds it (`WalkLeaf`), and links
    and tables are as many (`TablesLinked`).

Facts about recursive functions are proved by the least counterexample (`LeastNumber`,
from the well-foundedness of `<`), since the library's induction theorems cannot be
instantiated. Sizes of table levels and of size classes are recursive functions (`Span`,
`Pow2`) or products (`LevelSpan`) and no powers, which the provers do not have.

Only model-checked: liveness (`VcpuRuns`, `VirqDelivered`, `RxServiced`, `AccessEnds`,
`TimerFires`, `SyncEnds`, `BootEnds`: TLAPS does not do fairness); `OneLiveContext`
without a condition (see above); `UartHasTarget`; of aarch64's boot `MapsKept`, whose tables are also
freed and begin with static ones; and of RISC-V's `RvDtbDescribes`, about a tree that is
written out and read back.

What the runs leave open is said in the properties and is the code's: `FenceDone`
excepts a target that was between an earlier fence and its count when the call began,
`LevelSettled` two level updates that overlapped, `NoLostVirq`, `TimerNotStuck` and
`LatchHasIrq` a full queue, `OwnContext` a unit the guest marked
clean, `RvGuestMapped` a RAM base that is not on a page and RAM that covers a device, `GuestAgrees` CPUs named or
configured twice, and a GIC whose frames are not in order or have the UART between them; `BootEnds` counts as ends the
deadlock of a tick in `create_task`'s critical section, the walk of the zeroed list
before `init_sched`, and, on RISC-V, the switch away from a boot that has harts left to
create.

## 5. What is not modelled, and why

* `simple_scheduler_yield`, `_block`, `_unblock`, `sched_yield2`, `create_task3`,
  `stage2_unmap`, `ipi_call_func`, `tlsf_remove_pool`, `fini_kmalloc`: no caller.
  `TASK_EXIT` and `sink_task`: not reachable by an EL1 guest.
* Individual EL1 and VS registers: a context is one token (and two units on RISC-V); its
  VMPIDR, list registers and timer mask are the parts that properties tell apart.
* Values of timers, decoding of trapped instructions, system register and GIC set-up
  values, identification registers: data without later interaction.
* The memory order of the spin locks (RISC-V's unlock is a plain store): locks are atomic
  sections here.
* What callers make of a failed page request (they test for a negative number, the
  allocator answers `TOTAL_PAGES`): `A64Boot`'s per-CPU areas go on with that page, and the
  theorems about stage 2 and both boots are for as long as pages last. Of the runs only
  `page_alloc`, which has no such caller, runs out of pages.
* RISC-V's branch that maps guest RAM on a fault (`riscv_guest_fault_manager.c:86-92`):
  `init_guest_memory` has mapped all of it before the first vCPU runs.
* A kmalloc that fails for a vCPU's vector area: taken to succeed.
* Console, log and printf: output. libfdt is third-party code; what `init.c` uses of it
  to read trees is in `BootCfg`, mapped to its lines. Headers that only
  define registers and encodings, which is much of the source by lines.

## 6. Plan

1. Proofs: `MapsKept`, on the pattern of `Mapping` in `BootProofs`, with the conditions
   on where the image, the devices and the window lie.
2. Lost updates in the emulated distributor, and the unlocked walks that hang, as
   properties with the assumption under which they hold.
3. A heap that fails, under the callers that do not expect it.
