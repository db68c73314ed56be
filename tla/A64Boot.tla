------------------------------ MODULE A64Boot -------------------------------
(***************************************************************************)
(* The boot of the aarch64 hypervisor, from the device trees to the first   *)
(* guest task (src/arch/aarch64/init.c, mm.c, smp.c, percpu.c, timer.c,     *)
(* head.S; src/drivers/gic/gicv3.c), with the secondary CPUs that the       *)
(* firmware starts while it goes on.  One action per function of the boot   *)
(* sequence, one per phase of secondary_start.  The board decides the rest: *)
(* the trees, the physical address size, PSCI's answers, and when a tick    *)
(* comes.                                                                   *)
(***************************************************************************)
EXTENDS BootCfg, HostMap

CONSTANTS
    HostTrees, GuestTrees,  \* the trees that may be in memory
    Junks,          \* what an unread pair may hold
    PaRanges,       \* ID_AA64MMFR0_EL1.PARange
    WindowJunk,     \* what kmalloc may have left in the window's bitmap
    Secondary,      \* MPIDRs of the CPUs that are off; the boot CPU's is 0
    RdistAff,       \* the affinity each redistributor frame reports
    RdistStride,    \* pages of a frame
    SmpCpuNum,      \* CONFIG_SMP_CPU_NUM = SMP_MAX_CPUS
    GiccPage,       \* GIC_GICC_BASE
    FdtPage, FdtPages,      \* where the host's tree is, and the pages of 0x10000
    SgiFixAt,       \* GICR_SGI_BASE_FIXMAP, behind the page of 0xE100000000
    HeapPages, KmapL2, KmapL3, S2Tables     \* pages taken by others

ASSUME A64BootAssumption ==
    /\ 0 \notin Secondary /\ Secondary \subseteq Nat
    /\ {SmpCpuNum, GiccPage, FdtPage, FdtPages, SgiFixAt, HeapPages, KmapL2, KmapL3, S2Tables} \subseteq Nat
    /\ RdistStride \in Nat \ {0} /\ RdistAff[1] = 0     \* the first frame is the boot CPU's
    /\ \A junk \in WindowJunk : junk \subseteq Nat
ASSUME TreesAssumption == \A t \in HostTrees \cup GuestTrees : IsTree(t)

VARIABLES
    stage,          \* where the boot CPU is
    host, guest,    \* the trees
    cfg,            \* g_hyper_config
    mmuBoot,        \* the fields of g_mmu_boot that are set
    mem,            \* the host's tables and the page allocator
    window,         \* bits of g_vmalloc_bitmap
    todo,           \* calls of __ptw_map_4k_page and __ptw_unmap_4k_page
                    \* that the loops still have to make, the first begun
    kept, others,   \* what MapSound is told
    fdtAt,          \* what the next iounmap is given: the GIC's frames,
                    \* then the host's tree
    cpus,           \* host_cpus[].mpidr
    turn,           \* i of smp_boot_secondaries
    online,         \* indices with state CPU_ONLINE_SCHED
    sec,            \* per secondary: where it is
    redist,         \* redistributor frames initialised, with the CPU that did
    listInit,       \* init_sched has run
    lock,           \* who holds g_sched_lock: a set of at most one MPIDR
    irqOn,          \* the boot CPU takes ticks
    task            \* the guest's task: "none", "ready", "running"

bootVars == <<stage, host, guest, cfg, mmuBoot, mem, window, todo, kept, others, fdtAt, cpus, turn,
              online, sec, redist, listInit, lock, irqOn, task>>

mmVars  == <<mem, window, todo, kept, others, fdtAt>>
cfgVars == <<host, guest, cfg, mmuBoot>>
smpVars == <<cpus, turn, online, sec, redist>>
runVars == <<listInit, lock, irqOn, task>>

BootInit ==
    /\ stage = "reset"
    /\ host = <<>> /\ guest = <<>> /\ cfg = Defaults /\ mmuBoot = {}
    /\ mem = NoMemory /\ window = {} /\ todo = <<>> /\ kept = {} /\ others = {} /\ fdtAt = 0
    /\ cpus = <<>> /\ turn = 1 /\ online = {}
    /\ sec = [m \in Secondary |-> "off"] /\ redist = {}
    /\ listInit = FALSE /\ lock = {} /\ irqOn = FALSE /\ task = "none"

-----------------------------------------------------------------------------
(* switch_to_el2: EL3's registers, the first redistributor awake, and an    *)
(* eret into __init_hyper_low_level with the tree's address kept.           *)
SwitchToEl2 ==
    /\ stage = "el3"
    /\ stage' = "load_dtb"
    /\ UNCHANGED <<cfgVars, mmVars, smpVars, runVars>>

(* init_hyper_low_level: the firmware has left the CPU in EL3, which it     *)
(* leaves, in EL2, or below, where c_main spins.                            *)
InitHyperLowLevel ==
    /\ stage = "reset"
    /\ stage' \in {"el3", "load_dtb", "not_el2"}
    /\ UNCHANGED <<cfgVars, mmVars, smpVars, runVars>>

(* init_platform up to load_dtb.  Without a platform node it returns -1,    *)
(* which is ignored: boot goes on with the defaults and no validation.      *)
InitPlatform ==
    /\ stage = "load_dtb"
    /\ \E h \in HostTrees, g \in GuestTrees, junk \in Junks :
          LET c == LoadDtb(h, junk)
          IN  /\ host' = h /\ guest' = g
              /\ cfg' = IF PlatformNode(h) = 0 THEN Defaults ELSE c
              /\ stage' = IF \/ PlatformNode(h) = 0
                             \/ /\ ByProp(h, PlatformNode(h), "device_type", <<"memory">>) # 0
                                /\ ValidateGuestDtb(g, c)
                          THEN "cpu_init" ELSE "panic"
    /\ UNCHANGED <<mmuBoot, mmVars, smpVars, runVars>>

(* id2pa_range, clamped by get_phys_bits                                    *)
PhysBits(id) == IF id > 6 THEN -1 ELSE <<32, 36, 40, 42, 44, 48, 48>>[id + 1]

(* cpu_init: below 40 bits it returns before it programs and saves TCR_EL2, *)
(* and boot goes on.  With 42 bits it goes on to enable_stage2_traslation.  *)
CpuInit ==
    /\ stage = "cpu_init"
    /\ \E id \in PaRanges :
          /\ mmuBoot' = IF PhysBits(id) < 40 THEN mmuBoot ELSE mmuBoot \cup {"tcr"}
          /\ stage' = IF id = 3 THEN "mm_42" ELSE "mm"
    /\ UNCHANGED <<host, guest, cfg, mmVars, smpVars, runVars>>

Run(from, cnt) == from..(from + cnt - 1)

(* init_direct_mapping: all that is mapped of the pages the allocator has   *)
InitDirectMapping(m) == BuildTwoLevel(m, DirectAt, Fan, Fan, BootPgtable, DirectL1, DirectL2)

Identity(from, pages) == {<<from + i, from + i>> : i \in 0..(pages - 1)}

(* init_mm up to init_kmap: the image, the UART and the direct mapping in   *)
(* static tables, then the page allocator, the heap's pages, the window.    *)
InitMm ==
    /\ stage \in {"mm", "mm_42"}
    /\ LET image  == BuildThreeLevel(NoMemory, ImageAt, ImageAt, ImageSize, BootPgtable, BootFirst, BootSecond)
           uart   == FixMap(image, UartAt, UartAt, BootPgtable, BootFirst, BootFix)
           direct == InitDirectMapping(uart)
           heap   == Run(AllocPagesCnt({}, HeapPages), HeapPages)
       IN  /\ mem' = [direct EXCEPT !.used = heap]
           /\ others' = heap
    /\ \E junk \in WindowJunk : window' = CreateBitmap(junk)
    /\ kept' = Identity(ImageAt, ImageSize) \cup {<<UartAt, UartAt>>}
                 \cup {<<DirectAt + i, Fan + i>> : i \in 0..(Fan * Fan - 1)}
    /\ stage' = IF stage = "mm" THEN "test_page_alloc" ELSE "test_page_alloc_42"
    /\ UNCHANGED <<cfgVars, todo, fdtAt, smpVars, runVars>>

(* test_page_alloc: four pages, two, the four back, two again where they    *)
(* were; pages for a window table that nothing uses; then the UART and each *)
(* CPU's SGI frame, 4 KB at a time, below 0xE100000000.                     *)
TestPageAlloc ==
    /\ stage \in {"test_page_alloc", "test_page_alloc_42"}
    /\ \E four \in {AllocPagesCnt(mem.used, 4)} :
       \E two \in {AllocPagesCnt(mem.used \cup Run(four, 4), 2)} :
       \E again \in {AllocPagesCnt(mem.used \cup Run(two, 2), 2)} :
       \E u \in {mem.used \cup Run(two, 2) \cup Run(again, 2)} :
       \E l2 \in {Run(AllocPagesCnt(u, KmapL2), KmapL2)} :
          LET l3 == Run(AllocPagesCnt(u \cup l2, KmapL3), KmapL3)
              Sgi(c) == cfg.gic.gicr[1] + (c - 1) * cfg.gic.stride + 1
          IN  /\ mem' = [mem EXCEPT !.used = u \cup l2 \cup l3]
              /\ others' = mem'.used
              /\ todo' = MapPages(SgiFixAt - 1, UartAt, 1, TRUE)
                           \o [c \in 1..SmpCpuNum |-> Call("map", SgiFixAt + c - 1, Sgi(c), TRUE)]
              /\ stage' = CASE again # four -> "fatal"
                            [] again = four /\ stage = "test_page_alloc" -> "stage2"
                            [] OTHER -> "stage2_42"
    /\ UNCHANGED <<cfgVars, window, kept, fdtAt, smpVars, runVars>>

(* host_map_one_page and host_unmap_one_page for each page of ioremap and   *)
(* iounmap, a level of the tables at a time.                                *)
PageStep ==
    /\ todo # <<>> /\ stage # "fatal"
    /\ LET t   == Head(todo)
           did == CASE t.op = "map" -> MapLevel(mem, t)
                    [] t.op = "unmap" -> UnmapLevel(mem, t)
                    [] t.op = "free" -> FreeLevel(mem, t)
       IN  /\ mem' = did.mem
           /\ todo' = did.rest \o Tail(todo)
           /\ kept' = IF t.keep /\ did.rest = <<>> THEN kept \cup {<<t.va, t.pa>>} ELSE kept
    /\ stage' = IF mem'.fatal THEN "fatal" ELSE stage
    /\ UNCHANGED <<cfgVars, window, others, fdtAt, smpVars, runVars>>

(* enable_stage2_traslation with 42 bits: the eight pages of the root are   *)
(* taken before hyper_fatal refuses the size.                               *)
EnableStage2Fatal ==
    /\ stage = "stage2_42"
    /\ LET root == Run(AllocPagesCnt(mem.used, 8), 8)
       IN  /\ mem' = [mem EXCEPT !.used = @ \cup root]
           /\ others' = others \cup root
    /\ stage' = "fatal"
    /\ UNCHANGED <<cfgVars, window, todo, kept, fdtAt, smpVars, runVars>>

(* enable_stage2_traslation, seen from here, and init_mm's own test of the  *)
(* window, which maps and unmaps the UART in it.                            *)
EnableStage2 ==
    /\ stage = "stage2"
    /\ LET s2 == Run(AllocPagesCnt(mem.used, S2Tables), S2Tables)
       IN  /\ mem' = [mem EXCEPT !.used = @ \cup s2]
           /\ others' = others \cup s2
    /\ window' = Vmalloc(window, 1)
    /\ todo' = MapPages(IoremapAt(window, 1), UartAt, 1, FALSE) \o UnmapPages(IoremapAt(window, 1), 1)
    /\ mmuBoot' = mmuBoot \cup {"vtcr", "vttbr"}
    /\ stage' = "percpu"
    /\ UNCHANGED <<host, guest, cfg, kept, fdtAt, smpVars, runVars>>

(* init_percpu_area: a page for every CPU but the first; when none is left, *)
(* page TOTAL_PAGES, which the test for a negative number lets through.     *)
InitPercpuArea ==
    /\ stage = "percpu"
    /\ \E pages \in {{Fan + 2 * i : i \in 0..(NPages \div 2 - 1)} \ mem.used} :
          LET taken == {p \in pages : Cardinality({q \in pages : q < p}) < SmpCpuNum - 1}
                         \cup {p \in {Fan + NPages} : Cardinality(pages) < SmpCpuNum - 1}
          IN  /\ mem' = [mem EXCEPT !.used = @ \cup taken]
              /\ others' = others \cup taken
    /\ stage' = "interrupt"
    /\ UNCHANGED <<cfgVars, window, todo, kept, fdtAt, smpVars, runVars>>

(* init_interrupt: the GIC's frames are mapped, the redistributors to stay. *)
InitInterrupt ==
    /\ stage = "interrupt"
    /\ \E w1 \in {Vmalloc(window, 1)} :
       \E w2 \in {Vmalloc(w1, 1)} :
           /\ window' = Vmalloc(w2, cfg.gic.gicr[2])
           /\ cfg' = [cfg EXCEPT !.gic.virt = IoremapAt(w2, cfg.gic.gicr[2])]
           /\ todo' = MapPages(IoremapAt(window, 1), cfg.gic.gicd[1], 1, FALSE)
                        \o MapPages(IoremapAt(w1, 1), GiccPage, 1, FALSE)
                        \o MapPages(IoremapAt(w2, cfg.gic.gicr[2]), cfg.gic.gicr[1], cfg.gic.gicr[2], TRUE)
           /\ fdtAt' = IoremapAt(window, 1)
    /\ stage' = "gic"
    /\ UNCHANGED <<host, guest, mmuBoot, mem, kept, others, smpVars, runVars>>

(* gicv3_rd_init: the frame's SGIs and PPIs get group, priority and enable  *)
RdInit(frame, cpu) == redist \cup {[frame |-> frame, cpu |-> cpu]}

(* init_gicv3: the distributor, the first redistributor, which is taken for *)
(* the boot CPU's, and its CPU interface; then the unmaps.                  *)
InitGicv3 ==
    /\ stage = "gic"
    /\ redist' = RdInit(0, 0)
    /\ todo' = UnmapPages(fdtAt, 2)
    /\ stage' = "cpus"
    /\ UNCHANGED <<cfgVars, mem, window, kept, others, fdtAt, cpus, turn, online, sec, runVars>>

-----------------------------------------------------------------------------
(* parse_host_cpus: the children of /cpus that have a reg of enough cells   *)
(* and are started by PSCI.                                                 *)
HostCpus(fdt) ==
    LET node  == CpusNode(fdt)
        na    == IF Prop(fdt, node, "#address-cells") = <<>> THEN 2 ELSE Prop(fdt, node, "#address-cells")[1]
        good  == {n \in Children(fdt, node) : /\ Prop(fdt, n, "reg") # <<>> /\ Len(Prop(fdt, n, "reg")) >= na
                                              /\ Prop(fdt, n, "enable-method") = <<"psci">>}
        Nth(i) == CHOOSE n \in good : Cardinality({k \in good : k <= n}) = i
    IN  IF node = 0 THEN <<>>
        ELSE [i \in 1..Min({Cardinality(good), SmpCpuNum}) |->
                 Aff(ReadCells(SubSeq(Prop(fdt, Nth(i), "reg"), 1, na)))]

(* init_secondary_cpus up to the loop of smp_boot_secondaries               *)
ParseHostCpus ==
    /\ stage = "cpus"
    /\ window' = Vmalloc(window, FdtPages)
    /\ todo' = MapPages(IoremapAt(window, FdtPages), FdtPage, FdtPages, FALSE)
    /\ fdtAt' = IoremapAt(window, FdtPages)
    /\ cpus' = HostCpus(host)
    /\ stage' = IF Len(cpus') <= 1 THEN "unmap_fdt" ELSE "boot_cpu"
    /\ UNCHANGED <<cfgVars, mem, kept, others, turn, online, sec, redist, runVars>>

NextCpu(i) == IF i = Len(cpus) THEN turn' = i /\ stage' = "unmap_fdt" ELSE turn' = i + 1 /\ stage' = "boot_cpu"

(* psci_cpu_on of host_cpus[turn], or nothing for the boot CPU.  PSCI       *)
(* starts a CPU that is off, and refuses any other.                         *)
CpuOn ==
    /\ stage = "boot_cpu"
    /\ LET m == cpus[turn]
       IN  \/ /\ m = 0
              /\ NextCpu(turn) /\ UNCHANGED sec
           \/ /\ m # 0
              /\ NextCpu(turn) /\ UNCHANGED sec
           \/ /\ m \in Secondary /\ sec[m] = "off"
              /\ sec' = [sec EXCEPT ![m] = "entry"]
              /\ stage' = "wait" /\ UNCHANGED turn
    /\ UNCHANGED <<cfgVars, mmVars, cpus, online, redist, runVars>>

(* Faulty variant, for mutation runs: the wait has no limit.                *)
WaitOnlineForever ==
    /\ stage = "wait"
    /\ turn \in online
    /\ NextCpu(turn)
    /\ UNCHANGED <<cfgVars, mmVars, cpus, online, sec, redist, runVars>>

(* The wait for CPU_ONLINE_SCHED ends, or after 100000 spins is given up.   *)
WaitOnline ==
    /\ stage = "wait"
    /\ NextCpu(turn)
    /\ UNCHANGED <<cfgVars, mmVars, cpus, online, sec, redist, runVars>>

UnmapFdt ==
    /\ stage = "unmap_fdt"
    /\ todo' = UnmapPages(fdtAt, FdtPages)
    /\ stage' = "init_sched"
    /\ UNCHANGED <<cfgVars, mem, window, kept, others, fdtAt, smpVars, runVars>>

-----------------------------------------------------------------------------
InitSched ==
    /\ stage = "init_sched"
    /\ listInit' = TRUE
    /\ stage' = "timer_init"
    /\ UNCHANGED <<cfgVars, mmVars, smpVars, lock, irqOn, task>>

(* init_emul_dev, timer_init                                                *)
TimerInit ==
    /\ stage = "timer_init"
    /\ irqOn' = TRUE
    /\ stage' = "create_task"
    /\ UNCHANGED <<cfgVars, mmVars, smpVars, listInit, lock, task>>

(* create_task up to the lock of simple_scheduler_sched ...                 *)
CreateTask ==
    /\ stage = "create_task"
    /\ lock = {}
    /\ lock' = {0}
    /\ stage' = "insert"
    /\ UNCHANGED <<cfgVars, mmVars, smpVars, listInit, irqOn, task>>

(* ... and from there.  After it the boot CPU waits for its tick.           *)
Insert ==
    /\ stage = "insert"
    /\ lock' = {}
    /\ task' = "ready"
    /\ stage' = "finished"
    /\ UNCHANGED <<cfgVars, mmVars, smpVars, listInit, irqOn>>

(* The hypervisor timer on the boot CPU, from timer_init on: sched_yield    *)
(* takes g_sched_lock, and for good when it is the boot CPU's own.          *)
BootTick ==
    /\ irqOn
    /\ \/ /\ lock = {} /\ task = "ready"
          /\ task' = "running" /\ stage' = "guest" /\ irqOn' = FALSE
       \/ /\ lock = {0}
          /\ stage' = "deadlock" /\ irqOn' = FALSE /\ UNCHANGED task
    /\ UNCHANGED <<cfgVars, mmVars, smpVars, listInit, lock>>

-----------------------------------------------------------------------------
CpuIndex(m) == {i \in DOMAIN cpus : cpus[i] = m}

SecStep(m, from, to) == sec[m] = from /\ sec' = [sec EXCEPT ![m] = to]

(* secondary_entry of head.S has a number and a stack for MPIDRs 0 and 1,   *)
(* whatever index the tree gives them.                                      *)
SecondaryEntry(m) ==
    /\ SecStep(m, "entry", IF m > 1 THEN "hung" ELSE "start")
    /\ UNCHANGED <<stage, cfgVars, mmVars, cpus, turn, online, redist, runVars>>

(* secondary_start looks the CPU up, parks a stranger, and loads what the   *)
(* boot CPU saved.                                                          *)
SecondaryMmu(m) ==
    /\ SecStep(m, "start", IF CpuIndex(m) = {} THEN "parked" ELSE "mmu")
    /\ UNCHANGED <<stage, cfgVars, mmVars, cpus, turn, online, redist, runVars>>

(* The frame of pCPU index i: its offset in the redistributors' map.        *)
FrameOffset(i) == (i - 1) * cfg.gic.stride

(* What gicv3_pcpu_init reads for pCPU index i is mapped to, or <<>>.       *)
FramePage(i) == WalkPageTable(mem, cfg.gic.virt + FrameOffset(i))

(* The frame that a physical page begins, or the number of frames if none.  *)
FrameOf(pa) ==
    LET off == pa - cfg.gic.gicr[1]
    IN  IF off % RdistStride = 0 /\ off \div RdistStride \in 0..(Len(RdistAff) - 1)
        THEN off \div RdistStride ELSE Len(RdistAff)

(* Faulty variant, for mutation runs: the affinity is not compared.         *)
PcpuInitUnchecked(m) ==
    /\ \E i \in CpuIndex(m) :
          \/ /\ FramePage(i) = <<>>
             /\ SecStep(m, "mmu", "hung") /\ UNCHANGED redist
          \/ /\ FramePage(i) # <<>>
             /\ SecStep(m, "mmu", "gic")
             /\ LET f == FrameOf(FramePage(i)[1])
                IN  redist' = IF f < Len(RdistAff) THEN RdInit(f, m) ELSE redist
    /\ UNCHANGED <<stage, cfgVars, mmVars, cpus, turn, online, runVars>>

(* gicv3_pcpu_init: the frame is the index times the stride.  Behind the    *)
(* redistributors' map it reads what is mapped there, the host's tree if    *)
(* that is still mapped, else the access faults.  What reports another      *)
(* affinity is left alone, and so is the CPU interface.                     *)
PcpuInit(m) ==
    /\ \E i \in CpuIndex(m) :
          \/ /\ FramePage(i) = <<>>
             /\ SecStep(m, "mmu", "hung") /\ UNCHANGED redist
          \/ /\ FramePage(i) # <<>>
             /\ SecStep(m, "mmu", "gic")
             /\ LET f == FrameOf(FramePage(i)[1])
                IN  redist' = IF f < Len(RdistAff) /\ RdistAff[f + 1] = m THEN RdInit(f, m) ELSE redist
    /\ UNCHANGED <<stage, cfgVars, mmVars, cpus, turn, online, runVars>>

(* HCR_EL2, then enable_timer_irq and hyp_timer_rearm                       *)
EnableTick(m) ==
    /\ SecStep(m, "gic", "tick")
    /\ UNCHANGED <<stage, cfgVars, mmVars, cpus, turn, online, redist, runVars>>

MarkOnline(m) ==
    /\ SecStep(m, "tick", "online")
    /\ online' = online \cup CpuIndex(m)
    /\ UNCHANGED <<stage, cfgVars, mmVars, cpus, turn, redist, runVars>>

Ticks(m) == sec[m] \in {"tick", "online"} /\ \E r \in redist : r.cpu = m

(* A tick on a secondary: sched_yield walks the ready list under the lock.  *)
(* Before init_sched the list head is all zeros: the walk leads to address  *)
(* 0 and into do_hyper_sync, with the lock held.                            *)
EarlyTick(m) ==
    /\ Ticks(m) /\ ~listInit /\ lock = {}
    /\ lock' = {m}
    /\ sec' = [sec EXCEPT ![m] = "hung"]
    /\ UNCHANGED <<stage, cfgVars, mmVars, cpus, turn, online, redist, listInit, irqOn, task>>

BootStep ==
    \/ PageStep
    \/ /\ todo = <<>>
       /\ \/ InitHyperLowLevel \/ SwitchToEl2 \/ InitPlatform \/ CpuInit \/ InitMm \/ TestPageAlloc
          \/ EnableStage2 \/ EnableStage2Fatal \/ InitPercpuArea
          \/ InitInterrupt \/ InitGicv3 \/ ParseHostCpus \/ CpuOn \/ WaitOnline \/ UnmapFdt
          \/ InitSched \/ TimerInit \/ CreateTask \/ Insert

SecondaryStep(m) == SecondaryEntry(m) \/ SecondaryMmu(m) \/ PcpuInit(m) \/ EnableTick(m) \/ MarkOnline(m) \/ EarlyTick(m)

Ended == stage \in {"not_el2", "panic", "fatal", "guest", "deadlock"}

BootNext == BootStep \/ BootTick \/ \E m \in Secondary : SecondaryStep(m)

-----------------------------------------------------------------------------
Stages == {"reset", "el3", "not_el2", "load_dtb", "panic", "cpu_init", "mm", "mm_42", "fatal",
           "test_page_alloc", "test_page_alloc_42", "stage2", "stage2_42", "percpu", "interrupt", "gic", "cpus", "boot_cpu", "wait", "unmap_fdt", "init_sched", "timer_init", "create_task",
           "insert", "finished", "guest", "deadlock"}

BootTypeOK ==
    /\ stage \in Stages
    /\ mmuBoot \subseteq {"tcr", "vtcr", "vttbr"}
    /\ mem.used \subseteq Pool /\ window \subseteq Nat /\ mem.fatal \in BOOLEAN
    /\ Range(cpus) \subseteq Nat /\ turn \in 1..(Len(cpus) + 1) /\ online \subseteq DOMAIN cpus
    /\ sec \in [Secondary -> {"off", "entry", "start", "parked", "mmu", "gic", "tick", "online", "hung"}]
    /\ listInit \in BOOLEAN /\ irqOn \in BOOLEAN
    /\ \E m \in {0} \cup Secondary : lock \subseteq {m}
    /\ task \in {"none", "ready", "running"}

(* When load_dtb has found the platform and let the guest's tree pass, the  *)
(* configuration and that tree fit together.                                *)
GuestAgrees ==
    stage \notin {"reset", "el3", "not_el2", "load_dtb", "panic"} /\ PlatformNode(host) # 0 => Agrees(guest, cfg)

(* From the switch-on of the MMU to the guest, through every ioremap and    *)
(* iounmap of boot, what is mapped for keeps stays mapped where it was: the *)
(* image, the UART, the direct mapping, the SGI frames and, for the         *)
(* secondaries, the redistributors; no table leaks or is shared, and no     *)
(* page of the heap or the like is freed with one.                          *)
MapsKept ==
    stage \notin {"reset", "el3", "not_el2", "load_dtb", "panic", "cpu_init", "mm", "mm_42"}
        => MapSound(mem, kept, others, IF todo = <<>> THEN <<>> ELSE Head(todo).path)

(* A redistributor is set up only by the CPU it belongs to, whatever order  *)
(* the tree lists the CPUs in; and a CPU that has switched its MMU on did   *)
(* so after the boot CPU had saved the tables for it and, as long as its    *)
(* frame is inside the map, finds the frame there.                          *)
OwnRedist ==
    /\ \A r \in redist : RdistAff[r.frame + 1] = r.cpu
    /\ \A m \in Secondary : sec[m] = "mmu" =>
          /\ {"vtcr", "vttbr"} \subseteq mmuBoot
          /\ \A i \in CpuIndex(m) : FrameOffset(i) < cfg.gic.gicr[2] =>
                WalkPageTable(mem, cfg.gic.virt + FrameOffset(i)) = <<cfg.gic.gicr[1] + FrameOffset(i)>>
=============================================================================
