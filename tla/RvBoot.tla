------------------------------- MODULE RvBoot -------------------------------
(***************************************************************************)
(* The boot of the RISC-V hypervisor (src/main.c, src/arch/riscv64/reset.c, *)
(* mm.c, smp.c, plic.c, timer.c, sched_riscv.c), from the firmware's tree   *)
(* to the guest, with the secondary harts it starts.  One action per        *)
(* function of init_hyper_low_level, a level of the page tables at a time,  *)
(* one per turn of the loop in smp_boot_secondaries.  The firmware decides  *)
(* which hart boots and whether a hart can be started.                      *)
(***************************************************************************)
EXTENDS RvConfig, RvMmu

CONSTANTS
    RvHostFdts,     \* the trees that the firmware may hand over
    Harts,          \* the harts of the machine, any of which may boot
    RvImage, RvUart, RvPlic,    \* base and size, in bytes, of what the host maps
    RvDirect,       \* PAGE_VIRT_OFFSET, PAGE_PHYS_OFFSET and size, in bytes
    RegionUart, RegionPlic,     \* base and size that a vCPU's regions give its devices
    RvHeapPages     \* pages that init_kmalloc takes

PagesOf(range) == {(range[1] + i) \div PageBytes : i \in 0..(range[2] - 1)}

(* The blocks of the direct mapping.                                        *)
DirectBlocks ==
    LET first == RvDirect[1] \div BlockBytes
    IN  first..(first + (RvDirect[3] + BlockBytes - 1) \div BlockBytes - 1)

ASSUME RvBootAssumption == Harts \subseteq Nat
ASSUME RvLayoutAssumption ==    \* of the addresses in mm.c and arch_page.h
    /\ RvHeapPages \in Nat /\ RvDirect \in Nat \X Nat \X Nat
    /\ RvDirect[1] % BlockBytes = 0 /\ RvDirect[2] % BlockBytes = 0
    /\ \A b \in DirectBlocks : b * Fan + Fan - 1 \in VaPages
    /\ \A range \in {RvImage, RvUart, RvPlic} :
          /\ range \in Nat \X Nat /\ range[1] % PageBytes = 0
          /\ \A p \in PagesOf(range) : p \in VaPages /\ p \div Fan \notin DirectBlocks

VARIABLES
    rstage,         \* where the boot hart is
    bootHart,       \* g_boot_hart_id
    fdt, gcfg, feat,    \* the host's tree, the guest's configuration, the features
    rmem, rtodo,    \* tables and page allocator; __pg_map calls to make
    heap,           \* pages of the heap
    dtb,            \* the guest's tree
    plicOn,         \* harts whose S context has the UART's interrupt enabled
    hart,           \* the loop variable of smp_boot_secondaries
    cpuCount, toHart,   \* g_cpu_count, g_cpu_to_hart
    hsm,            \* per hart: "stopped", "entry", "start", "online"
    scratch,        \* per hart: the CPU number in the scratch area it was given
    timerOn,        \* the boot hart's timer is armed
    schedLock,      \* the boot hart holds g_sched_lock
    nextVcpu,       \* the next guest hart to create
    created         \* guest harts in the ready list, with their pCPU

rvVars == <<rstage, bootHart, fdt, gcfg, feat, rmem, rtodo, heap, dtb, plicOn, hart, cpuCount, toHart, hsm, scratch,
            timerOn, schedLock, nextVcpu, created>>
inVars   == <<bootHart, fdt, gcfg, feat>>
mmuVars  == <<rmem, rtodo, heap>>
hartVars == <<hart, cpuCount, toHart, hsm, scratch>>
taskVars == <<timerOn, schedLock, nextVcpu, created>>

RvInit ==
    /\ rstage = "reset" /\ bootHart = -1
    /\ fdt = <<>> /\ gcfg = RvDefaults /\ feat = NoFeatures
    /\ rmem = NoMemory /\ rtodo = <<>> /\ heap = {} /\ dtb = <<>> /\ plicOn = {}
    /\ hart = 0 /\ cpuCount = 0 /\ toHart = [c \in 0..(RvCpuNum - 1) |-> 0]
    /\ hsm = [h \in Harts |-> "stopped"] /\ scratch = [h \in Harts |-> 0]
    /\ timerOn = FALSE /\ schedLock = FALSE /\ nextVcpu = 0 /\ created = {}

-----------------------------------------------------------------------------
(* _reset notes the hart; the traps are set up, the tree is read twice.     *)
Reset ==
    /\ rstage = "reset"
    /\ \E h \in Harts, t \in RvHostFdts :
          /\ bootHart' = h /\ fdt' = t
          /\ hsm' = [hsm EXCEPT ![h] = "online"]
          /\ feat' = RiscvFeatures(t)
          /\ gcfg' = GuestConfig(t)
    /\ rstage' = "init_mm"
    /\ UNCHANGED <<mmuVars, dtb, plicOn, hart, cpuCount, toHart, scratch, taskVars>>

(* init_mm up to enable_mmu: image, UART, PLIC and the direct mapping.      *)
RvInitMm ==
    /\ rstage = "init_mm"
    /\ rtodo' = PgMap(HostRoot, RvImage[1], RvImage[1], RvImage[2])
                  \o PgMap(HostRoot, RvUart[1], RvUart[1], RvUart[2])
                  \o PgMap(HostRoot, RvPlic[1], RvPlic[1], RvPlic[2])
                  \o PgMapHuge(HostRoot, RvDirect[1], RvDirect[2], RvDirect[3])
    /\ rstage' = "init_kmalloc"
    /\ UNCHANGED <<inVars, rmem, heap, dtb, plicOn, hartVars, taskVars>>

RvPageStep ==
    /\ rtodo # <<>>
    /\ LET did == PgMapLevel(rmem, Head(rtodo))
       IN  rmem' = did.mem /\ rtodo' = did.rest \o Tail(rtodo)
    /\ UNCHANGED <<rstage, inVars, heap, dtb, plicOn, hartVars, taskVars>>

(* init_kmalloc, and init_guest_memory, which maps the whole RAM at once    *)
InitGuestMemory ==
    /\ rstage = "init_kmalloc"
    /\ \E p \in {AllocPagesCnt(rmem.used, RvHeapPages)} :
          /\ heap' = p..(p + RvHeapPages - 1)
          /\ rmem' = [rmem EXCEPT !.used = @ \cup heap']
    /\ rtodo' = PgMap(Stage2Root, gcfg.ram[1], gcfg.ram[1], gcfg.ram[2])
    /\ rstage' = "guest_dtb"
    /\ UNCHANGED <<inVars, dtb, plicOn, hartVars, taskVars>>

GuestDtbInit ==
    /\ rstage = "guest_dtb"
    /\ dtb' = GuestDtb(gcfg, feat.timebase)
    /\ rstage' = "devices"
    /\ UNCHANGED <<inVars, mmuVars, plicOn, hartVars, taskVars>>

(* init_emul_dev, init_percpu_area, plic_init, which takes hart 0's context *)
(* whichever hart boots, plic_irq_enable, init_sbi and init_sched           *)
InitDevices ==
    /\ rstage = "devices"
    /\ plicOn' = {0}
    /\ rstage' = "smp"
    /\ UNCHANGED <<inVars, mmuVars, dtb, hartVars, taskVars>>

(* smp_boot_secondaries up to its loop                                      *)
SmpBegin ==
    /\ rstage = "smp"
    /\ cpuCount' = 1
    /\ toHart' = [toHart EXCEPT ![0] = bootHart]
    /\ scratch' = [scratch EXCEPT ![bootHart] = 0]
    /\ hart' = 0
    /\ rstage' = "start_hart"
    /\ UNCHANGED <<inVars, mmuVars, dtb, plicOn, hsm, taskVars>>

(* One turn of the loop, up to the answer of HSM_HART_START.  The firmware  *)
(* may refuse, and refuses a hart that does not exist; then the CPU number  *)
(* is for the next one.                                                     *)
StartHart ==
    /\ rstage = "start_hart"
    /\ \/ /\ hart >= RvCpuNum \/ (hart # bootHart /\ cpuCount >= RvCpuNum)
          /\ rstage' = "init_timer" /\ UNCHANGED <<hart, hsm, scratch>>
       \/ /\ hart < RvCpuNum /\ (hart = bootHart \/ cpuCount < RvCpuNum)
          /\ hart' = hart + 1 /\ UNCHANGED <<rstage, hsm, scratch>>
       \/ /\ hart < RvCpuNum /\ hart # bootHart /\ cpuCount < RvCpuNum /\ hart \in Harts
          /\ scratch' = [scratch EXCEPT ![hart] = cpuCount]
          /\ hsm' = [hsm EXCEPT ![hart] = "entry"]
          /\ rstage' = "count_hart" /\ UNCHANGED hart
    /\ UNCHANGED <<inVars, mmuVars, dtb, plicOn, cpuCount, toHart, taskVars>>

(* Faulty variant, for mutation runs: the hart is entered under its own     *)
(* number.                                                                  *)
CountHartByNumber ==
    /\ rstage = "count_hart"
    /\ toHart' = [toHart EXCEPT ![hart] = hart]
    /\ cpuCount' = cpuCount + 1
    /\ hart' = hart + 1
    /\ rstage' = "start_hart"
    /\ UNCHANGED <<inVars, mmuVars, dtb, plicOn, hsm, scratch, taskVars>>

(* The rest of the turn, with the hart already running.                     *)
CountHart ==
    /\ rstage = "count_hart"
    /\ toHart' = [toHart EXCEPT ![cpuCount] = hart]
    /\ cpuCount' = cpuCount + 1
    /\ hart' = hart + 1
    /\ rstage' = "start_hart"
    /\ UNCHANGED <<inVars, mmuVars, dtb, plicOn, hsm, scratch, taskVars>>

InitTimer ==
    /\ rstage = "init_timer"
    /\ timerOn' = TRUE
    /\ rstage' = "create"
    /\ UNCHANGED <<inVars, mmuVars, dtb, plicOn, hartVars, schedLock, nextVcpu, created>>

(* create_task and riscv_create_guest_vcpu up to the lock ...               *)
CreateVcpu ==
    /\ rstage = "create"
    /\ \/ /\ nextVcpu < gcfg.vcpus
          /\ schedLock' = TRUE /\ rstage' = "insert"
       \/ /\ nextVcpu >= gcfg.vcpus
          /\ rstage' = "scheduler" /\ UNCHANGED schedLock
    /\ UNCHANGED <<inVars, mmuVars, dtb, plicOn, hartVars, timerOn, nextVcpu, created>>

(* arch_vcpu_init: the regions that a vCPU's faults are looked up in, in    *)
(* the order of their list.                                                 *)
VcpuRegions(c) ==
    <<[at |-> c.ram, dev |-> "ram"], [at |-> RegionUart, dev |-> "ns16550a"], [at |-> RegionPlic, dev |-> "plic"]>>

(* ... and from it: the vCPU is pinned by its number.                       *)
InsertVcpu ==
    /\ rstage = "insert"
    /\ created' = created \cup {[id |-> nextVcpu, pcpu |-> nextVcpu % cpuCount, regions |-> VcpuRegions(gcfg)]}
    /\ nextVcpu' = nextVcpu + 1
    /\ schedLock' = FALSE
    /\ rstage' = "create"
    /\ UNCHANGED <<inVars, mmuVars, dtb, plicOn, hartVars, timerOn>>

(* A tick on the boot hart, which takes interrupts since setup_exception:   *)
(* sched_yield switches to a vCPU pinned here, and what boot had left to do *)
(* is never done; with the lock its own it spins for good.                  *)
RvTick ==
    /\ timerOn
    /\ \/ /\ schedLock
          /\ rstage' = "deadlock"
       \/ /\ ~schedLock /\ \E v \in created : v.pcpu = 0
          /\ rstage' = IF rstage = "scheduler" THEN "guest" ELSE "abandoned"
    /\ timerOn' = FALSE
    /\ UNCHANGED <<inVars, mmuVars, dtb, plicOn, hartVars, schedLock, nextVcpu, created>>

(* _start_secondary: the scratch area says which CPU, and so which stack    *)
StartSecondary(h) ==
    /\ hsm[h] = "entry"
    /\ hsm' = [hsm EXCEPT ![h] = "start"]
    /\ UNCHANGED <<rstage, inVars, mmuVars, dtb, plicOn, hart, cpuCount, toHart, scratch, taskVars>>

(* secondary_start, to its wfi.  Its ticks come to nothing until the boot   *)
(* vCPU has started.                                                        *)
SecondaryStart(h) ==
    /\ hsm[h] = "start"
    /\ hsm' = [hsm EXCEPT ![h] = "online"]
    /\ UNCHANGED <<rstage, inVars, mmuVars, dtb, plicOn, hart, cpuCount, toHart, scratch, taskVars>>

RvStep ==
    \/ RvPageStep
    \/ /\ rtodo = <<>>
       /\ \/ Reset \/ RvInitMm \/ InitGuestMemory \/ GuestDtbInit \/ InitDevices \/ SmpBegin \/ StartHart
          \/ CountHart \/ InitTimer \/ CreateVcpu \/ InsertVcpu

RvNext == RvStep \/ RvTick \/ \E h \in Harts : StartSecondary(h) \/ SecondaryStart(h)

RvEnded == rstage \in {"guest", "abandoned", "deadlock"}

-----------------------------------------------------------------------------
Mapped(root) == {p \in VaPages : PtwWalk(rmem, root, p) # <<>>}

(* When init_mm has mapped the guest's RAM and for good: every byte of it,  *)
(* if it begins on a page, is mapped to itself and nothing else is, so the  *)
(* emulated devices trap unless the RAM was put over them; the host's own   *)
(* maps are as they were laid; no table is shared, between the host and the *)
(* guest either, or lost; and no page of the heap is one.                   *)
RvGuestMapped ==
    rtodo = <<>> /\ rstage \notin {"reset", "init_mm", "init_kmalloc"} =>
        LET links  == PgLinks(rmem, HostRoot) \cup PgLinks(rmem, Stage2Root)
            tables == {rmem.tbl[e[1]][e[2]].base : e \in links}
        IN  /\ gcfg.ram[1] % PageBytes = 0 =>
                  /\ Mapped(Stage2Root) = PagesOf(gcfg.ram)
                  /\ \A p \in Mapped(Stage2Root) : PtwWalk(rmem, Stage2Root, p) = <<p>>
            /\ \A p \in PagesOf(RvImage) \cup PagesOf(RvUart) \cup PagesOf(RvPlic) :
                  PtwWalk(rmem, HostRoot, p) = <<p>>
            /\ \A i \in 0..(RvDirect[3] \div PageBytes - 1) :
                  PtwWalk(rmem, HostRoot, RvDirect[1] \div PageBytes + i) = <<RvDirect[2] \div PageBytes + i>>
            /\ Cardinality(tables) = Cardinality(links)
            /\ tables \cap Pool = rmem.used \ heap

(* Harts that run never share a pCPU number, so neither a scratch area nor  *)
(* a stack, whichever of them the firmware refused to start; when the loop  *)
(* is over, smp_hart_id is right about each, and every vCPU is pinned to a  *)
(* pCPU that has a hart.                                                    *)
RvHarts ==
    LET running == {h \in Harts : hsm[h] # "stopped"}
    IN  /\ \A h, g \in running : scratch[h] = scratch[g] => h = g
        /\ rstage \in {"init_timer", "create", "insert", "scheduler", "guest", "abandoned", "deadlock"} =>
              /\ cpuCount = Cardinality(running)
              /\ \A h \in running : scratch[h] < cpuCount /\ toHart[scratch[h]] = h
              /\ \A v \in created : toHart[v.pcpu] \in running

(* The tree that the guest is given, as a guest reads it, tells it of the   *)
(* machine that was set up: its RAM and its initrd; an interrupt line from  *)
(* the PLIC to every hart and no other; the host's timebase; devices whose  *)
(* registers, on every vCPU, lead to the device of that name, but where the *)
(* RAM was put over them; and, once boot is through, the harts that were    *)
(* created and no other.                                                    *)
RvDtbDescribes ==
    rstage \notin {"reset", "init_mm", "init_kmalloc", "guest_dtb"} =>
        LET tree   == Unflatten(dtb)
            memory == ByProp(tree, 1, "device_type", <<"memory">>)
            chosen == Min({n \in Children(tree, 1) : tree[n].name = "chosen"})
            plic   == ByCompatible(tree, 1, "sifive,plic-1.0.0")
            lines  == Prop(tree, plic, "interrupts-extended")
            intc   == {n \in DOMAIN tree : "riscv,cpu-intc" \in tree[n].compat}
            cpus   == GuestCpus(tree)
            In(a, range)  == range[1] <= a /\ a < range[1] + range[2]
            LeadTo(v, a)  == v.regions[Min({i \in DOMAIN v.regions : In(a, v.regions[i].at)})].dev
            Bytes(n)      == {RegEntry(tree, n, 0)[1][1] + i : i \in 0..(RegEntry(tree, n, 0)[1][2] - 1)}
        IN  /\ RegEntry(tree, memory, 0) = <<gcfg.ram>>
            /\ gcfg.initrd # <<0, 0>> => /\ ReadU64(tree, chosen, "linux,initrd-start") = <<gcfg.initrd[1]>>
                                         /\ ReadU64(tree, chosen, "linux,initrd-end") = <<gcfg.initrd[2]>>
            /\ \A v \in created :
                  /\ \A a \in Bytes(ByCompatible(tree, 1, "ns16550a")) : In(a, gcfg.ram) \/ LeadTo(v, a) = "ns16550a"
                  /\ \A a \in Bytes(plic) : In(a, gcfg.ram) \/ LeadTo(v, a) = "plic"
            /\ ReadU32(tree, CpusNode(tree), "timebase-frequency") = <<feat.timebase>>
            /\ \A c \in cpus : \E n \in intc : tree[n].parent = c
            /\ Cardinality({Prop(tree, n, "phandle") : n \in intc}) = Cardinality(cpus)
            /\ {Prop(tree, n, "phandle")[1] : n \in intc} = {lines[2 * i - 1] : i \in 1..(Len(lines) \div 2)}
            /\ rstage \in {"scheduler", "guest"} =>
                  {v.id : v \in created} = {RegEntry(tree, c, 0)[1][1] : c \in cpus}
=============================================================================
