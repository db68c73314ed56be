------------------------------ MODULE BootCfg -------------------------------
(***************************************************************************)
(* What aarch64 boot makes of the two device trees (src/arch/aarch64/       *)
(* init.c, fdt_helper.c): load_dtb fills g_hyper_config from the host's     *)
(* tree, over defaults, and validate_guest_dtb_config holds the guest's     *)
(* tree against it.  A tree is the sequence of its nodes in the order       *)
(* libfdt visits them, each with the number of its parent, its name, the    *)
(* strings it is compatible with and its properties, as sequences of cells. *)
(* 0 stands for "no such node", <<>> for a read that failed.                *)
(***************************************************************************)
EXTENDS Integers, SequencesExt, FiniteSetsExt

CONSTANTS
    Cell,           \* 2^32: the values of a cell
    AffSpan,        \* MPIDR bits that 0xff00ffffff masks off are above this
    MaxVcpus,       \* HYPER_MAX_VCPUS
    Defaults        \* hyper_config_set_defaults

ASSUME BootCfgAssumption == {Cell, AffSpan, MaxVcpus} \subseteq Nat \ {0}

(* g_hyper_config: a pair is a base and a size.                             *)
Frame == Nat \X Nat
GicConfig == [gicd : Frame, gicr : Frame, stride : Nat, count : Nat, virt : Nat]
HyperConfig ==
    [memory : Frame, gic : GicConfig, hostUart : Frame, hostIrq : Nat, uart : Frame, irq : Nat, hypPpi : Nat,
     virtPpi : Nat, entry : Nat, dtb : Nat, ram : Frame, count : Nat, mpidr : [1..MaxVcpus -> Nat],
     gicd : Frame, gicr : Frame, stride : Nat]

ASSUME DefaultsAssumption == Defaults \in HyperConfig

(* A tree as libfdt walks it: a node comes behind its parent, and what is   *)
(* no string is cells.                                                      *)
StringProps == {"device_type", "device_memory", "enable-method"}
IsTree(fdt) ==
    /\ Len(fdt) \in Nat /\ DOMAIN fdt = 1..Len(fdt)
    /\ \A n \in DOMAIN fdt :
          /\ fdt[n].parent \in 0..(n - 1)
          /\ \A p \in DOMAIN fdt[n].prop \ StringProps : fdt[n].prop[p] \in Seq(0..(Cell - 1))

(* fdt_getprop, of libfdt                                                   *)
Prop(fdt, n, p) == IF n # 0 /\ p \in DOMAIN fdt[n].prop THEN fdt[n].prop[p] ELSE <<>>

(* fdt_node_offset_by_compatible, fdt_node_offset_by_prop_value: the first  *)
(* such node behind `from`, in its subtree or not.                          *)
Behind(fdt, from, Test(_)) ==
    LET found == {n \in (from + 1)..Len(fdt) : Test(n)}
    IN  IF found = {} THEN 0 ELSE Min(found)
ByCompatible(fdt, from, c) == Behind(fdt, from, LAMBDA n : c \in fdt[n].compat)
ByProp(fdt, from, p, v) == Behind(fdt, from, LAMBDA n : Prop(fdt, n, p) = v)
Children(fdt, parent) == {n \in DOMAIN fdt : fdt[n].parent = parent}

(* fdt_direct_child_by_compatible                                           *)
DirectChildByCompatible(fdt, parent, c) ==
    LET found == {n \in Children(fdt, parent) : c \in fdt[n].compat}
    IN  IF found = {} THEN 0 ELSE Min(found)

(* fdt_read_cells, into 64 bits                                             *)
ReadCells(cells) ==
    LET read[n \in 0..Len(cells)] == IF n = 0 THEN 0 ELSE (read[n - 1] * Cell + cells[n]) % (Cell * Cell)
    IN  read[Len(cells)]

Or(read, default) == IF read = <<>> THEN default ELSE read[1]

(* fdt_get_inherited_cell_count: the nearest of the node and its parents    *)
(* that has the property, else 2.                                           *)
InheritedCellCount(fdt, node, p) ==
    LET up[n \in 0..Len(fdt)] ==
            IF n = 0 THEN 2
            ELSE IF Prop(fdt, n, p) # <<>> THEN Prop(fdt, n, p)[1] ELSE up[fdt[n].parent]
    IN  up[node]

(* The index-th pair of a reg, with the given numbers of cells: what        *)
(* fdt_get_reg_entry and fdt_get_reg_info have in common.                   *)
RegPair(reg, index, na, ns) ==
    LET off == index * (na + ns)
    IN  IF reg = <<>> \/ Len(reg) < off + na + ns THEN <<>>
        ELSE <<<<ReadCells(SubSeq(reg, off + 1, off + na)),
                 ReadCells(SubSeq(reg, off + na + 1, off + na + ns))>>>>

(* fdt_get_reg_entry: the cell counts are those of the parent.              *)
RegEntry(fdt, n, index) ==
    IF n = 0 THEN <<>>
    ELSE RegPair(Prop(fdt, n, "reg"), index,
                 InheritedCellCount(fdt, fdt[n].parent, "#address-cells"),
                 InheritedCellCount(fdt, fdt[n].parent, "#size-cells"))

(* get_tree_prop and fdt_get_cur_as: unlike the above they begin with the   *)
(* node itself.                                                             *)
CurAs(fdt, n, p) == InheritedCellCount(fdt, n, p)

(* fdt_get_reg_info: two cells are read as 64 bits, any other number as     *)
(* the first cell alone; so with no size cells the size is whatever follows *)
(* the property, which is left unspecified.                                 *)
RegInfo(fdt, n) ==
    LET na     == CurAs(fdt, n, "#address-cells")
        ns     == CurAs(fdt, n, "#size-cells")
        reg    == Prop(fdt, n, "reg")
        Ld(at, cells) == ReadCells(SubSeq(reg, at, at + (IF cells = 2 THEN 1 ELSE 0)))
    IN  IF reg = <<>> \/ Len(reg) < na + ns THEN <<>> ELSE <<<<Ld(1, na), Ld(na + 1, ns)>>>>

(* fdt_read_u32_prop, fdt_read_u64_prop                                     *)
ReadU32(fdt, n, p) == IF Prop(fdt, n, p) = <<>> THEN <<>> ELSE <<Prop(fdt, n, p)[1]>>
ReadU64(fdt, n, p) ==
    LET v == Prop(fdt, n, p)
    IN  IF v = <<>> THEN <<>> ELSE <<ReadCells(SubSeq(v, 1, IF Len(v) >= 2 THEN 2 ELSE 1))>>

(* fdt_read_gic_interrupt: type 0 is an SPI, 1 a PPI, anything else fails.  *)
GicInterrupt(fdt, n) ==
    LET v == Prop(fdt, n, "interrupts")
    IN  CASE Len(v) < 3 -> <<>>
          [] Len(v) >= 3 /\ v[1] = 0 -> <<32 + v[2]>>
          [] Len(v) >= 3 /\ v[1] = 1 -> <<16 + v[2]>>
          [] OTHER -> <<>>

-----------------------------------------------------------------------------
ParseHostGic(fdt, root, cfg) ==
    LET n      == ByCompatible(fdt, root, "arm,gic-v3")
        gicr   == Or(RegEntry(fdt, n, 1), cfg.gic.gicr)
        stride == Or(ReadU64(fdt, n, "redistributor-stride"), cfg.gic.stride)
    IN  IF n = 0 THEN cfg
        ELSE [cfg EXCEPT !.gic.gicd = Or(RegEntry(fdt, n, 0), @), !.gic.gicr = gicr, !.gic.stride = stride,
                         !.gic.count = IF stride # 0 THEN gicr[2] \div stride ELSE @]

ParseHostUart(fdt, root, cfg) ==
    LET n == DirectChildByCompatible(fdt, root, "arm,pl011")
    IN  [cfg EXCEPT !.hostUart = Or(RegEntry(fdt, n, 0), @), !.hostIrq = Or(GicInterrupt(fdt, n), @)]

ParseGuestUart(fdt, guest, cfg) ==
    LET n == DirectChildByCompatible(fdt, guest, "arm,pl011")
    IN  [cfg EXCEPT !.uart = Or(RegEntry(fdt, n, 0), @), !.irq = Or(GicInterrupt(fdt, n), @)]

(* parse_timer_cfg: the guest's node has the last word.                     *)
ParseTimer(fdt, root, guest, cfg) ==
    LET Ppi(p, old) == Or(ReadU32(fdt, guest, p), Or(ReadU32(fdt, root, p), old))
    IN  [cfg EXCEPT !.hypPpi = Ppi("hyp-timer-ppi", @), !.virtPpi = Ppi("guest-virt-timer-ppi", @)]

(* parse_guest_vcpus: vcpu-count numbers the vCPUs from 0, and vcpu-mpidrs, *)
(* two cells each, overrules both the count and the numbers.                *)
ParseGuestVcpus(fdt, guest, cfg) ==
    LET given == ReadU32(fdt, guest, "vcpu-count")
        ids   == Prop(fdt, guest, "vcpu-mpidrs")
        n     == Min({Len(ids) \div 2, MaxVcpus})
        c     == IF given = <<>> THEN cfg
                 ELSE [cfg EXCEPT !.count = Min({given[1], MaxVcpus}),
                                  !.mpidr = [i \in DOMAIN @ |-> IF i <= given[1] THEN i - 1 ELSE @[i]]]
    IN  IF ids = <<>> THEN c
        ELSE [c EXCEPT !.count = n,
                       !.mpidr = [i \in DOMAIN @ |-> IF i <= n THEN ReadCells(<<ids[2 * i - 1], ids[2 * i]>>)
                                                     ELSE @[i]]]

ParseGuestVgic(fdt, guest, cfg) ==
    LET n == ByCompatible(fdt, guest, "hypervisor,vgic-v3")
    IN  [cfg EXCEPT !.gicd = Or(RegEntry(fdt, n, 0), @), !.gicr = Or(RegEntry(fdt, n, 1), @),
                    !.stride = Or(ReadU64(fdt, n, "redistributor-stride"), @)]

(* find_guest_memory_node                                                   *)
GuestMemoryNode(fdt, guest) ==
    LET n == ByProp(fdt, guest, "device_type", <<"memory">>)
    IN  IF n # 0 THEN n ELSE ByProp(fdt, guest, "device_memory", <<"memory">>)

(* parse_guest_cfg: its error codes are ignored, what was read so far stays.*)
ParseGuestCfg(fdt, guest, cfg) ==
    LET mem == GuestMemoryNode(fdt, guest)
        c   == [cfg EXCEPT !.entry = Or(ReadU64(fdt, guest, "guest-entry"), @),
                           !.dtb = Or(ReadU64(fdt, guest, "guest-dtb"), @)]
        d   == ParseGuestUart(fdt, guest, ParseGuestVgic(fdt, guest, ParseGuestVcpus(fdt, guest, c)))
    IN  IF guest = 0 THEN cfg
        ELSE IF mem = 0 THEN d ELSE [d EXCEPT !.ram = Or(RegInfo(fdt, mem), @)]

-----------------------------------------------------------------------------
Aff(mpidr) == mpidr % AffSpan

(* guest_dtb_mpidr_configured                                               *)
MpidrConfigured(cfg, mpidr) == \E i \in 1..cfg.count : Aff(cfg.mpidr[i]) = Aff(mpidr)

CpusNode(fdt) == LET found == {n \in Children(fdt, 1) : fdt[n].name = "cpus"}
                 IN  IF found = {} THEN 0 ELSE Min(found)

GuestCpus(g) == {n \in Children(g, CpusNode(g)) : Prop(g, n, "device_type") = <<"cpu">>}

(* Faulty variant, for mutation runs: the nodes are not counted.            *)
ValidateGuestDtbNoCount(g, cfg) ==
    /\ g # <<>> /\ CpusNode(g) # 0
    /\ \A n \in GuestCpus(g) : RegEntry(g, n, 0) # <<>> /\ MpidrConfigured(cfg, RegEntry(g, n, 0)[1][1])
    /\ LET gic  == ByCompatible(g, 0, "arm,gic-v3")
           uart == ByCompatible(g, 0, "arm,pl011")
       IN  /\ gic # 0 /\ uart # 0
           /\ RegEntry(g, gic, 0) = <<cfg.gicd>> /\ RegEntry(g, gic, 1) = <<cfg.gicr>>
           /\ RegEntry(g, uart, 0) = <<cfg.uart>> /\ GicInterrupt(g, uart) = <<cfg.irq>>

(* validate_guest_dtb_config; anything else panics.  uart.enabled is 1 from *)
(* the defaults on.                                                         *)
ValidateGuestDtb(g, cfg) ==
    /\ g # <<>> /\ CpusNode(g) # 0
    /\ \A n \in GuestCpus(g) : RegEntry(g, n, 0) # <<>> /\ MpidrConfigured(cfg, RegEntry(g, n, 0)[1][1])
    /\ Cardinality(GuestCpus(g)) = cfg.count
    /\ LET gic  == ByCompatible(g, 0, "arm,gic-v3")
           uart == ByCompatible(g, 0, "arm,pl011")
       IN  /\ gic # 0 /\ uart # 0
           /\ RegEntry(g, gic, 0) = <<cfg.gicd>> /\ RegEntry(g, gic, 1) = <<cfg.gicr>>
           /\ RegEntry(g, uart, 0) = <<cfg.uart>> /\ GicInterrupt(g, uart) = <<cfg.irq>>

PlatformNode(fdt) == ByCompatible(fdt, 0, "hypervisor,platform")

(* load_dtb with a platform node: the first memory node behind the root,    *)
(* which may be the guest's, or what was on the stack when it has no reg.   *)
LoadDtb(fdt, junk) ==
    LET root  == PlatformNode(fdt)
        guest == ByCompatible(fdt, root, "hypervisor,guest")
        mem   == ByProp(fdt, root, "device_type", <<"memory">>)
        c     == [Defaults EXCEPT !.memory = Or(RegInfo(fdt, mem), junk)]
    IN  ParseTimer(fdt, root, guest,
            ParseGuestCfg(fdt, guest, ParseHostUart(fdt, root, ParseHostGic(fdt, root, c))))

(* arch_vcpu_init: what a vCPU's accesses are resolved against, in order.   *)
Regions(cfg) ==
    <<[dev |-> "gic3", from |-> cfg.gicd[1], to |-> cfg.gicr[1] + cfg.gicr[2]],
      [dev |-> "pl011", from |-> cfg.uart[1], to |-> cfg.uart[1] + cfg.uart[2]],
      [dev |-> "ram", from |-> cfg.ram[1], to |-> cfg.ram[1] + cfg.ram[2]]>>

(* guest_mem_find_region                                                    *)
DeviceAt(cfg, a) ==
    LET found == {i \in 1..3 : Regions(cfg)[i].from <= a /\ a < Regions(cfg)[i].to}
    IN  IF found = {} THEN "none" ELSE Regions(cfg)[Min(found)].dev

-----------------------------------------------------------------------------
Span(frame) == frame[1]..(frame[1] + frame[2] - 1)

(* A guest tree that boot accepts can be lived with: its CPUs are the vCPUs *)
(* of the configuration, one each, and an access to its GIC or its UART is  *)
(* resolved to the device of that name.  Boot does not look at a tree that  *)
(* names one CPU twice, at vCPUs that are configured twice, or at a GIC     *)
(* whose redistributors begin or end before the distributor, or that has    *)
(* the UART inside.                                                         *)
Agrees(g, cfg) ==
    LET gic  == ByCompatible(g, 0, "arm,gic-v3")
        uart == ByCompatible(g, 0, "arm,pl011")
        cpu  == {Aff(RegEntry(g, n, 0)[1][1]) : n \in GuestCpus(g)}
        once == /\ Cardinality(cpu) = Cardinality(GuestCpus(g))
                /\ \A i, j \in 1..cfg.count : Aff(cfg.mpidr[i]) = Aff(cfg.mpidr[j]) => i = j
        end  == cfg.gicr[1] + cfg.gicr[2]
        apart == /\ cfg.gicd[1] <= cfg.gicr[1] /\ cfg.gicd[1] + cfg.gicd[2] <= end
                 /\ (cfg.gicd[1]..(end - 1)) \cap Span(cfg.uart) = {}
    IN  /\ once => cpu = {Aff(cfg.mpidr[i]) : i \in 1..cfg.count}
        /\ apart => /\ \A a \in Span(RegEntry(g, gic, 0)[1]) \cup Span(RegEntry(g, gic, 1)[1]) : DeviceAt(cfg, a) = "gic3"
                    /\ \A a \in Span(RegEntry(g, uart, 0)[1]) : DeviceAt(cfg, a) = "pl011"
=============================================================================
