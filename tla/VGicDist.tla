------------------------------ MODULE VGicDist ------------------------------
(***************************************************************************)
(* The emulated GICv3 distributor and redistributors (src/core/             *)
(* emul_gicv3.c): one register file, vgic, for all vCPUs and without a      *)
(* lock.  A register is a set of bits, an address is the page, the register *)
(* and the word in it; accesses have the width of the register.  Operators  *)
(* here say which cell an access reaches and what it makes of the value;    *)
(* GuestMem performs them, load and store apart.                            *)
(***************************************************************************)
EXTENDS Integers

CONSTANTS
    MaxVcpus,       \* HYPER_MAX_VCPUS
    VcpuCount,      \* guest.vcpu_count
    GicdPage,       \* page of vgic.gicd_base
    GicrPage,       \* page of vgic.gicr_base; a frame has two pages
    GicrFrames,     \* frames in vgic.gicr_size
    Words,          \* words of a distributor register
    Bits            \* bits of a word that are told apart

ASSUME VGicDistAssumption ==
    /\ MaxVcpus \in Nat \ {0} /\ VcpuCount \in 1..MaxVcpus
    /\ GicdPage \in Nat /\ GicrPage \in Nat /\ GicdPage < GicrPage /\ GicrFrames \in Nat

(* gicd_table, and gicr_table for a redistributor's SGI frame               *)
Window ==
    [IGROUPR    |-> [field |-> "group",    mode |-> "raw"],
     ISENABLER  |-> [field |-> "enable",   mode |-> "w1s"],
     ICENABLER  |-> [field |-> "enable",   mode |-> "w1c"],
     ISPENDR    |-> [field |-> "pending",  mode |-> "w1s"],
     ICPENDR    |-> [field |-> "pending",  mode |-> "w1c"],
     ISACTIVER  |-> [field |-> "active",   mode |-> "w1s"],
     ICACTIVER  |-> [field |-> "active",   mode |-> "w1c"],
     IPRIORITYR |-> [field |-> "priority", mode |-> "raw"],
     ICFGR      |-> [field |-> "config",   mode |-> "raw"],
     IROUTER    |-> [field |-> "router",   mode |-> "raw"]]

GicrWindow == [r \in DOMAIN Window \ {"IROUTER"} |-> Window[r]]

Field == {Window[r].field : r \in DOMAIN Window}
Frame == 0..(MaxVcpus - 1)

(* gic_register_emul: zero, and every priority 0xa0.                        *)
Fresh(field) == IF field = "priority" THEN Bits ELSE {}
GicRegisterEmul ==
    [ctlr   |-> {},
     dist   |-> [f \in Field |-> [w \in Words |-> Fresh(f)]],
     rctlr  |-> [n \in Frame |-> {}],
     rwaker |-> [n \in Frame |-> {}],
     redist |-> [n \in Frame |-> [f \in Field |-> Fresh(f)]]]

(* Faulty variant, for mutation runs: every frame is the first.             *)
FrameIndexFirst(page) == 0

(* frame_index and frame_offset                                             *)
FrameIndex(page) == (page - GicrPage) \div 2
IsSgiFrame(page) == (page - GicrPage) % 2 = 1

(* gic3_read and gic3_write: the redistributors' range first, then the rest *)
(* of the region goes to the distributor.                                   *)
IsRedist(page) == GicrPage <= page /\ page < GicrPage + 2 * GicrFrames

(* The cell an access reaches, in dist_read/write, redist_read/write and    *)
(* redist_sgi_read/write; an unknown register, or a frame that is not there,*)
(* reads as zero and swallows writes.                                       *)
DistCell(a) ==
    CASE a.reg = "CTLR" -> [at |-> "ctlr"]
      [] a.reg \in DOMAIN Window -> [at |-> "dist", field |-> Window[a.reg].field, word |-> a.word]
      [] OTHER -> [at |-> "none"]

RedistSgiCell(frame, a) ==
    IF a.reg \in DOMAIN GicrWindow
    THEN [at |-> "redist", frame |-> frame, field |-> GicrWindow[a.reg].field]
    ELSE [at |-> "none"]

RedistCell(frame, a) ==
    CASE a.reg = "CTLR"  -> [at |-> "rctlr", frame |-> frame]
      [] a.reg = "WAKER" -> [at |-> "rwaker", frame |-> frame]
      [] OTHER -> [at |-> "none"]

Cell(a) ==
    LET frame == FrameIndex(a.ipa)
    IN  CASE ~IsRedist(a.ipa) -> DistCell(a)
          [] IsRedist(a.ipa) /\ frame >= MaxVcpus -> [at |-> "none"]
          [] IsRedist(a.ipa) /\ frame < MaxVcpus /\ IsSgiFrame(a.ipa) -> RedistSgiCell(frame, a)
          [] OTHER -> RedistCell(frame, a)

Get(g, c) ==
    CASE c.at = "ctlr"   -> g.ctlr
      [] c.at = "dist"   -> g.dist[c.field][c.word]
      [] c.at = "redist" -> g.redist[c.frame][c.field]
      [] c.at = "rctlr"  -> g.rctlr[c.frame]
      [] c.at = "rwaker" -> g.rwaker[c.frame]
      [] c.at = "none"   -> {}

Put(g, c, bits) ==
    CASE c.at = "ctlr"   -> [g EXCEPT !.ctlr = bits]
      [] c.at = "dist"   -> [g EXCEPT !.dist[c.field][c.word] = bits]
      [] c.at = "redist" -> [g EXCEPT !.redist[c.frame][c.field] = bits]
      [] c.at = "rctlr"  -> [g EXCEPT !.rctlr[c.frame] = bits]
      [] c.at = "rwaker" -> [g EXCEPT !.rwaker[c.frame] = bits]
      [] c.at = "none"   -> g

(* gicr_typer: the frame's number, and LAST on that of the last vCPU        *)
GicrTyper(frame) == {<<"proc", frame>>} \cup (IF frame = VcpuCount - 1 THEN {<<"last", frame>>} ELSE {})

Identification == {"TYPER", "IIDR", "PIDR2"}

(* dist_read                                                                *)
DistRead(g, a) == IF a.reg \in Identification THEN {<<a.reg, 0>>} ELSE Get(g, DistCell(a))

(* redist_read: GICR_WAKER hides ChildrenAsleep (bit 2).  The registers of  *)
(* identification are those of the first frame only; the SGI frame has none.*)
RedistRead(g, a) ==
    LET rd == ~IsSgiFrame(a.ipa)
    IN  CASE rd /\ a.reg = "TYPER" -> GicrTyper(FrameIndex(a.ipa))
          [] rd /\ a.reg \in {"IIDR", "PIDR2"} -> {<<a.reg, 0>>}
          [] Cell(a).at = "rwaker" -> Get(g, Cell(a)) \ {2}
          [] OTHER -> Get(g, Cell(a))

(* gic3_read                                                                *)
Gic3Read(g, a) ==
    IF ~IsRedist(a.ipa) THEN DistRead(g, a)
    ELSE IF FrameIndex(a.ipa) < MaxVcpus THEN RedistRead(g, a) ELSE {}

(* gic3_write: what a write of value makes of the old content               *)
Merge(a, old, value) ==
    LET mode == IF a.reg \in DOMAIN Window THEN Window[a.reg].mode ELSE "raw"
    IN  CASE Cell(a).at = "rwaker" -> value \cap {1}
          [] mode = "raw" /\ Cell(a).at # "rwaker" -> value
          [] mode = "w1s" -> old \cup value
          [] mode = "w1c" -> old \ value
=============================================================================
