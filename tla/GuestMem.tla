------------------------------ MODULE GuestMem ------------------------------
(***************************************************************************)
(* Guest accesses to memory on aarch64: the hardware's walk of stage 2, the *)
(* abort handlers of aarch64_guest_fault_manager.c that map a page or       *)
(* emulate a device, and the emulated GICv3 behind them.  Each vCPU runs on *)
(* a pCPU of its own; a handler runs with interrupts masked, so it is not   *)
(* preempted, but the handlers of two vCPUs interleave.                     *)
(***************************************************************************)
EXTENDS Stage2, VGicDist, Sequences, FiniteSets

CONSTANTS
    RamPage, RamPages,  \* guest.memory
    UartPage, UartPages,    \* uart.guest_base and uart.guest_size
    DistRegs,           \* registers that vCPUs access in the distributor
    RdRegs, SgiRegs,    \* ... and in the two frames of their redistributor
    MaxAcc              \* bound on the accesses of all vCPUs

ASSUME GuestMemAssumption ==
    /\ Vcpu = 0..(VcpuCount - 1)
    /\ GicrPage + 2 * VcpuCount - 1 \in Ipa
    /\ RamPage \in Ipa /\ RamPages \in Nat /\ MaxAcc \in Nat
    /\ UartPage \in Ipa /\ UartPages \in Nat

VARIABLES
    st,             \* per vCPU: [pc, acc, val]
    vgic,           \* the register file
    own,            \* per vCPU: what it has enabled in its own frame
    left            \* accesses still to make, for the bound

gmVars == <<s2Vars, st, vgic, own, left>>

(* arch_vcpu_init: the regions, in the order they are searched              *)
Regions ==
    <<[name |-> "gic3", lo |-> GicdPage, n |-> GicrPage + 2 * GicrFrames - GicdPage,
       attr |-> "NONE", ops |-> TRUE],
      [name |-> "pl011", lo |-> UartPage, n |-> UartPages, attr |-> "NONE", ops |-> TRUE],
      [name |-> "ram", lo |-> RamPage, n |-> RamPages, attr |-> "RWX", ops |-> FALSE]>>

(* guest_mem_find_region: the first that holds the page, or none            *)
FindRegion(ipa) ==
    LET hit == {k \in DOMAIN Regions : Regions[k].lo <= ipa /\ ipa < Regions[k].lo + Regions[k].n}
    IN  IF hit = {} THEN {} ELSE {Regions[Min(hit)]}

(* What map_stage2_page enters; the regions are identity maps.              *)
EntryFor(ipa) == {MakeStage2Entry(ipa, r.attr) : r \in FindRegion(ipa)}

(* What vCPU v may try: its RAM, a hole, the UART, the distributor, its own *)
(* frames.                                                                  *)
Access(v) ==
    LET Acc(ipas, ops, regs) ==
            [ipa : ipas, op : ops \ {"read"}, reg : regs, word : Words, value : {Bits}]
            \cup [ipa : ipas, op : ops \cap {"read"}, reg : regs, word : Words, value : {{}}]
        rd == GicrPage + 2 * v
    IN  Acc({i \in Ipa : i >= RamPage}, {"write"}, {"none"})
        \cup Acc({UartPage}, {"read", "write"}, {"none"})
        \cup Acc({GicdPage}, {"fetch"}, {"none"})
        \cup Acc({GicdPage}, {"read", "write"}, DistRegs)
        \cup Acc({rd}, {"write"}, RdRegs)
        \cup Acc({rd + 1}, {"write"}, SgiRegs)
        \cup Acc({rd}, {"read"}, {"TYPER"})

NoAccess == [op |-> "none"]

GmInit ==
    /\ S2Init
    /\ st = [v \in Vcpu |-> [pc |-> "run", acc |-> NoAccess, val |-> {}]]
    /\ left = MaxAcc
    /\ vgic = GicRegisterEmul
    /\ own = [v \in Vcpu |-> {}]

Goto(v, pc) == st' = [st EXCEPT ![v].pc = pc]

(* The access is over; val is what the guest's register got.                *)
Done(v, val) == st' = [st EXCEPT ![v] = [pc |-> "run", acc |-> NoAccess, val |-> val]]

(* The guest makes an access.                                               *)
Issue(v) ==
    /\ st[v].pc = "run" /\ left > 0
    /\ left' = left - 1
    /\ \E a \in Access(v) :
          st' = [st EXCEPT ![v] = [pc |-> "walk", acc |-> a, val |-> {}]]
    /\ UNCHANGED <<s2Vars, vgic, own>>

(* The hardware walks stage 2 (external): RAM is reached, or an abort with  *)
(* a translation or an access flag fault is taken.                          *)
Translate(v) ==
    LET e == Walk(tbl, st[v].acc.ipa)
    IN  /\ st[v].pc = "walk"
        /\ \/ e.kind # "leaf" /\ Goto(v, "trans")
           \/ e.kind = "leaf" /\ ~e.af /\ Goto(v, "access")
           \/ e.kind = "leaf" /\ e.af /\ Done(v, {})
        /\ UNCHANGED <<s2Vars, vgic, own, left>>

(* handle_data_abort and handle_instruction_abort on a translation fault:   *)
(* map_stage2_page up to the lock.  A page of no region is a failure, and   *)
(* do_guest_exception panics.                                               *)
MapPage(v) ==
    /\ st[v].pc = "trans"
    /\ \/ /\ FindRegion(st[v].acc.ipa) = {}
          /\ Goto(v, "dead") /\ UNCHANGED s2Vars
       \/ /\ FindRegion(st[v].acc.ipa) # {}
          /\ S2Lock(v, st[v].acc.ipa)
          /\ Goto(v, "map")
    /\ UNCHANGED <<vgic, own, left>>

MapLevel(v) ==
    /\ st[v].pc = "map"
    /\ AllocTable(v) \/ LinkTable(v) \/ NextLevelMap(v)
    /\ UNCHANGED <<st, vgic, own, left>>

(* Faulty variant, for mutation runs: an entry that exists is fatal, as in  *)
(* __ptw_map_4k_page.                                                       *)
MapLeafFatal(v) ==
    /\ st[v].pc = "map"
    /\ \E e \in EntryFor(st[v].acc.ipa) : WriteLeaf(v, e)
    /\ Goto(v, IF Walk(tbl, st[v].acc.ipa).kind = "leaf" THEN "dead" ELSE "walk")
    /\ UNCHANGED <<vgic, own, left>>

(* Faulty variant, for mutation runs: an early return keeps the lock when   *)
(* the entry exists.                                                        *)
MapLeafKeepsLock(v) ==
    /\ st[v].pc = "map"
    /\ \E e \in EntryFor(st[v].acc.ipa) :
          IF Walk(tbl, st[v].acc.ipa) = e THEN UNCHANGED s2Vars ELSE WriteLeaf(v, e)
    /\ Goto(v, "walk")
    /\ UNCHANGED <<vgic, own, left>>

(* The leaf is written; the guest resumes and makes the access again.       *)
MapLeaf(v) ==
    /\ st[v].pc = "map"
    /\ \E e \in EntryFor(st[v].acc.ipa) : WriteLeaf(v, e)
    /\ Goto(v, "walk")
    /\ UNCHANGED <<vgic, own, left>>

(* An access flag fault: emulate_mmio_access for data, a failure for an     *)
(* instruction, a page without a device, or one without the operation.      *)
Emulated(a) == a.op # "fetch" /\ \E r \in FindRegion(a.ipa) : r.ops
AtGic(a) == Emulated(a) /\ \E r \in FindRegion(a.ipa) : r.name = "gic3"

EmulateFails(v) ==
    /\ st[v].pc = "access" /\ ~Emulated(st[v].acc)
    /\ Goto(v, "dead")
    /\ UNCHANGED <<s2Vars, vgic, own, left>>

(* The UART's registers are module Uart's; here the access only ends.       *)
EmulateUart(v) ==
    /\ st[v].pc = "access" /\ Emulated(st[v].acc) /\ ~AtGic(st[v].acc)
    /\ Done(v, {})
    /\ UNCHANGED <<s2Vars, vgic, own, left>>

EmulateRead(v) ==
    /\ st[v].pc = "access" /\ AtGic(st[v].acc) /\ st[v].acc.op = "read"
    /\ Done(v, Gic3Read(vgic, st[v].acc))
    /\ UNCHANGED <<s2Vars, vgic, own, left>>

(* A write: the old content is loaded, and what it makes of it is stored    *)
(* later; the register file has no lock.                                    *)
EmulateLoad(v) ==
    /\ st[v].pc = "access" /\ AtGic(st[v].acc) /\ st[v].acc.op = "write"
    /\ st' = [st EXCEPT ![v] = [pc |-> "store", acc |-> @.acc, val |-> Get(vgic, Cell(@.acc))]]
    /\ UNCHANGED <<s2Vars, vgic, own, left>>

Wanted(a, old) ==
    CASE IsRedist(a.ipa) /\ IsSgiFrame(a.ipa) /\ a.reg = "ISENABLER" -> old \cup a.value
      [] IsRedist(a.ipa) /\ IsSgiFrame(a.ipa) /\ a.reg = "ICENABLER" -> old \ a.value
      [] OTHER -> old

EmulateStore(v) ==
    LET a == st[v].acc
    IN  /\ st[v].pc = "store"
        /\ vgic' = Put(vgic, Cell(a), Merge(a, st[v].val, a.value))
        /\ own' = [own EXCEPT ![v] = Wanted(a, @)]
        /\ Done(v, {})
        /\ UNCHANGED <<s2Vars, left>>

Step(v) ==
    \/ Translate(v) \/ MapPage(v) \/ MapLevel(v) \/ MapLeaf(v)
    \/ EmulateFails(v) \/ EmulateUart(v) \/ EmulateRead(v) \/ EmulateLoad(v) \/ EmulateStore(v)

GmNext == \E v \in Vcpu : Issue(v) \/ Step(v)

(* A pCPU runs on and a handler does not wait, but for the lock, which      *)
(* every holder gives back.  The guest need not make another access.        *)
GmSpec == GmInit /\ [][GmNext]_gmVars /\ \A v \in Vcpu : WF_gmVars(Step(v))

-----------------------------------------------------------------------------
(* One type invariant for the handlers and the register file.               *)
GmTypeOK ==
    /\ used \subseteq 0..(NPages - 1)
    /\ s2lock \in Vcpu \cup {None}
    /\ \A v \in Vcpu :
          /\ st[v].pc \in {"run", "walk", "trans", "map", "access", "store", "dead"}
          /\ walk[v].level \in 1..Levels /\ walk[v].page \in used
          /\ st[v].pc = "map" => walk[v].ipa = st[v].acc.ipa

(* A vCPU brings the hypervisor down only by touching what is not its own:  *)
(* a page outside its regions, or an instruction fetch from a device.  Two  *)
(* vCPUs that fault on one page at once are no reason.                      *)
OnlyWildPanics ==
    \A v \in Vcpu : st[v].pc = "dead" =>
        \/ FindRegion(st[v].acc.ipa) = {}
        \/ st[v].acc.op = "fetch" /\ \E r \in FindRegion(st[v].acc.ipa) : r.attr = "NONE"

(* What a vCPU enables in its own redistributor is what is there, whatever  *)
(* the others write without a lock.                                         *)
OwnFrameKept ==
    \A v \in Vcpu : st[v].pc # "store" => vgic.redist[v].enable = own[v]

(* Every access ends: it reaches memory or the device, or the vCPU is dead. *)
AccessEnds == \A v \in Vcpu : st[v].pc = "walk" ~> st[v].pc \in {"run", "dead"}

IdentityOf(ipa) == {MakeStage2Entry(ipa, "RWX")}

View == INSTANCE GuestView WITH
            Boot <- BootMap,
            Translation <- EntryFor,
            Identity <- IdentityOf,
            view <- [i \in Ipa |-> {Walk(tbl, i)} \ {Invalid}]

(* The tables implement the guest's view: whatever the vCPUs fault on at    *)
(* the same time, pages appear one at a time, where their region leads and  *)
(* trapping when it is a device's, and none is ever lost.                   *)
ViewGrows == View!ViewSpec
=============================================================================
