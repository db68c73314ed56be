------------------------------- MODULE VPlic -------------------------------
(***************************************************************************)
(* The virtual PLIC of src/arch/riscv64/plic.c (g_vplic): priorities, one   *)
(* pending set, and for every context, which is a vcpu_id, its enabled      *)
(* sources and its threshold.  Each operator is what a function does while  *)
(* it holds g_vplic_lock.  A register is named, not an offset; offsets that *)
(* name no register read as zero and ignore writes.                         *)
(***************************************************************************)
EXTENDS Integers, FiniteSets

CONSTANTS
    Irq,            \* sources, numbered from 1 (PLIC_MAX_IRQ)
    Ctx,            \* contexts (VPLIC_CONTEXTS)
    MaxPriority     \* PLIC_MAX_PRIORITY, a mask

ASSUME VPlicAssumption ==
    /\ Irq \subseteq Nat \ {0}
    /\ Ctx \subseteq Nat /\ IsFiniteSet(Ctx)
    /\ MaxPriority \in Nat

(* plic_register_emul                                                       *)
PlicRegisterEmul ==
    [priority  |-> [i \in Irq |-> 1], pending |-> {},
     enable    |-> [c \in Ctx |-> {}], threshold |-> [c \in Ctx |-> 0]]

(* vplic_irq_deliverable_locked                                             *)
Deliverable(pl, c, i) ==
    /\ i \in pl.pending
    /\ i \in pl.enable[c]
    /\ pl.priority[i] > pl.threshold[c]

(* vplic_context_has_deliverable_locked; no such context has none.          *)
HasDeliverable(pl, c) == c \in Ctx /\ \E i \in Irq : Deliverable(pl, c, i)

(* riscv_vplic_raise and riscv_vplic_clear, up to the unlock                *)
Raise(pl, i) == IF i \in Irq THEN [pl EXCEPT !.pending = @ \cup {i}] ELSE pl
Lower(pl, i) == IF i \in Irq THEN [pl EXCEPT !.pending = @ \ {i}] ELSE pl

(* vplic_claim_locked: of the deliverable sources the one of the highest    *)
(* priority, the lowest number among equals, and 0 when there is none.      *)
Best(pl, c) ==
    LET ready == {i \in Irq : Deliverable(pl, c, i)}
    IN  IF ready = {} THEN 0
        ELSE CHOOSE i \in ready :
                \A j \in ready : \/ pl.priority[j] < pl.priority[i]
                                 \/ (pl.priority[j] = pl.priority[i] /\ i <= j)

Claim(pl, c) == Lower(pl, Best(pl, c))

(* vplic_read: of the registers only the claim changes the state.           *)
PlicRead(pl, a) ==
    IF a.reg = "claim" /\ a.ctx \in Ctx THEN Claim(pl, a.ctx) ELSE pl

(* vplic_write: pending is read-only, completion does nothing.              *)
PlicWrite(pl, a) ==
    CASE a.reg = "priority" /\ a.irq \in Irq ->
            [pl EXCEPT !.priority[a.irq] = a.val % (MaxPriority + 1)]
      [] a.reg = "enable" /\ a.ctx \in Ctx -> [pl EXCEPT !.enable[a.ctx] = a.val]
      [] a.reg = "threshold" /\ a.ctx \in Ctx -> [pl EXCEPT !.threshold[a.ctx] = a.val]
      [] OTHER -> pl
=============================================================================
