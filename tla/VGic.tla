------------------------------- MODULE VGic --------------------------------
(***************************************************************************)
(* The virtual GIC CPU interface of src/core/emul_gic.c: a task's queue of  *)
(* pending vIRQs (pending_virq, pending_virq_count) and the list registers  *)
(* ICH_LR<n>_EL2 it is flushed into.  Pure operators; each one is what the  *)
(* C function does while it holds the task's virq_lock.                     *)
(***************************************************************************)
EXTENDS Integers, Sequences, FiniteSets, SequencesExt

CONSTANTS
    Virq,      \* the vINTIDs in use
    NLr,       \* list registers the CPU interface implements
    QMax       \* VCPU_MAX_PENDING_VIRQ

ASSUME LrAssumption == NLr \in Nat \ {0}
ASSUME QMaxAssumption == QMax \in Nat \ {0}

(* A list register: invalid, or a vINTID that is pending or active.         *)
LrStates == {"invalid", "pending", "active"}
Lrs == [1..NLr -> [state : LrStates, vintid : Virq]]

(* A list register without ICH_LR_PEND and ICH_LR_ACT can be taken.         *)
LrFree(lr, i) == lr[i].state = "invalid"
FreeLrs(lr) == {i \in 1..NLr : LrFree(lr, i)}

(* All list registers written with 0.                                       *)
ZeroLrs == [i \in 1..NLr |-> [state |-> "invalid", vintid |-> CHOOSE v \in Virq : TRUE]]

PendingLr(v) == [state |-> "pending", vintid |-> v]

(* The vINTIDs a set of list registers holds in some state.                 *)
LrVirqs(lr, states) == {lr[i].vintid : i \in {j \in 1..NLr : lr[j].state \in states}}

(* Faulty variants of the next two operators, for mutation runs: a queue    *)
(* that is full one entry early; a flush that forgets the entry after the   *)
(* last one it moved.                                                       *)
InjectVirqFullEarly(q, v) ==
    IF Len(q) >= QMax - 1 \/ Contains(q, v) THEN q ELSE Append(q, v)
FlushQueueSkip(q, lr) == SubSeq(q, Cardinality(FreeLrs(lr)) + 2, Len(q))

(* gic_vcpu_inject_virq: dropped when the queue is full, ignored when the   *)
(* vINTID is queued already, appended otherwise.  The full test comes first *)
(* in the code; for a queued vINTID both leave the queue alone.             *)
InjectVirq(q, v) ==
    IF Len(q) >= QMax \/ Contains(q, v) THEN q ELSE Append(q, v)

(* gic_vcpu_flush_lr: each queued vINTID, oldest first, goes to the lowest  *)
(* free list register; the rest stays queued in order.  Register i, if free,*)
(* is the Rank-th free one and so receives the Rank-th queued vINTID.       *)
Rank(lr, i) == Cardinality({j \in FreeLrs(lr) : j <= i})

FlushLrs(q, lr) ==
    [i \in 1..NLr |->
        IF LrFree(lr, i) /\ Rank(lr, i) <= Len(q) THEN PendingLr(q[Rank(lr, i)])
        ELSE lr[i]]

FlushQueue(q, lr) == SubSeq(q, Cardinality(FreeLrs(lr)) + 1, Len(q))
=============================================================================
