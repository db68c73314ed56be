------------------------------ MODULE A64Core -------------------------------
(***************************************************************************)
(* The running aarch64 hypervisor: every pCPU takes interrupts and guest    *)
(* traps at EL2, with IRQs masked, and shares the ready list, g_running and *)
(* the tasks with the others.  A step is what a pCPU does between two       *)
(* points at which another pCPU can see or change shared state: one         *)
(* critical section, or one unlocked access that the code makes.            *)
(*                                                                         *)
(*   scheduler and context switch   src/core/sched.c, sched_simple.c        *)
(*   vIRQ queues, list registers    src/core/emul_gic.c                     *)
(*   IRQ entry                      src/arch/aarch64/traps.c                *)
(*   PSCI CPU_ON                    include/emul_psci.h                     *)
(*   reschedule IPI                 src/drivers/gic/gicv3.c                 *)
(*                                                                         *)
(* The behaviours start where boot ends: secondary pCPUs idle in wfi, pCPU0 *)
(* in the loop of __init_hyper_low_level, vCPU0's task on the ready list.   *)
(***************************************************************************)
EXTENDS Integers, Sequences, FiniteSets, SchedSimple, VGic

CONSTANTS
    NCpu,       \* pCPUs (secondary_entry admits 0 and 1)
    NVcpu,      \* guest.vcpu_count
    NTask,      \* tasks the heap has room for (bound)
    Prio,       \* priority of each task
    Sgi,        \* the SGI vINTIDs the guest sends to a target list
    SgiAll,     \* the SGI vINTIDs the guest sends to all but itself (IRM)
    TimerIrq,   \* guest_virt_timer_ppi
    UartEnabled,    \* uart.enabled
    UartIrq     \* uart.guest_irq

Cpu  == 0..(NCpu - 1)
Vcpu == 0..(NVcpu - 1)      \* vcpu_mpidr[i] = i, as in the default configuration
Task == 1..NTask

NoTask   == 0      \* a NULL hyper_task_t *
ListHead == 0      \* an iterator that stands on &g_ready_list
Wild     == -1     \* an iterator that followed the NULL of an extracted entry
Unbound  == -1     \* mpidr (uint64_t)-1 of create_task2; vmpidr not yet written
NoTarget == -1     \* no CPU_ON under way

ASSUME CpuAssumption   == NCpu \in Nat \ {0}
ASSUME VcpuAssumption  == NVcpu \in Nat \ {0}
ASSUME TaskAssumption  == NTask \in Nat \ {0}
ASSUME PrioAssumption  == Prio \in [Task -> Int]
ASSUME UartAssumption  == UartEnabled \in BOOLEAN
ASSUME VirqAssumption  == Sgi \cup SgiAll \cup {TimerIrq, UartIrq} \subseteq Virq

VARIABLES
    \* shared
    ready,      \* g_ready_list
    running,    \* g_running, and each pCPU's current_task
    ipi,        \* IPI_RESCHEDULE pending at a pCPU
    ntask,      \* tasks created so far: 1..ntask
    \* fields of a task and of its vcpu
    mpidr, affinity,
    vmpidr,     \* arch.vmpidr
    vq,         \* pending_virq[0..pending_virq_count)
    slr,        \* arch.vgic.lr
    vtm,        \* CNTV_CTL.IMASK of the vCPU's virtual timer
    \* pCPU registers
    lr,         \* ICH_LR<n>_EL2
    hw,         \* the task whose EL1 context the registers hold
    hwid,       \* VMPIDR_EL2
    \* control state and locals of the handler a pCPU is in
    pc,
    cur, nxt,   \* current and task of sched_yield
    tick,       \* the handler is the hypervisor timer's
    it,         \* iter / new_task of psci_vcpu_on, target of gic_vcpu_send_sgi
    arg,        \* target_mpidr of psci_vcpu_on, or the SGI of a broadcast
    \* history
    raised,     \* vIRQs that went into a queue and are not yet acknowledged
    vtlost      \* a full queue dropped the vIRQ of the vCPU's virtual timer

sched  == <<ready, running, ipi>>
tasks  == <<ntask, mpidr, affinity, vmpidr>>
virqs  == <<vq, raised>>
regs   == <<lr, hw, hwid>>
saved  == <<slr>>
timers == <<vtm, vtlost>>
locals == <<cur, nxt, tick, it, arg>>
vars   == <<ready, running, ipi, ntask, mpidr, affinity, vmpidr, vq, slr, vtm,
            lr, hw, hwid, pc, cur, nxt, tick, it, arg, raised, vtlost>>

Pcs == {"guest", "next", "publish", "requeue", "save", "restore", "uart",
        "exists", "create", "find", "bind_mpidr", "bind_any", "bind_cpu",
        "bind_vcpu", "irm", "hung"}

Init ==
    /\ ready = <<1>>
    /\ running = [c \in Cpu |-> NoTask]
    /\ ipi = [c \in Cpu |-> FALSE]
    /\ ntask = 1
    /\ mpidr = [t \in Task |-> IF t = 1 THEN 0 ELSE Unbound]
    /\ affinity = [t \in Task |-> 0]
    /\ vmpidr = [t \in Task |-> IF t = 1 THEN 0 ELSE Unbound]
    /\ vq = [t \in Task |-> <<>>]
    /\ slr = [t \in Task |-> ZeroLrs]
    /\ vtm = [t \in Task |-> FALSE]
    /\ lr = [c \in Cpu |-> ZeroLrs]
    /\ hw = [c \in Cpu |-> NoTask]
    /\ hwid = [c \in Cpu |-> Unbound]
    /\ pc = [c \in Cpu |-> "guest"]
    /\ cur = [c \in Cpu |-> NoTask]
    /\ nxt = [c \in Cpu |-> NoTask]
    /\ tick = [c \in Cpu |-> FALSE]
    /\ it = [c \in Cpu |-> ListHead]
    /\ arg = [c \in Cpu |-> NoTarget]
    /\ raised = [t \in Task |-> {}]
    /\ vtlost = [t \in Task |-> FALSE]

Goto(c, label) == pc' = [pc EXCEPT ![c] = label]

-----------------------------------------------------------------------------
(* Helpers shared by the handlers.                                          *)

(* gic_vcpu_inject_virq.  A queue with VCPU_MAX_PENDING_VIRQ other entries  *)
(* has no room for v, and drops it.                                         *)
NoRoom(t, v) == Len(vq[t]) = QMax /\ ~Contains(vq[t], v)

Raise(t, v) == raised' = [raised EXCEPT ![t] = IF NoRoom(t, v) THEN @ ELSE @ \cup {v}]

Inject(t, v) ==
    /\ vq' = [vq EXCEPT ![t] = InjectVirq(@, v)]
    /\ Raise(t, v)

(* gic_vcpu_flush_lr(t), on the pCPU whose registers hold t's context       *)
FlushLr(c, t) ==
    /\ lr' = [lr EXCEPT ![c] = FlushLrs(vq[t], @)]
    /\ vq' = [vq EXCEPT ![t] = FlushQueue(@, lr[c])]

(* find_task_by_mpidr, under g_sched_lock: t is the task it returns for m,  *)
(* the first match of g_running, else the first match of the ready list     *)
RunningMatch(m, c) == running[c] # NoTask /\ mpidr[running[c]] = m

IsFound(m, t) ==
    \/ \E c \in Cpu : /\ t = running[c] /\ RunningMatch(m, c)
                      /\ \A d \in 0..(c - 1) : ~RunningMatch(m, d)
    \/ /\ \A c \in Cpu : ~RunningMatch(m, c)
       /\ \E i \in 1..Len(ready) :
            /\ t = ready[i] /\ mpidr[t] = m
            /\ \A j \in 1..(i - 1) : mpidr[ready[j]] # m

NotFound(m) ==
    /\ \A c \in Cpu : ~RunningMatch(m, c)
    /\ \A i \in 1..Len(ready) : mpidr[ready[i]] # m

(* ipi_send_cpu: the SGI names Aff1..Aff3 of the target and the fixed target *)
(* list 1, that is Aff0 = 0.  Both pCPUs have Aff1..Aff3 = 0, so it reaches  *)
(* pCPU0; a number that is no host CPU sends nothing.                       *)
SendSgiHost(target) ==
    IF target \in Cpu THEN [ipi EXCEPT ![0] = TRUE] ELSE ipi

(* the IPI simple_scheduler_sched and ipi_send_reschedule send              *)
Kick(c, target) ==
    IF target >= 0 /\ target # c THEN SendSgiHost(target) ELSE ipi

-----------------------------------------------------------------------------
(* sched_yield                                                              *)

(* Faulty variants, for mutation runs: the task stays on the list; nothing  *)
(* is flushed for a vCPU that goes on; the new task is not published.       *)
YieldNextNoDel(c) ==
    /\ pc[c] = "next"
    /\ \E i \in 1..Len(ready) :
        /\ IsNext(ready, Prio, affinity, c, running[c], NoTask, i)
        /\ nxt' = [nxt EXCEPT ![c] = ready[i]]
    /\ cur' = [cur EXCEPT ![c] = running[c]]
    /\ Goto(c, "publish")
    /\ UNCHANGED <<sched, tasks, virqs, saved, timers, regs, tick, it, arg>>
YieldStayNoFlush(c) ==
    /\ pc[c] = "next"
    /\ NoNext(ready, Prio, affinity, c, running[c], NoTask)
    /\ Goto(c, IF tick[c] THEN "uart" ELSE "guest")
    /\ UNCHANGED <<sched, tasks, virqs, saved, timers, regs, locals>>
PublishNever(c) ==
    /\ pc[c] = "publish"
    /\ Goto(c, "requeue")
    /\ UNCHANGED <<sched, tasks, virqs, saved, timers, regs, locals>>

(* simple_scheduler_next: the locked half takes the task off the list       *)
YieldNext(c) ==
    /\ pc[c] = "next"
    /\ \E i \in 1..Len(ready) :
        /\ IsNext(ready, Prio, affinity, c, running[c], NoTask, i)
        /\ nxt' = [nxt EXCEPT ![c] = ready[i]]
        /\ ready' = RemoveAt(ready, i)
    /\ cur' = [cur EXCEPT ![c] = running[c]]
    /\ Goto(c, "publish")
    /\ UNCHANGED <<running, ipi, tasks, virqs, saved, timers, regs, tick, it, arg>>

AfterYield(c) == IF tick[c] THEN "uart" ELSE "guest"

(* ... and with nothing to switch to, the current vCPU's queue is flushed   *)
(* (for the virtual timer, do_irq_mode flushes it once more)                *)
YieldStay(c) ==
    /\ pc[c] = "next"
    /\ NoNext(ready, Prio, affinity, c, running[c], NoTask)
    /\ IF running[c] = NoTask THEN UNCHANGED <<lr, vq>> ELSE FlushLr(c, running[c])
    /\ Goto(c, AfterYield(c))
    /\ UNCHANGED <<sched, tasks, raised, saved, timers, hw, hwid, locals>>

(* simple_scheduler_next: set_current after the unlock                      *)
Publish(c) ==
    /\ pc[c] = "publish"
    /\ running' = [running EXCEPT ![c] = nxt[c]]
    /\ Goto(c, "requeue")
    /\ UNCHANGED <<ready, ipi, tasks, virqs, saved, timers, regs, locals>>

(* simple_scheduler_sched(current): back on the list before it is saved     *)
Requeue(c) ==
    /\ pc[c] = "requeue"
    /\ IF cur[c] = NoTask
       THEN UNCHANGED <<ready, ipi>>
       ELSE /\ Insert(ready, Prio, cur[c], ready')
            /\ ipi' = Kick(c, affinity[cur[c]])
    /\ Goto(c, "save")
    /\ UNCHANGED <<running, tasks, virqs, saved, timers, regs, locals>>

(* vcpu_context_save and gic_vcpu_save: from here on the registers are      *)
(* nobody's, and the task has its list registers in memory                  *)
VcpuContextSave(c) == hw' = [hw EXCEPT ![c] = NoTask]
GicVcpuSave(c, t)  == slr' = [slr EXCEPT ![t] = lr[c]]

(* vcpu_context_restore and gic_vcpu_restore (the list registers it loads;  *)
(* those of a task that never ran are 0)                                    *)
VcpuContextRestore(c, t) ==
    /\ hw' = [hw EXCEPT ![c] = t]
    /\ hwid' = [hwid EXCEPT ![c] = vmpidr[t]]
GicVcpuRestore(t) == slr[t]

(* __el2_switch_to: save the outgoing vCPU                                  *)
SwitchSave(c) ==
    /\ pc[c] = "save"
    /\ IF cur[c] = NoTask THEN UNCHANGED slr ELSE GicVcpuSave(c, cur[c])
    /\ VcpuContextSave(c)
    /\ Goto(c, "restore")
    /\ UNCHANGED <<sched, tasks, virqs, timers, lr, hwid, locals>>

(* __el2_switch_to: restore the incoming one and flush its queue            *)
SwitchRestore(c) ==
    /\ pc[c] = "restore"
    /\ VcpuContextRestore(c, nxt[c])
    /\ lr' = [lr EXCEPT ![c] = FlushLrs(vq[nxt[c]], GicVcpuRestore(nxt[c]))]
    /\ vq' = [vq EXCEPT ![nxt[c]] = FlushQueue(@, GicVcpuRestore(nxt[c]))]
    /\ cur' = [cur EXCEPT ![c] = NoTask]
    /\ nxt' = [nxt EXCEPT ![c] = NoTask]
    /\ Goto(c, AfterYield(c))
    /\ UNCHANGED <<sched, tasks, raised, saved, timers, tick, it, arg>>

Yield(c) ==
    \/ YieldNext(c) \/ YieldStay(c) \/ Publish(c) \/ Requeue(c)
    \/ SwitchSave(c) \/ SwitchRestore(c)

-----------------------------------------------------------------------------
(* do_irq_mode                                                              *)

(* A host SGI: ipi_handle does nothing for IPI_RESCHEDULE, then a yield     *)
IrqIpi(c) ==
    /\ pc[c] = "guest"
    /\ ipi[c]
    /\ ipi' = [ipi EXCEPT ![c] = FALSE]
    /\ Goto(c, "next")
    /\ UNCHANGED <<ready, running, tasks, virqs, saved, timers, regs, locals>>

(* The hypervisor timer: rearmed, yield, then the host UART is polled       *)
IrqHypTimer(c) ==
    /\ pc[c] = "guest"
    /\ tick' = [tick EXCEPT ![c] = TRUE]
    /\ Goto(c, "next")
    /\ UNCHANGED <<sched, tasks, virqs, saved, timers, regs, cur, nxt, it, arg>>

(* The guest's virtual timer: masked, its vIRQ queued, yield                *)
IrqVirtTimer(c) ==
    /\ pc[c] = "guest"
    /\ running[c] # NoTask
    /\ ~vtm[running[c]]
    /\ vtm' = [vtm EXCEPT ![running[c]] = TRUE]
    /\ vtlost' = [vtlost EXCEPT ![running[c]] = NoRoom(running[c], TimerIrq)]
    /\ Inject(running[c], TimerIrq)
    /\ Goto(c, "next")
    /\ UNCHANGED <<sched, tasks, saved, regs, locals>>

(* pl011_maybe_receive.  What the emulated UART holds is another module's;  *)
(* here it either raises its vIRQ or not.  The vIRQ goes to vCPU0's task,   *)
(* to the current task if that one is not to be found, else nowhere.        *)
UartTarget(c, t) == IsFound(0, t) \/ (NotFound(0) /\ t = running[c])

UartRaise(c) ==
    \E t \in Task :
        /\ UartEnabled
        /\ UartTarget(c, t)
        /\ Raise(t, UartIrq)
        /\ LET q == InjectVirq(vq[t], UartIrq)
           IN  IF t = running[c]
               THEN /\ lr' = [lr EXCEPT ![c] = FlushLrs(q, @)]
                    /\ vq' = [vq EXCEPT ![t] = FlushQueue(q, lr[c])]
               ELSE vq' = [vq EXCEPT ![t] = q] /\ UNCHANGED lr

UartPoll(c) ==
    /\ pc[c] = "uart"
    /\ tick' = [tick EXCEPT ![c] = FALSE]
    /\ Goto(c, "guest")
    /\ UartRaise(c) \/ UNCHANGED <<vq, raised, lr>>
    /\ UNCHANGED <<sched, tasks, saved, timers, hw, hwid, cur, nxt, it, arg>>

(* The host UART's own interrupt: served without a yield                    *)
IrqUart(c) ==
    /\ pc[c] = "guest"
    /\ UartRaise(c)
    /\ UNCHANGED <<sched, tasks, saved, timers, hw, hwid, pc, locals>>

Irq(c) == IrqIpi(c) \/ IrqHypTimer(c) \/ IrqVirtTimer(c) \/ UartPoll(c) \/ IrqUart(c)

-----------------------------------------------------------------------------
(* Guest SGIs: a trapped write of ICC_SGI1R_EL1 (gic_vcpu_send_sgi)         *)

InGuest(c) == pc[c] = "guest" /\ running[c] # NoTask

(* Target list.  A list of several targets is several of these steps; a     *)
(* target that is not to be found is dropped with a warning.                *)
GuestSgi(c, m, v) ==
    /\ InGuest(c)
    /\ \/ \E t \in Task : IsFound(m, t) /\ Inject(t, v)
       \/ NotFound(m) /\ UNCHANGED virqs
    /\ UNCHANGED <<sched, tasks, saved, timers, regs, pc, locals>>

(* The entry after x of the ready list, as list_for_each_entry reads it     *)
(* without the lock: an extracted entry has next = NULL.                    *)
NextEntry(x) ==
    IF x = ListHead THEN IF ready = <<>> THEN ListHead ELSE Head(ready)
    ELSE IF ~Contains(ready, x) THEN Wild
    ELSE LET i == CHOOSE j \in 1..Len(ready) : ready[j] = x
         IN  IF i = Len(ready) THEN ListHead ELSE ready[i + 1]

(* IRM: every other task on the ready list, walked without the lock         *)
GuestSgiAll(c, v) ==
    /\ InGuest(c)
    /\ it' = [it EXCEPT ![c] = ListHead]
    /\ arg' = [arg EXCEPT ![c] = v]
    /\ Goto(c, "irm")
    /\ UNCHANGED <<sched, tasks, virqs, saved, timers, regs, cur, nxt, tick>>

SgiAllStep(c) ==
    LET n == NextEntry(it[c])
    IN  /\ pc[c] = "irm"
        /\ IF n \in Task /\ n # running[c]
           THEN Inject(n, arg[c]) ELSE UNCHANGED virqs
        /\ it' = [it EXCEPT ![c] = IF n \in Task THEN n ELSE ListHead]
        /\ arg' = [arg EXCEPT ![c] = IF n \in Task THEN @ ELSE NoTarget]
        /\ Goto(c, IF n = Wild THEN "hung" ELSE IF n = ListHead THEN "guest" ELSE "irm")
        /\ UNCHANGED <<sched, tasks, saved, timers, regs, cur, nxt, tick>>

-----------------------------------------------------------------------------
(* PSCI: handle_hvc, psci_vcpu_call, then a yield                           *)

(* Every call but a CPU_ON of a configured mpidr changes no shared state    *)
HvcOther(c) ==
    /\ InGuest(c)
    /\ Goto(c, "next")
    /\ UNCHANGED <<sched, tasks, virqs, saved, timers, regs, locals>>

(* psci_task_exists, first half: the g_running scan (no lock)               *)
HvcCpuOn(c, m) ==
    /\ InGuest(c)
    /\ IF \E d \in Cpu : running[d] # NoTask /\ mpidr[running[d]] = m
       THEN Goto(c, "next") /\ UNCHANGED <<it, arg>>           \* ALREADY_ON
       ELSE /\ it' = [it EXCEPT ![c] = ListHead]
            /\ arg' = [arg EXCEPT ![c] = m]
            /\ Goto(c, "exists")
    /\ UNCHANGED <<sched, tasks, virqs, saved, timers, regs, cur, nxt, tick>>

(* Leaving psci_vcpu_on with a status for the guest                         *)
PsciReturn(c) ==
    /\ it' = [it EXCEPT ![c] = ListHead]
    /\ arg' = [arg EXCEPT ![c] = NoTarget]
    /\ Goto(c, "next")

(* do_hyper_sync: an exception of the hypervisor's own is its last.         *)
HyperSync(c) == Goto(c, "hung") /\ UNCHANGED <<it, arg>>

(* An unlocked walk of the ready list for a task with mpidr m: goes on,     *)
(* ends (found), ends (not found), or runs off an extracted entry and hangs *)
(* in do_hyper_sync.                                                        *)
Walk(c, m, found, notFound) ==
    LET n == NextEntry(it[c])
    IN  \/ n = Wild /\ HyperSync(c)
        \/ n = ListHead /\ notFound
        \/ n \in Task /\ mpidr[n] = m /\ found
        \/ /\ n \in Task /\ mpidr[n] # m
           /\ it' = [it EXCEPT ![c] = n]
           /\ UNCHANGED <<pc, arg>>

(* psci_task_exists, second half                                            *)
CpuOnExists(c) ==
    /\ pc[c] = "exists"
    /\ Walk(c, arg[c],
            PsciReturn(c),                                     \* ALREADY_ON
            Goto(c, "create") /\ UNCHANGED <<it, arg>>)
    /\ UNCHANGED <<sched, tasks, virqs, saved, timers, regs, cur, nxt, tick>>

(* vm_create_vcpu_task, when its allocations succeed: the new task is on    *)
(* the ready list, pinned to pCPU0 and without an mpidr (create_task2)      *)
VmCreateVcpuTask(c) ==
    /\ ntask < NTask
    /\ ntask' = ntask + 1
    /\ Insert(ready, Prio, ntask', ready')
    /\ ipi' = Kick(c, affinity[ntask'])

(* ... and when one fails everything is freed again, the guest gets DENIED  *)
CpuOnCreate(c) ==
    /\ pc[c] = "create"
    /\ \/ PsciReturn(c) /\ UNCHANGED <<ready, ipi, ntask>>
       \/ /\ VmCreateVcpuTask(c)
          /\ it' = [it EXCEPT ![c] = ListHead]
          /\ Goto(c, "find")
          /\ UNCHANGED arg
    /\ UNCHANGED <<running, mpidr, affinity, vmpidr, virqs, saved, timers, regs, cur, nxt, tick>>

(* The search for a task that still has mpidr -1                            *)
CpuOnFind(c) ==
    /\ pc[c] = "find"
    /\ Walk(c, Unbound,
            /\ it' = [it EXCEPT ![c] = NextEntry(it[c])]
            /\ Goto(c, "bind_mpidr")
            /\ UNCHANGED arg,
            PsciReturn(c))                                     \* DENIED
    /\ UNCHANGED <<sched, tasks, virqs, saved, timers, regs, cur, nxt, tick>>

(* The writes to the task found, one after the other and without a lock     *)
BindMpidr(c) ==
    /\ pc[c] = "bind_mpidr"
    /\ mpidr' = [mpidr EXCEPT ![it[c]] = arg[c]]
    /\ Goto(c, "bind_any")
    /\ UNCHANGED <<sched, ntask, affinity, vmpidr, virqs, saved, timers, regs, locals>>

BindAny(c) ==
    /\ pc[c] = "bind_any"
    /\ affinity' = [affinity EXCEPT ![it[c]] = AnyCpu]
    /\ Goto(c, "bind_cpu")
    /\ UNCHANGED <<sched, ntask, mpidr, vmpidr, virqs, saved, timers, regs, locals>>

(* Faulty variants of the next step, for mutation runs: the index after the *)
(* match; no pinning at all.                                                *)
BindCpuPlusOne(c) ==
    /\ pc[c] = "bind_cpu"
    /\ affinity' = [affinity EXCEPT ![it[c]] = arg[c] + 1]
    /\ Goto(c, "bind_vcpu")
    /\ UNCHANGED <<sched, ntask, mpidr, vmpidr, virqs, saved, timers, regs, locals>>
BindCpuNoPin(c) ==
    /\ pc[c] = "bind_cpu"
    /\ Goto(c, "bind_vcpu")
    /\ UNCHANGED <<sched, tasks, virqs, saved, timers, regs, locals>>

BindCpu(c) ==
    /\ pc[c] = "bind_cpu"
    /\ affinity' = [affinity EXCEPT ![it[c]] = arg[c]]
    /\ Goto(c, "bind_vcpu")
    /\ UNCHANGED <<sched, ntask, mpidr, vmpidr, virqs, saved, timers, regs, locals>>

(* vmpidr, vbar and x0 (context_id)                                         *)
BindVcpu(c) ==
    /\ pc[c] = "bind_vcpu"
    /\ vmpidr' = [vmpidr EXCEPT ![it[c]] = arg[c]]
    /\ PsciReturn(c)                                           \* SUCCESS
    /\ UNCHANGED <<sched, ntask, mpidr, affinity, virqs, saved, timers, regs, cur, nxt, tick>>

Psci(c) ==
    \/ CpuOnExists(c) \/ CpuOnCreate(c) \/ CpuOnFind(c)
    \/ BindMpidr(c) \/ BindAny(c) \/ BindCpu(c) \/ BindVcpu(c)

-----------------------------------------------------------------------------
(* The guest (external): it acknowledges a pending vIRQ and ends it; the    *)
(* handler of the virtual timer programs the next event, which unmasks it.  *)

GuestAck(c, i) ==
    /\ InGuest(c)
    /\ lr[c][i].state = "pending"
    /\ lr' = [lr EXCEPT ![c][i].state = "active"]
    /\ raised' = [raised EXCEPT ![running[c]] = @ \ {lr[c][i].vintid}]
    /\ UNCHANGED <<sched, tasks, vq, saved, timers, hw, hwid, pc, locals>>

GuestEoi(c, i) ==
    /\ InGuest(c)
    /\ lr[c][i].state = "active"
    /\ lr' = [lr EXCEPT ![c][i] = ZeroLrs[i]]
    /\ vtm' = IF lr[c][i].vintid = TimerIrq THEN [vtm EXCEPT ![running[c]] = FALSE] ELSE vtm
    /\ UNCHANGED <<sched, tasks, virqs, saved, vtlost, hw, hwid, pc, locals>>

Guest(c) ==
    \/ \E m \in Vcpu : HvcCpuOn(c, m) \/ (\E v \in Sgi : GuestSgi(c, m, v))
    \/ \E v \in SgiAll : GuestSgiAll(c, v)
    \/ HvcOther(c)
    \/ \E i \in 1..NLr : GuestAck(c, i) \/ GuestEoi(c, i)

-----------------------------------------------------------------------------
Next == \E c \in Cpu : Yield(c) \/ Irq(c) \/ SgiAllStep(c) \/ Psci(c) \/ Guest(c)

Spec == Init /\ [][Next]_vars

(* A pCPU goes on with the handler it is in; a tick that came meanwhile     *)
(* stays pending and is taken when EL2 is left.  Two things are asked of    *)
(* the guest: that it services its interrupts, and that it lets the ticks   *)
(* come, since every trapped system-register write re-arms the timer        *)
(* (handle_sysreg) and a guest that never stops sending SGIs would keep     *)
(* pushing the tick away.                                                   *)
Fairness == \A c \in Cpu :
    /\ WF_vars(Yield(c) \/ UartPoll(c) \/ SgiAllStep(c) \/ Psci(c))
    /\ SF_vars(IrqHypTimer(c))
    /\ \A i \in 1..NLr : SF_vars(GuestAck(c, i) \/ GuestEoi(c, i))

FairSpec == Spec /\ Fairness

-----------------------------------------------------------------------------
(* Properties                                                               *)

(* Every variable keeps its type: in particular no walk of the ready list    *)
(* leaves a wild pointer in a handler that goes on, and psci_vcpu_on pins   *)
(* tasks to configured CPUs only.                                           *)
TypeOK ==
    /\ ready \in Seq(Task)
    /\ running \in [Cpu -> Task \cup {NoTask}]
    /\ ipi \in [Cpu -> BOOLEAN]
    /\ ntask \in Task
    /\ mpidr \in [Task -> Vcpu \cup {Unbound}]
    /\ affinity \in [Task -> Vcpu \cup {AnyCpu}]
    /\ vmpidr \in [Task -> Vcpu \cup {Unbound}]
    /\ vq \in [Task -> Seq(Virq)]
    /\ slr \in [Task -> Lrs]
    /\ vtm \in [Task -> BOOLEAN]
    /\ lr \in [Cpu -> Lrs]
    /\ hw \in [Cpu -> Task \cup {NoTask}]
    /\ hwid \in [Cpu -> Vcpu \cup {Unbound}]
    /\ pc \in [Cpu -> Pcs]
    /\ cur \in [Cpu -> Task \cup {NoTask}]
    /\ nxt \in [Cpu -> Task \cup {NoTask}]
    /\ tick \in [Cpu -> BOOLEAN]
    /\ it \in [Cpu -> Task \cup {ListHead}]
    /\ arg \in [Cpu -> Vcpu \cup SgiAll \cup {NoTarget}]
    /\ raised \in [Task -> SUBSET Virq]
    /\ vtlost \in [Task -> BOOLEAN]

(* The tasks a pCPU holds: its current one, and inside sched_yield the one  *)
(* it has taken off the list or not yet put back.                           *)
Held(c) ==
    ({running[c]}
     \cup (IF pc[c] = "publish" THEN {nxt[c]} ELSE {})
     \cup (IF pc[c] = "requeue" THEN {cur[c]} ELSE {})) \ {NoTask}

(* A task is in one place at a time: once on the ready list, or in the hands *)
(* of a single pCPU.                                                        *)
OneOwner ==
    /\ IsInjective(ready)
    /\ \A c \in Cpu : Held(c) \cap ToSet(ready) = {}
    /\ \A c, d \in Cpu : c # d => Held(c) \cap Held(d) = {}

(* A vCPU's context is live in the registers of one pCPU at most, although  *)
(* sched_yield puts a task on the ready list before it saves it.  What      *)
(* protects the task is that it is pinned; with three vCPUs, or with enough *)
(* repeated CPU_ONs, psci_vcpu_on can pin it anew in that window.           *)
OneLiveContext == \A c, d \in Cpu : c # d /\ hw[c] # NoTask => hw[c] # hw[d]

(* The condition for that: psci_vcpu_on pins a task, which it finds and     *)
(* writes without a lock, to the pCPU that runs it or still has its         *)
(* registers, if there is one.                                              *)
PinnedForHolder ==
    \A c, d \in Cpu :
        /\ pc[c] \in {"bind_mpidr", "bind_any", "bind_cpu"}
        /\ hw[d] = it[c] \/ it[c] \in Held(d)
        => d = arg[c]

(* EL1 runs with the registers of the task the scheduler thinks it runs.    *)
GuestOwnContext == \A c \in Cpu : pc[c] = "guest" => hw[c] = running[c]

(* A queue stays within VCPU_MAX_PENDING_VIRQ and holds no vINTID twice.    *)
QueueOK == \A t \in Task : Len(vq[t]) <= QMax /\ IsInjective(vq[t])

(* Where a task's list registers are: in a pCPU, or saved.                  *)
LrsOf(t) ==
    IF \E c \in Cpu : hw[c] = t THEN lr[CHOOSE c \in Cpu : hw[c] = t] ELSE slr[t]

(* No vIRQ that was injected disappears before the guest has acknowledged   *)
(* it: not in a context switch, not in a flush, and gic_vcpu_inject_virq    *)
(* itself drops one only when the queue is full of others.                  *)
NoLostVirq ==
    \A t \in Task : raised[t] \subseteq ToSet(vq[t]) \cup LrVirqs(LrsOf(t), {"pending"})

(* A virtual timer that the hypervisor masked has its vIRQ on the way to    *)
(* the guest, whose handler is what unmasks it, unless a full queue dropped *)
(* that vIRQ at the moment the timer fired.                                 *)
TimerNotStuck ==
    \A t \in Task : vtm[t] /\ ~vtlost[t] =>
        TimerIrq \in ToSet(vq[t]) \cup LrVirqs(LrsOf(t), {"pending", "active"})

(* A vINTID is in one list register at most, as the de-duplication of       *)
(* gic_vcpu_inject_virq means it to be.                                     *)
NoDoublePend ==
    \A c \in Cpu : \A i, j \in 1..NLr :
        i # j /\ ~LrFree(lr[c], i) /\ ~LrFree(lr[c], j)
            => lr[c][i].vintid # lr[c][j].vintid

(* A vCPU enters EL1 with the identity CPU_ON gave its task: psci_vcpu_on   *)
(* has bound the task it created by the time the task first runs.           *)
RunsWithIdentity ==
    \A c \in Cpu : InGuest(c) =>
        /\ mpidr[running[c]] # Unbound
        /\ hwid[c] = mpidr[running[c]]

(* The vIRQ of the emulated UART has a taker once vCPU0 has run: in the     *)
(* windows of sched_yield in which find_task_by_mpidr misses vCPU0's task,  *)
(* the pCPU that raises it has a current task of its own to fall back on.   *)
UartHasTarget ==
    running[0] # NoTask /\ NotFound(0) => \A c \in Cpu : running[c] # NoTask

(* Every task on the ready list gets a pCPU.                                *)
VcpuRuns == \A t \in Task : Contains(ready, t) ~> (\E c \in Cpu : running[c] = t)

(* Every vIRQ that is injected reaches the guest: the oldest of the queue   *)
(* gets the next free list register, and the queue is flushed at each tick. *)
VirqDelivered == \A t \in Task : \A v \in Virq : v \in raised[t] ~> v \notin raised[t]
=============================================================================
