------------------------------- MODULE RvCore -------------------------------
(***************************************************************************)
(* The running RISC-V hypervisor (src/arch/riscv64): pCPUs that take        *)
(* interrupts and guest traps in HS-mode, with SIE clear, and share the     *)
(* ready list, the current tasks, the vCPUs' interrupt images, the vPLIC    *)
(* and the emulated UART.                                                   *)
(*                                                                         *)
(*   scheduler                     sched_riscv.c, core/sched_simple.c       *)
(*   vCPU context                  vcpu.c                                   *)
(*   traps                         exception.c, riscv_guest_fault_manager.c *)
(*   virtual interrupts, timers    riscv_virt_irq_manager.c,                *)
(*                                 riscv_timer_manager.c, plic.c            *)
(*   SBI, IPIs, remote fences      riscv_sbi_manager.c, ipi.c,              *)
(*                                 riscv_fence_manager.c                    *)
(*                                                                         *)
(* todo[p] is what is left of the trap pCPU p is in: a sequence of steps,   *)
(* each one critical section or one unlocked access, in the order of the    *)
(* calls in the code.  A step may put the steps of the functions it calls   *)
(* in front.  When todo[p] is empty p runs its vCPU, or waits in wfi.       *)
(*                                                                         *)
(* The behaviours start where boot ends; menu, chosen then and for good,    *)
(* is what the guest does in a behaviour.                                   *)
(***************************************************************************)
EXTENDS Integers, Sequences, FiniteSets, SequencesExt, SchedSimple, VPlic, Ns16550

CONSTANTS
    NCpu,           \* pCPUs online (g_cpu_count)
    NVcpu,          \* riscv_guest_vcpu_count()
    Created,        \* how many of them boot may have created before a tick took it away
    Units,          \* of "f" and "v": riscv_has_fpu, riscv_has_vector
    Menus,          \* the sets of guest operations explored together
    Calls,          \* the hart masks the guest uses: a set of bits and a base
    HartSpan,       \* 2^64, one above the highest base
    MaxOps,         \* bound: guest operations in a behaviour
    MaxRx,          \* bound: characters the host UART receives
    GuestUartIrq    \* GUEST_UART_IRQ

ASSUME RvAssumption ==
    /\ NCpu \in Nat \ {0} /\ NVcpu \in Nat \ {0}
    /\ MaxOps \in Nat /\ MaxRx \in Nat
    /\ Units \subseteq {"f", "v"}
    /\ Created \subseteq 1..NVcpu
    /\ HartSpan \in Nat \ {0}
    /\ GuestUartIrq \in Irq
    /\ Calls \subseteq [mask : SUBSET Nat, base : 0..(HartSpan - 1)]

Cpu  == 0..(NCpu - 1)
Vcpu == 0..(NVcpu - 1)
NoVcpu == -1
Virq == {"soft", "timer", "ext"}      \* IRQ_VS_SOFT, IRQ_VS_TIMER, IRQ_VS_EXT
Vec  == {"resched", "fence"}          \* IPI_RESCHEDULE, IPI_REMOTE_FENCE_ALL

VARIABLES
    menu, ops,      \* what the guest does, and how much more of it
    ready,          \* g_ready_list
    cur,            \* g_current_task and g_running, written together
    started,        \* g_boot_vcpu_started
    todo,           \* the steps left of each pCPU's trap
    virq,           \* virt_irq_pending of each vCPU
    hvip,           \* the HVIP register of each pCPU
    timer,          \* carch.timer: "off", or "armed" before the deadline, "due" after
    sip, ipi,       \* the SSIP bit, g_ipi_pending
    done,           \* g_ipi_complete[.][IPI_REMOTE_FENCE_ALL]
    sel, status,    \* selected_pcpu and status in riscv_remote_fence
    fenced,         \* history: has the target fenced since the request began?
    plic, uart,     \* g_vplic, g_uart_state
    hostRx,         \* characters waiting in the host's UART
    raced,          \* history: have two level updates overlapped?
    csr,            \* the VS CSRs, FP and vector registers of each pCPU
    ctx,            \* ... and saved in each vCPU
    own             \* history: what each vCPU last left in them

schedVars == <<ready, cur>>
irqVars   == <<virq, hvip, timer>>
ipiVars   == <<sip, ipi, done, fenced>>
fenceVars == <<sel, status>>
devVars   == <<plic, uart, hostRx>>
ctxVars   == <<csr, ctx, own>>
vars == <<menu, ops, schedVars, started, todo, irqVars, ipiVars, fenceVars,
          devVars, raced, ctxVars>>

---------------------------------------------------------------------------
(* riscv_create_guest_vcpu pins hart h; all have one priority.              *)
Affinity == [v \in Vcpu |-> v % NCpu]
Priority == [v \in Vcpu |-> 10]

At(p, op) == todo[p] # <<>> /\ Head(todo[p]).op = op
Now(p)    == Head(todo[p])
InGuest(p, v) == todo[p] = <<>> /\ cur[p] = v

(* Is a trap with these steps left between a change of a level's inputs and *)
(* its last use of the level?                                               *)
LevelOps == {"tx_clear", "update_irq", "raise", "lower", "levels", "ext_on", "ext_off"}
Updates(steps) ==
    \E i \in 1..Len(steps) :
        \/ steps[i].op \in LevelOps
        \/ steps[i].op \in {"find", "find_ready"} /\ steps[i].why \in LevelOps

SetTodo(p, steps) ==
    /\ todo' = [todo EXCEPT ![p] = steps]
    /\ raced' = (raced \/ (Updates(steps) /\ \E q \in Cpu \ {p} : Updates(todo[q])))

(* The step at the head is done; steps, of the functions it calls, follow.  *)
Do(p, steps) == SetTodo(p, steps \o Tail(todo[p]))

Step(op)     == [op |-> op]
To(op, q)    == [op |-> op, to |-> q]
For(op, v)   == [op |-> op, vcpu |-> v]
Find(why, h) == [op |-> "find", hart |-> h, why |-> why]

(* One step for each number of S, in increasing order                       *)
Nth(S, i) == CHOOSE x \in S : Cardinality({y \in S : y <= x}) = i
ForEach(S, F(_)) == [i \in 1..Cardinality(S) |-> F(Nth(S, i))]

(* do_exception, up to the switch: a trap of the boot vCPU marks it started.*)
Trap(p, steps) ==
    /\ todo[p] = <<>>
    /\ SetTodo(p, steps)
    /\ started' = (started \/ cur[p] = 0)

---------------------------------------------------------------------------
(* Interrupts                                                               *)

(* IRQ_S_TIMER; handle_timer_irq re-arms the timer, so it fires again.      *)
Tick(p) ==
    /\ Trap(p, (IF p = 0 THEN <<Step("service")>> ELSE <<>>)
               \o <<Step("timer"), Step("yield")>>)
    /\ UNCHANGED <<menu, ops, schedVars, irqVars, ipiVars, fenceVars, devVars, ctxVars>>

(* IRQ_S_SOFT: handle_s_soft_irq clears SSIP before it takes the vectors.   *)
SoftSteps == <<Step("take"), Step("refresh"), Step("materialize"), Step("yield")>>
Soft(p) ==
    /\ sip[p]
    /\ Trap(p, SoftSteps)
    /\ sip' = [sip EXCEPT ![p] = FALSE]
    /\ UNCHANGED <<menu, ops, schedVars, irqVars, ipi, done, fenced, fenceVars, devVars, ctxVars>>

(* IRQ_S_EXT: handle_s_ext_irq; only pCPU 0 has a source enabled.           *)
Ext(p) ==
    /\ p = 0 /\ hostRx > 0
    /\ Trap(p, <<Step("service")>>)
    /\ UNCHANGED <<menu, ops, schedVars, irqVars, ipiVars, fenceVars, devVars, ctxVars>>

(* Faulty variant, for mutation runs: the fence is counted, then done.      *)
TakeCountsFirst(p) ==
    /\ At(p, "take")
    /\ ipi' = [ipi EXCEPT ![p] = {}]
    /\ Do(p, IF "fence" \in ipi[p] THEN <<Step("count"), Step("hfence")>> ELSE <<>>)
    /\ UNCHANGED <<menu, ops, schedVars, started, irqVars, sip, done, fenced, fenceVars, devVars, ctxVars>>

(* riscv_ipi_take_pending, and the dispatch loop; ipi_handle does nothing   *)
(* for IPI_RESCHEDULE, whose count nobody reads.                            *)
Take(p) ==
    /\ At(p, "take")
    /\ ipi' = [ipi EXCEPT ![p] = {}]
    /\ Do(p, IF "fence" \in ipi[p] THEN <<Step("hfence"), Step("count")>> ELSE <<>>)
    /\ UNCHANGED <<menu, ops, schedVars, started, irqVars, sip, done, fenced, fenceVars, devVars, ctxVars>>

(* The steps in which a pCPU is inside riscv_ipi_send_cpu_sync              *)
Waits(q, p) == \E op \in {"sync_send", "sync_sbi", "sync_wait"} : At(q, op) /\ Now(q).to = p

(* ipi_remote_fence_all and local_remote_fence_all                          *)
Hfence(p) ==
    /\ At(p, "hfence")
    /\ fenced' = [q \in Cpu |-> fenced[q] \/ Waits(q, p)]
    /\ Do(p, <<>>)
    /\ UNCHANGED <<menu, ops, schedVars, started, irqVars, sip, ipi, done, fenceVars, devVars, ctxVars>>

(* The end of ipi_handle                                                    *)
Count(p) ==
    /\ At(p, "count")
    /\ done' = [done EXCEPT ![p] = @ + 1]
    /\ Do(p, <<>>)
    /\ UNCHANGED <<menu, ops, schedVars, started, irqVars, sip, ipi, fenced, fenceVars, devVars, ctxVars>>

---------------------------------------------------------------------------
(* Scheduler                                                                *)

(* sched_yield and simple_scheduler_next_no_publish                         *)
SwitchTo(p, n) ==
    (IF cur[p] = NoVcpu THEN <<>> ELSE <<Step("requeue")>>)
    \o <<For("switch", n), For("publish", n), Step("timer"), Step("refresh"), Step("materialize")>>

Yield(p) ==
    /\ At(p, "yield")
    /\ IF (p # 0 /\ ~started) \/ NoNext(ready, Priority, Affinity, p, cur[p], NoVcpu)
       THEN Do(p, <<>>) /\ UNCHANGED ready
       ELSE \E i \in 1..Len(ready) :
                /\ IsNext(ready, Priority, Affinity, p, cur[p], NoVcpu, i)
                /\ ready' = RemoveAt(ready, i)
                /\ Do(p, SwitchTo(p, ready[i]))
    /\ UNCHANGED <<menu, ops, cur, started, irqVars, ipiVars, fenceVars, devVars, ctxVars>>

(* Faulty variant, for mutation runs: the outgoing task is dropped.         *)
RequeueDrops(p) ==
    /\ At(p, "requeue")
    /\ Do(p, <<>>)
    /\ UNCHANGED <<menu, ops, schedVars, started, irqVars, ipiVars, fenceVars, devVars, ctxVars>>

(* simple_scheduler_sched of the outgoing task, before it is saved          *)
Requeue(p) ==
    /\ At(p, "requeue")
    /\ Insert(ready, Priority, cur[p], ready')
    /\ Do(p, IF Affinity[cur[p]] = p THEN <<>> ELSE <<To("kick", Affinity[cur[p]])>>)
    /\ UNCHANGED <<menu, ops, cur, started, irqVars, ipiVars, fenceVars, devVars, ctxVars>>

(* vector_regs_save, the kmalloc of its area taken to succeed, and          *)
(* vector_regs_restore                                                      *)
VectorRegsSave(live) == live.reg["v"]
VectorRegsRestore(saved) == saved.reg["v"]

(* fpu_save and vector_csr_save: a unit is saved when VSSTATUS has it dirty *)
FpuSave(saved, live) == IF live.state["f"] = "dirty" THEN live.reg["f"] ELSE saved.reg["f"]
VectorSave(saved, live) == IF live.state["v"] = "dirty" THEN VectorRegsSave(live) ELSE saved.reg["v"]

(* ... and fpu_restore and vector_csr_restore load one that was saved dirty;*)
(* otherwise the registers keep what the last vCPU left in them.            *)
FpuRestore(saved, live) == IF saved.state["f"] = "dirty" THEN saved.reg["f"] ELSE live.reg["f"]
VectorRestore(saved, live) == IF saved.state["v"] = "dirty" THEN VectorRegsRestore(saved) ELSE live.reg["v"]

(* vcpu_context_save                                                        *)
ContextSave(saved, live) ==
    [vs |-> live.vs, state |-> live.state,
     reg |-> [u \in Units |-> IF u = "f" THEN FpuSave(saved, live) ELSE VectorSave(saved, live)]]

(* Faulty variant, for mutation runs: no unit is loaded.                    *)
ContextRestoreNoUnits(saved, live) == [vs |-> saved.vs, state |-> saved.state, reg |-> live.reg]

(* vcpu_context_restore                                                     *)
ContextRestore(saved, live) ==
    [vs |-> saved.vs, state |-> saved.state,
     reg |-> [u \in Units |-> IF u = "f" THEN FpuRestore(saved, live) ELSE VectorRestore(saved, live)]]

(* The first half of __vcpu_switch; HVIP is cleared by both.                *)
Switch(p) ==
    /\ At(p, "switch")
    /\ LET n == Now(p).vcpu
           left == IF cur[p] = NoVcpu THEN ctx
                   ELSE [ctx EXCEPT ![cur[p]] = ContextSave(@, csr[p])]
       IN  /\ ctx' = left
           /\ csr' = [csr EXCEPT ![p] = ContextRestore(left[n], @)]
    /\ hvip' = [hvip EXCEPT ![p] = {}]
    /\ Do(p, <<>>)
    /\ UNCHANGED <<menu, ops, schedVars, started, virq, timer, ipiVars, fenceVars, devVars, own>>

(* set_current                                                              *)
Publish(p) ==
    /\ At(p, "publish")
    /\ cur' = [cur EXCEPT ![p] = Now(p).vcpu]
    /\ Do(p, <<>>)
    /\ UNCHANGED <<menu, ops, ready, started, irqVars, ipiVars, fenceVars, devVars, ctxVars>>

---------------------------------------------------------------------------
(* Virtual interrupts                                                       *)

(* riscv_virt_irq_assert and riscv_virt_irq_clear, under virt_irq_lock      *)
VirqAssert(p, v, i) ==
    /\ virq' = [virq EXCEPT ![v] = @ \cup {i}]
    /\ hvip' = IF cur[p] = v THEN [hvip EXCEPT ![p] = @ \cup {i}] ELSE hvip

VirqClear(p, v, i) ==
    /\ virq' = [virq EXCEPT ![v] = @ \ {i}]
    /\ hvip' = IF cur[p] = v THEN [hvip EXCEPT ![p] = @ \ {i}] ELSE hvip

(* riscv_virt_irq_materialize_current                                       *)
Materialize(p) ==
    /\ At(p, "materialize")
    /\ hvip' = IF cur[p] = NoVcpu THEN hvip ELSE [hvip EXCEPT ![p] = virq[cur[p]]]
    /\ Do(p, <<>>)
    /\ UNCHANGED <<menu, ops, schedVars, started, virq, timer, ipiVars, fenceVars, devVars, ctxVars>>

(* Faulty variant, for mutation runs: armed is not reset.                   *)
TimerRefreshStaysArmed(p) ==
    /\ At(p, "timer")
    /\ IF cur[p] # NoVcpu /\ timer[cur[p]] = "due"
       THEN VirqAssert(p, cur[p], "timer")
       ELSE UNCHANGED <<virq, hvip>>
    /\ Do(p, <<>>)
    /\ UNCHANGED <<menu, ops, schedVars, started, timer, ipiVars, fenceVars, devVars, ctxVars>>

(* riscv_timer_refresh of the current vCPU                                  *)
TimerRefresh(p) ==
    /\ At(p, "timer")
    /\ IF cur[p] # NoVcpu /\ timer[cur[p]] = "due"
       THEN timer' = [timer EXCEPT ![cur[p]] = "off"] /\ VirqAssert(p, cur[p], "timer")
       ELSE UNCHANGED irqVars
    /\ Do(p, <<>>)
    /\ UNCHANGED <<menu, ops, schedVars, started, ipiVars, fenceVars, devVars, ctxVars>>

(* The time passes a vCPU's deadline.                                       *)
Expire(v) ==
    /\ timer[v] = "armed"
    /\ timer' = [timer EXCEPT ![v] = "due"]
    /\ UNCHANGED <<menu, ops, schedVars, started, todo, raced, virq, hvip, ipiVars, fenceVars, devVars, ctxVars>>

(* riscv_find_guest_vcpu: g_running without a lock, then the ready list.    *)
(* With NULL the callers go on to their next hart.                          *)
FindRunning(p) ==
    /\ At(p, "find")
    /\ LET s == Now(p) IN
           Do(p, IF \E q \in Cpu : cur[q] = s.hart THEN <<For(s.why, s.hart)>>
                 ELSE <<[s EXCEPT !.op = "find_ready"]>>)
    /\ UNCHANGED <<menu, ops, schedVars, started, irqVars, ipiVars, fenceVars, devVars, ctxVars>>

FindReady(p) ==
    /\ At(p, "find_ready")
    /\ LET s == Now(p) IN
           Do(p, IF \E i \in 1..Len(ready) : ready[i] = s.hart THEN <<For(s.why, s.hart)>> ELSE <<>>)
    /\ UNCHANGED <<menu, ops, schedVars, started, irqVars, ipiVars, fenceVars, devVars, ctxVars>>

(* Faulty variant, for mutation runs: no kick.                              *)
InjectQuietly(p) ==
    /\ At(p, "soft") \/ At(p, "ext_on")
    /\ VirqAssert(p, Now(p).vcpu, IF At(p, "soft") THEN "soft" ELSE "ext")
    /\ Do(p, <<>>)
    /\ UNCHANGED <<menu, ops, schedVars, started, timer, ipiVars, fenceVars, devVars, ctxVars>>

(* inject_guest_soft_irq, and vplic_set_task_vseip with the level high      *)
Inject(p) ==
    /\ At(p, "soft") \/ At(p, "ext_on")
    /\ LET v == Now(p).vcpu IN
           /\ VirqAssert(p, v, IF At(p, "soft") THEN "soft" ELSE "ext")
           /\ Do(p, IF v = cur[p] THEN <<>> ELSE <<To("kick", Affinity[v])>>)
    /\ UNCHANGED <<menu, ops, schedVars, started, timer, ipiVars, fenceVars, devVars, ctxVars>>

(* vplic_set_task_vseip with the level low: no kick                         *)
Retract(p) ==
    /\ At(p, "ext_off")
    /\ VirqClear(p, Now(p).vcpu, "ext")
    /\ Do(p, <<>>)
    /\ UNCHANGED <<menu, ops, schedVars, started, timer, ipiVars, fenceVars, devVars, ctxVars>>

(* ipi_send_reschedule: g_ipi_pending first, then the SBI call              *)
Kick(p) ==
    /\ At(p, "kick")
    /\ ipi' = [ipi EXCEPT ![Now(p).to] = @ \cup {"resched"}]
    /\ Do(p, <<To("sbi", Now(p).to)>>)
    /\ UNCHANGED <<menu, ops, schedVars, started, irqVars, sip, done, fenced, fenceVars, devVars, ctxVars>>

SbiSendIpi(p) ==
    /\ At(p, "sbi")
    /\ sip' = [sip EXCEPT ![Now(p).to] = TRUE]
    /\ Do(p, <<>>)
    /\ UNCHANGED <<menu, ops, schedVars, started, irqVars, ipi, done, fenced, fenceVars, devVars, ctxVars>>

---------------------------------------------------------------------------
(* Levels of the emulated devices                                           *)

(* riscv_vplic_refresh: the level is read under the lock, applied after it. *)
Refresh(p) ==
    /\ At(p, "refresh")
    /\ Do(p, CASE cur[p] = NoVcpu -> <<>>
               [] cur[p] # NoVcpu /\ HasDeliverable(plic, cur[p]) -> <<For("ext_on", cur[p])>>
               [] OTHER -> <<For("ext_off", cur[p])>>)
    /\ UNCHANGED <<menu, ops, schedVars, started, irqVars, ipiVars, fenceVars, devVars, ctxVars>>

(* vplic_update_all_vseip: likewise, for every context                      *)
Levels(p) ==
    /\ At(p, "levels")
    /\ LET level(c) == Find(IF HasDeliverable(plic, c) THEN "ext_on" ELSE "ext_off", c)
       IN  Do(p, ForEach(Ctx, level))
    /\ UNCHANGED <<menu, ops, schedVars, started, irqVars, ipiVars, fenceVars, devVars, ctxVars>>

(* riscv_vplic_raise and riscv_vplic_clear of the UART's source             *)
UartLine(p) ==
    /\ At(p, "raise") \/ At(p, "lower")
    /\ plic' = IF At(p, "raise") THEN Raise(plic, GuestUartIrq) ELSE Lower(plic, GuestUartIrq)
    /\ Do(p, <<Step("levels")>>)
    /\ UNCHANGED <<menu, ops, schedVars, started, irqVars, ipiVars, fenceVars, uart, hostRx, ctxVars>>

(* Faulty variant, for mutation runs: nothing is lowered.                   *)
UpdateIrqOnlyRaises(p) ==
    /\ At(p, "update_irq")
    /\ uart' = UpdateIir(uart)
    /\ Do(p, IF Source(uart) = "none" THEN <<>> ELSE <<Step("raise")>>)
    /\ UNCHANGED <<menu, ops, schedVars, started, irqVars, ipiVars, fenceVars, plic, hostRx, ctxVars>>

(* ns16550a_update_irq                                                      *)
UpdateIrq(p) ==
    /\ At(p, "update_irq")
    /\ uart' = UpdateIir(uart)
    /\ Do(p, <<Step(IF Source(uart) = "none" THEN "lower" ELSE "raise")>>)
    /\ UNCHANGED <<menu, ops, schedVars, started, irqVars, ipiVars, fenceVars, plic, hostRx, ctxVars>>

(* uart_emul_service_host: a character the full FIFO refuses is gone, and   *)
(* ends the loop.                                                           *)
Service(p) ==
    /\ At(p, "service")
    /\ IF hostRx = 0
       THEN Do(p, <<>>) /\ UNCHANGED <<uart, hostRx>>
       ELSE /\ hostRx' = hostRx - 1
            /\ uart' = RxPush(uart)
            /\ Do(p, <<Step("update_irq")>> \o IF RxFull(uart) THEN <<>> ELSE <<Step("service")>>)
    /\ UNCHANGED <<menu, ops, schedVars, started, irqVars, ipiVars, fenceVars, plic, ctxVars>>

(* The read of IIR clears tx_irq_pending after it has looked at iir.        *)
IirTx(p) ==
    /\ At(p, "tx_clear")
    /\ uart' = TxClear(uart)
    /\ Do(p, <<>>)
    /\ UNCHANGED <<menu, ops, schedVars, started, irqVars, ipiVars, fenceVars, plic, hostRx, ctxVars>>

---------------------------------------------------------------------------
(* Remote fences                                                            *)

(* The first loop of riscv_remote_fence                                     *)
Select(p) ==
    /\ At(p, "select")
    /\ sel' = [sel EXCEPT ![p] = @ \cup {Affinity[Now(p).vcpu]}]
    /\ Do(p, <<>>)
    /\ UNCHANGED <<menu, ops, schedVars, started, irqVars, ipiVars, status, devVars, ctxVars>>

(* The second                                                               *)
Fences(p) ==
    /\ At(p, "fences")
    /\ LET fence(q) == IF q = p THEN Step("hfence") ELSE To("sync", q)
       IN  Do(p, ForEach(sel[p], fence))
    /\ UNCHANGED <<menu, ops, schedVars, started, irqVars, ipiVars, fenceVars, devVars, ctxVars>>

(* riscv_ipi_send_cpu_sync: the count is read, the vector made pending, the *)
(* SBI called.  ahead: was the target between its fence and its count?      *)
SyncRead(p) ==
    /\ At(p, "sync")
    /\ LET q == Now(p).to IN
           Do(p, <<[op |-> "sync_send", to |-> q, before |-> done[q], ahead |-> At(q, "count")]>>)
    /\ fenced' = [fenced EXCEPT ![p] = FALSE]
    /\ UNCHANGED <<menu, ops, schedVars, started, irqVars, sip, ipi, done, fenceVars, devVars, ctxVars>>

SyncSend(p) ==
    /\ At(p, "sync_send")
    /\ ipi' = [ipi EXCEPT ![Now(p).to] = @ \cup {"fence"}]
    /\ Do(p, <<[Now(p) EXCEPT !.op = "sync_sbi"]>>)
    /\ UNCHANGED <<menu, ops, schedVars, started, irqVars, sip, done, fenced, fenceVars, devVars, ctxVars>>

SyncSbi(p) ==
    /\ At(p, "sync_sbi")
    /\ sip' = [sip EXCEPT ![Now(p).to] = TRUE]
    /\ Do(p, <<[Now(p) EXCEPT !.op = "sync_wait"]>>)
    /\ UNCHANGED <<menu, ops, schedVars, started, irqVars, ipi, done, fenced, fenceVars, devVars, ctxVars>>

(* The wait ends when the count has moved ...                               *)
Acknowledged(p) == At(p, "sync_wait") /\ done[Now(p).to] # Now(p).before

SyncDone(p) ==
    /\ Acknowledged(p)
    /\ Do(p, <<>>)
    /\ fenced' = [fenced EXCEPT ![p] = FALSE]
    /\ UNCHANGED <<menu, ops, schedVars, started, irqVars, sip, ipi, done, fenceVars, devVars, ctxVars>>

(* Faulty variant, for mutation runs: it sends again.                       *)
SyncTimeoutRetries(p) ==
    /\ At(p, "sync_wait") /\ ~Acknowledged(p)
    /\ Do(p, <<[Now(p) EXCEPT !.op = "sync_send"]>>)
    /\ UNCHANGED <<menu, ops, schedVars, started, irqVars, ipiVars, fenceVars, devVars, ctxVars>>

(* ... or the timeout has passed: the target may be waiting as well.        *)
SyncTimeout(p) ==
    /\ At(p, "sync_wait") /\ ~Acknowledged(p)
    /\ Do(p, <<>>)
    /\ status' = [status EXCEPT ![p] = "failed"]
    /\ fenced' = [fenced EXCEPT ![p] = FALSE]
    /\ UNCHANGED <<menu, ops, schedVars, started, irqVars, sip, ipi, done, sel, devVars, ctxVars>>

---------------------------------------------------------------------------
(* What a guest does                                                        *)

Guest(p, what) ==
    /\ todo[p] = <<>> /\ cur[p] # NoVcpu
    /\ what \in menu /\ ops > 0
    /\ ops' = ops - 1
    /\ UNCHANGED <<menu, schedVars>>

(* A vCPU writes its CSRs, and registers of a unit or of none; it may then  *)
(* call the unit clean, as a guest does when it has saved it itself.        *)
Fresh(p) == own[cur[p]].n + 1
Compute(p) ==
    /\ Guest(p, "compute")
    /\ \E used \in {{}} \cup {{u} : u \in Units}, mark \in {"dirty", "clean"} :
        LET v == cur[p] IN
        /\ csr' = [csr EXCEPT ![p] =
                     [vs    |-> <<v, Fresh(p)>>,
                      state |-> [u \in Units |-> IF u \in used THEN mark ELSE csr[p].state[u]],
                      reg   |-> [u \in Units |-> IF u \in used THEN <<v, Fresh(p)>> ELSE csr[p].reg[u]]]]
        /\ own' = [own EXCEPT ![v] = [n |-> Fresh(p),
                      reg |-> [u \in Units |-> IF u \in used THEN Fresh(p) ELSE own[v].reg[u]]]]
    /\ UNCHANGED <<started, todo, raced, irqVars, ipiVars, fenceVars, devVars, ctx>>

(* vcpu_redirect_trap, for a fault the guest handles itself: an address of  *)
(* no region, a virtual instruction other than wfi, any other exception.    *)
Redirect(p) ==
    /\ Guest(p, "redirect")
    /\ Trap(p, <<>>)
    /\ csr' = [csr EXCEPT ![p].vs = <<cur[p], Fresh(p)>>]
    /\ own' = [own EXCEPT ![cur[p]].n = Fresh(p)]
    /\ UNCHANGED <<irqVars, ipiVars, fenceVars, devVars, ctx>>

(* SBI set_timer, legacy or TIME: riscv_timer_arm                           *)
SetTimer(p) ==
    /\ Guest(p, "timer")
    /\ Trap(p, <<Step("timer")>>)
    /\ \E when \in {"armed", "due"} : timer' = [timer EXCEPT ![cur[p]] = when]
    /\ VirqClear(p, cur[p], "timer")
    /\ UNCHANGED <<ipiVars, fenceVars, devVars, ctxVars>>

(* handle_sbi_send_ipi: the sum of base and bit wraps, so a base near the   *)
(* top reaches harts from 0 on; all ones stands for everyone.  A legacy     *)
(* call, handle_legacy_send_ipi, has base 0; its unreadable mask is empty.  *)
SendIpiHarts(call) ==
    IF call.base = HartSpan - 1 THEN Vcpu
    ELSE {h \in Vcpu : \E bit \in call.mask : h = (call.base + bit) % HartSpan}

SendIpi(p) ==
    /\ Guest(p, "ipi")
    /\ \E call \in Calls : LET soft(h) == Find("soft", h) IN Trap(p, ForEach(SendIpiHarts(call), soft))
    /\ UNCHANGED <<irqVars, ipiVars, fenceVars, devVars, ctxVars>>

(* clear_guest_soft_irq                                                     *)
ClearIpi(p) ==
    /\ Guest(p, "ipi")
    /\ Trap(p, <<>>)
    /\ VirqClear(p, cur[p], "soft")
    /\ UNCHANGED <<timer, ipiVars, fenceVars, devVars, ctxVars>>

(* guest_hart_selected: here nothing wraps.                                 *)
GuestHartSelected(h, call) ==
    \/ call.base = HartSpan - 1
    \/ h >= call.base /\ h - call.base \in call.mask

(* handle_legacy_remote_fence and the RFENCE calls: every kind does all.    *)
RemoteFence(p) ==
    /\ Guest(p, "fence")
    /\ \E call \in Calls :
        LET select(h) == Find("select", h)
        IN  Trap(p, ForEach({h \in Vcpu : GuestHartSelected(h, call)}, select) \o <<Step("fences")>>)
    /\ sel' = [sel EXCEPT ![p] = {}]
    /\ status' = [status EXCEPT ![p] = "ok"]
    /\ UNCHANGED <<irqVars, ipiVars, devVars, ctxVars>>

(* The calls of handle_vs_ecall that leave the state alone, and wfi         *)
NoEffect(p) ==
    /\ Guest(p, "redirect")
    /\ Trap(p, <<>>)
    /\ UNCHANGED <<irqVars, ipiVars, fenceVars, devVars, ctxVars>>

(* vcpu_emulate_mmio, to the UART ...                                       *)
UartLoad(p) ==
    /\ Guest(p, "uart")
    /\ \E reg \in {"RBR", "IIR", "LSR"} :
        /\ Trap(p, (IF reg = "IIR" /\ uart.iir = "THRI" THEN <<Step("tx_clear")>> ELSE <<>>)
                   \o IF UpdatesAfterRead(uart, reg) THEN <<Step("update_irq")>> ELSE <<>>)
        /\ uart' = UartRead(uart, reg)
    /\ UNCHANGED <<irqVars, ipiVars, fenceVars, plic, hostRx, ctxVars>>

UartStores == {<<"THR", {}>>, <<"IER", {"THRI"}>>, <<"IER", {"RDI", "THRI"}>>,
               <<"FCR", {"RXRST"}>>, <<"LCR", {"DLAB"}>>}
UartStore(p) ==
    /\ Guest(p, "uart")
    /\ \E w \in UartStores :
        /\ Trap(p, IF UpdatesAfterWrite(uart, w[1]) THEN <<Step("update_irq")>> ELSE <<>>)
        /\ uart' = UartWrite(uart, w[1], w[2])
    /\ UNCHANGED <<irqVars, ipiVars, fenceVars, plic, hostRx, ctxVars>>

(* ... and to the PLIC                                                      *)
PlicLoad(p) ==
    /\ Guest(p, "plic")
    /\ Trap(p, <<Step("levels")>>)
    /\ plic' = PlicRead(plic, [reg |-> "claim", ctx |-> cur[p]])
    /\ UNCHANGED <<irqVars, ipiVars, fenceVars, uart, hostRx, ctxVars>>

PlicStores(c) ==
    {[reg |-> "enable", ctx |-> c, val |-> {GuestUartIrq}], [reg |-> "threshold", ctx |-> c, val |-> 1],
     [reg |-> "priority", irq |-> GuestUartIrq, val |-> 0], [reg |-> "pending", val |-> {}]}
PlicStore(p) ==
    /\ Guest(p, "plic")
    /\ Trap(p, <<Step("levels")>>)
    /\ \E w \in PlicStores(cur[p]) : plic' = PlicWrite(plic, w)
    /\ UNCHANGED <<irqVars, ipiVars, fenceVars, uart, hostRx, ctxVars>>

---------------------------------------------------------------------------
Continue(p) ==
    \/ Take(p) \/ Hfence(p) \/ Count(p)
    \/ Yield(p) \/ Requeue(p) \/ Switch(p) \/ Publish(p)
    \/ Materialize(p) \/ TimerRefresh(p)
    \/ FindRunning(p) \/ FindReady(p) \/ Inject(p) \/ Retract(p) \/ Kick(p) \/ SbiSendIpi(p)
    \/ Refresh(p) \/ Levels(p) \/ UartLine(p) \/ UpdateIrq(p) \/ Service(p) \/ IirTx(p)
    \/ Select(p) \/ Fences(p) \/ SyncRead(p) \/ SyncSend(p) \/ SyncSbi(p) \/ SyncDone(p) \/ SyncTimeout(p)

GuestStep(p) ==
    \/ Compute(p) \/ Redirect(p) \/ NoEffect(p) \/ SetTimer(p)
    \/ SendIpi(p) \/ ClearIpi(p) \/ RemoteFence(p)
    \/ UartLoad(p) \/ UartStore(p) \/ PlicLoad(p) \/ PlicStore(p)

(* Boot: smp_boot_secondaries has run, and reset.c has created the first    *)
(* tasks; the kick of a pCPU that was not up yet may be gone                *)
(* (ipi_pcpu_init).                                                         *)
RvInit ==
    /\ menu \in Menus /\ ops = MaxOps
    /\ \E n \in Created : ready = [i \in 1..n |-> i - 1]
    /\ cur = [p \in Cpu |-> NoVcpu]
    /\ started = FALSE
    /\ todo = [p \in Cpu |-> <<>>]
    /\ virq = [v \in Vcpu |-> {}] /\ hvip = [p \in Cpu |-> {}]
    /\ timer = [v \in Vcpu |-> "off"]
    /\ sip \in [Cpu -> BOOLEAN] /\ ~sip[0]
    /\ ipi = [p \in Cpu |-> IF sip[p] THEN {"resched"} ELSE {}]
    /\ done = [p \in Cpu |-> 0]
    /\ sel = [p \in Cpu |-> {}] /\ status = [p \in Cpu |-> "ok"]
    /\ fenced = [p \in Cpu |-> FALSE]
    /\ plic = PlicRegisterEmul /\ uart = UartRegisterEmul
    /\ hostRx = IF "uart" \in menu THEN MaxRx ELSE 0
    /\ raced = FALSE
    /\ csr = [p \in Cpu |-> [vs |-> <<NoVcpu, 0>>, state |-> [u \in Units |-> "initial"],
                             reg |-> [u \in Units |-> <<NoVcpu, 0>>]]]
    /\ ctx = [v \in Vcpu |-> [vs |-> <<v, 0>>, state |-> [u \in Units |-> "initial"],
                              reg |-> [u \in Units |-> <<v, 0>>]]]
    /\ own = [v \in Vcpu |-> [n |-> 0, reg |-> [u \in Units |-> 0]]]

RvNext ==
    \/ \E p \in Cpu : Tick(p) \/ Soft(p) \/ Ext(p) \/ Continue(p) \/ GuestStep(p)
    \/ \E v \in Vcpu : Expire(v)

(* Fairness: a pCPU goes on with its trap, and out of one it is interrupted *)
(* sooner or later: its timer is always armed.                              *)
Proceed(p) == Continue(p) \/ Tick(p) \/ Soft(p)
RvSpec == RvInit /\ [][RvNext]_vars /\ \A p \in Cpu : WF_vars(Proceed(p))

---------------------------------------------------------------------------
(* Types of the shared state                                                *)
RvTypeOK ==
    /\ ready \in Seq(Vcpu)
    /\ cur \in [Cpu -> Vcpu \cup {NoVcpu}]
    /\ started \in BOOLEAN /\ raced \in BOOLEAN
    /\ virq \in [Vcpu -> SUBSET Virq] /\ hvip \in [Cpu -> SUBSET Virq]
    /\ timer \in [Vcpu -> {"off", "armed", "due"}]
    /\ sip \in [Cpu -> BOOLEAN] /\ ipi \in [Cpu -> SUBSET Vec]
    /\ done \in [Cpu -> Nat] /\ fenced \in [Cpu -> BOOLEAN]
    /\ sel \in [Cpu -> SUBSET Cpu] /\ status \in [Cpu -> {"ok", "failed"}]
    /\ plic.pending \subseteq Irq /\ plic.enable \in [Ctx -> SUBSET Irq]
    /\ uart.rx \in 0..FifoSize /\ uart.iir \in {"none", "RDI", "THRI"}

(* The vCPU pCPU p has taken from the list and not yet published            *)
Incoming(p) == {todo[p][i].vcpu : i \in {j \in 1..Len(todo[p]) : todo[p][j].op = "publish"}}

Listed == {ready[i] : i \in 1..Len(ready)}

(* A vCPU is never lost and never in two hands: two pCPUs do not have it    *)
(* current or coming in, it is on the ready list at most once, and it is    *)
(* only ever current or coming in on the pCPU it is pinned to.  (It is both *)
(* ready and current while its pCPU saves it.)  sched_yield puts the        *)
(* outgoing task back before it saves it; the pin makes that safe.          *)
OnePlace ==
    /\ \A i, j \in 1..Len(ready) : ready[i] = ready[j] => i = j
    /\ \E last \in Vcpu :
        (Listed \cup UNION {Incoming(p) \cup {cur[p]} : p \in Cpu}) \ {NoVcpu} = 0..last
    /\ \A p \in Cpu :
        /\ \A v \in Incoming(p) \cup ({cur[p]} \ {NoVcpu}) : Affinity[v] = p
        /\ Incoming(p) \cap Listed = {}
        /\ todo[p] = <<>> => cur[p] \notin Listed

(* An interrupt raised for a vCPU reaches the vCPU: while it runs, HVIP has *)
(* every interrupt of its image, or a software interrupt that will make its *)
(* pCPU copy the image is pending or about to be sent.                      *)
KickComing(p) ==
    \/ sip[p]
    \/ \E q \in Cpu : \E i \in 1..Len(todo[q]) :
            todo[q][i].op \in {"kick", "sbi"} /\ todo[q][i].to = p

HvipCoversImage ==
    \A p \in Cpu, v \in Vcpu : InGuest(p, v) => virq[v] \subseteq hvip[p] \/ KickComing(p)

(* A running vCPU has its own CSRs, and in a unit it has dirty its own      *)
(* registers (riscv_vcpu_context_save and _restore skip a unit that is not  *)
(* dirty, so nothing is said of one that is clean).                         *)
OwnContext ==
    \A p \in Cpu, v \in Vcpu : InGuest(p, v) =>
        /\ csr[p].vs = <<v, own[v].n>>
        /\ \A u \in Units : csr[p].state[u] = "dirty" => csr[p].reg[u] = <<v, own[v].reg[u]>>

(* riscv_ipi_send_cpu_sync reports a fence only when its target has fenced  *)
(* since the call began, or was, when the call began, between an earlier    *)
(* fence and the count of it: then the count of the earlier request is      *)
(* taken for this one's.                                                    *)
FenceDone ==
    \A p \in Cpu : Acknowledged(p) => fenced[p] \/ Now(p).ahead

(* The levels are right when no trap is under way, unless two updates of    *)
(* them have ever overlapped: VSEIP of every vCPU in the lists is what the  *)
(* vPLIC has for it, IIR is what the UART has to say, and a UART with       *)
(* nothing to say has no interrupt pending.                                 *)
LevelSettled ==
    (\A p \in Cpu : todo[p] = <<>>) /\ ~raced =>
        /\ \A v \in Vcpu :
            (v \in Listed \/ \E p \in Cpu : cur[p] = v)
                => ("ext" \in virq[v] <=> HasDeliverable(plic, v))
        /\ uart.iir = Source(uart)
        /\ Source(uart) = "none" => GuestUartIrq \notin plic.pending

(* A vCPU's expired timer interrupts it, running or not: the tick or the    *)
(* switch to it finds it (riscv_timer_refresh), so again and again no vCPU  *)
(* in a scheduler's hands has one that went unnoticed.                      *)
TimerFires == []<>(\A v \in Vcpu : timer[v] = "due" => \A p \in Cpu : cur[p] # v)

(* No pCPU waits for ever in a synchronous IPI, although two that wait for  *)
(* each other have their interrupts masked: again and again nobody waits.   *)
SyncEnds == []<>(\A p \in Cpu : ~At(p, "sync_wait"))
=============================================================================
