--------------------------- MODULE A64CoreProofs ----------------------------
(***************************************************************************)
(* Theorems about A64Core for any number of pCPUs, vCPUs, tasks, vINTIDs    *)
(* and list registers.                                                      *)
(***************************************************************************)
EXTENDS A64Core, SchedSimpleProofs, VGicProofs

(* Where in sched_yield, and in psci_vcpu_on, a pCPU is.                    *)
SwitchPcs == {"publish", "requeue", "save", "restore"}
PsciPcs == {"exists", "create", "find", "bind_mpidr", "bind_any", "bind_cpu", "bind_vcpu"}

(* The locals a handler uses have been set on the way to it.                *)
LocalsOK ==
    \A c \in Cpu :
        /\ pc[c] \in SwitchPcs => nxt[c] \in Task
        /\ pc[c] \in PsciPcs => arg[c] \in Vcpu
        /\ pc[c] = "irm" => arg[c] \in SgiAll

TypeInv == TypeOK /\ LocalsOK

(* sched_yield's locals and g_running agree: before set_current the current *)
(* task is still published, after it the next one is, and they differ.      *)
YieldOK ==
    \A c \in Cpu :
        /\ pc[c] = "publish" => cur[c] = running[c] /\ nxt[c] # running[c]
        /\ pc[c] \in {"requeue", "save", "restore"} => running[c] = nxt[c]
        /\ pc[c] = "requeue" => cur[c] # nxt[c]

(* No pCPU has, and no list holds, a task that was not created yet.         *)
OnlyCreated ==
    /\ ToSet(ready) \subseteq 1..ntask
    /\ \A c \in Cpu : Held(c) \subseteq 1..ntask

OwnerInv == TypeInv /\ OneOwner /\ YieldOK /\ OnlyCreated

(* Outside the switch the registers hold the published task's context.      *)
ContextInv ==
    \A c \in Cpu : pc[c] \notin {"requeue", "save", "restore"} => hw[c] = running[c]

(* Constants of the model that are no tasks, and no vCPUs.                  *)
LEMMA Constants ==
    /\ NoTask \notin Task /\ ListHead \notin Task /\ Wild \notin Task
    /\ NoTarget \notin Vcpu /\ Virq # {} /\ 0 \in Vcpu
BY VcpuAssumption, VirqAssumption DEF NoTask, ListHead, Wild, NoTarget, Task, Vcpu

(* list_for_each_entry yields a task, the list head, or runs off the list.  *)
LEMMA NextEntryType ==
    ASSUME ready \in Seq(Task), NEW x
    PROVE  NextEntry(x) \in Task \cup {ListHead, Wild}
<1>1. ready # <<>> => Head(ready) \in Task
  BY HeadTailProperties
<1>2. ASSUME Contains(ready, x),
             NEW i, i = CHOOSE j \in 1..Len(ready) : ready[j] = x, i # Len(ready)
      PROVE  ready[i + 1] \in Task
  <2>1. i \in 1..Len(ready)
    BY <1>2 DEF Contains
  <2>2. i + 1 \in 1..Len(ready)
    BY <2>1, <1>2, LenProperties
  <2> QED
    BY <2>2, ElementOfSeq
<1> QED
  BY <1>1, <1>2 DEF NextEntry

(* gic_vcpu_inject_virq                                                     *)
LEMMA InjectTyped ==
    ASSUME vq \in [Task -> Seq(Virq)], raised \in [Task -> SUBSET Virq],
           NEW t \in Task, NEW v \in Virq, Inject(t, v)
    PROVE  vq' \in [Task -> Seq(Virq)] /\ raised' \in [Task -> SUBSET Virq]
<1>1. InjectVirq(vq[t], v) \in Seq(Virq)
  BY InjectQueue
<1> QED
  BY <1>1 DEF Inject, Raise

(* gic_vcpu_flush_lr                                                        *)
LEMMA FlushTyped ==
    ASSUME vq \in [Task -> Seq(Virq)], lr \in [Cpu -> Lrs],
           NEW t \in Task, NEW c \in Cpu, FlushLr(c, t)
    PROVE  vq' \in [Task -> Seq(Virq)] /\ lr' \in [Cpu -> Lrs]
<1>1. FlushQueue(vq[t], lr[c]) \in Seq(Virq) /\ FlushLrs(vq[t], lr[c]) \in Lrs
  BY FlushQueueIsTail, FlushLrsType
<1> QED
  BY <1>1 DEF FlushLr

(* Every action preserves the types.                                        *)
LEMMA TypeStep == TypeInv /\ [Next]_vars => TypeInv'
<1> SUFFICES ASSUME TypeInv, [Next]_vars
             PROVE  TypeInv'
  OBVIOUS
<1> USE Constants DEF TypeInv, TypeOK, LocalsOK, Pcs, SwitchPcs, PsciPcs, Goto,
          sched, tasks, virqs, regs, saved, timers, locals
<1>1. ASSUME NEW c \in Cpu, YieldNext(c) PROVE TypeInv'
  <2>1. PICK i \in 1..Len(ready) : nxt' = [nxt EXCEPT ![c] = ready[i]] /\ ready' = RemoveAt(ready, i)
    BY <1>1 DEF YieldNext
  <2>2. ready' \in Seq(Task) /\ ready[i] \in Task
    <3>1. RemoveAt(ready, i) \in Seq(Task)
      BY RemoveAtEntries
    <3> QED
      BY <2>1, <3>1, ElementOfSeq
  <2> QED
    BY <1>1, <2>1, <2>2 DEF YieldNext
<1>2. ASSUME NEW c \in Cpu, YieldStay(c) PROVE TypeInv'
  <2>1. lr' \in [Cpu -> Lrs] /\ vq' \in [Task -> Seq(Virq)]
    <3>1. CASE running[c] = NoTask
      BY <1>2, <3>1 DEF YieldStay
    <3>2. CASE running[c] # NoTask
      <4>1. running[c] \in Task /\ FlushLr(c, running[c])
        BY <1>2, <3>2 DEF YieldStay
      <4> QED
        BY <4>1, FlushTyped
    <3> QED
      BY <3>1, <3>2
  <2> QED
    BY <1>2, <2>1 DEF YieldStay, AfterYield
<1>3. ASSUME NEW c \in Cpu, Publish(c) PROVE TypeInv'
  BY <1>3 DEF Publish
<1>4. ASSUME NEW c \in Cpu, Requeue(c) PROVE TypeInv'
  BY <1>4, InsertType DEF Requeue, Kick, SendSgiHost
<1>5. ASSUME NEW c \in Cpu, SwitchSave(c) PROVE TypeInv'
  <2>1. slr' \in [Task -> Lrs]
    <3>1. CASE cur[c] = NoTask
      <4>1. slr' = slr
        BY <1>5, <3>1 DEF SwitchSave
      <4> QED
        BY <4>1
    <3>2. CASE cur[c] # NoTask
      <4>1. slr' = [slr EXCEPT ![cur[c]] = lr[c]]
        BY <1>5, <3>2 DEF SwitchSave, GicVcpuSave
      <4> QED
        BY <4>1
    <3> QED
      BY <3>1, <3>2
  <2> QED
    BY <1>5, <2>1 DEF SwitchSave, VcpuContextSave
<1>6. ASSUME NEW c \in Cpu, SwitchRestore(c) PROVE TypeInv'
  BY <1>6, FlushLrsType, FlushQueueIsTail DEF SwitchRestore, VcpuContextRestore, GicVcpuRestore, AfterYield
<1>7. ASSUME NEW c \in Cpu, IrqIpi(c) PROVE TypeInv'
  BY <1>7 DEF IrqIpi
<1>8. ASSUME NEW c \in Cpu, IrqHypTimer(c) PROVE TypeInv'
  BY <1>8 DEF IrqHypTimer
<1>9. ASSUME NEW c \in Cpu, IrqVirtTimer(c) PROVE TypeInv'
  BY <1>9, InjectQueue, VirqAssumption DEF IrqVirtTimer, Inject, Raise, NoRoom
<1>10. ASSUME NEW c \in Cpu, SgiAllStep(c) PROVE TypeInv'
  <2> DEFINE n == NextEntry(it[c])
  <2>1. n \in Task \cup {ListHead, Wild}
    BY NextEntryType
  <2> HIDE DEF n
  <2>2. virqs' = virqs \/ (n \in Task /\ Inject(n, arg[c]))
    BY <1>10 DEF SgiAllStep, n
  <2>3. vq' \in [Task -> Seq(Virq)] /\ raised' \in [Task -> SUBSET Virq]
    <3>1. arg[c] \in Virq
      BY <1>10, VirqAssumption DEF SgiAllStep
    <3> QED
      BY <2>2, <3>1, InjectTyped
  <2>4. /\ it' = [it EXCEPT ![c] = IF n \in Task THEN n ELSE ListHead]
        /\ arg' = [arg EXCEPT ![c] = IF n \in Task THEN @ ELSE NoTarget]
        /\ pc' = [pc EXCEPT ![c] = IF n = Wild THEN "hung" ELSE IF n = ListHead THEN "guest" ELSE "irm"]
    BY <1>10 DEF SgiAllStep, n
  <2> QED
    BY <1>10, <2>1, <2>3, <2>4 DEF SgiAllStep
<1>11. ASSUME NEW c \in Cpu, CpuOnExists(c) PROVE TypeInv'
  <2> DEFINE n == NextEntry(it[c])
  <2>1. n \in Task \cup {ListHead, Wild}
    BY NextEntryType
  <2>2. \/ Goto(c, "hung") /\ UNCHANGED <<it, arg>>
        \/ Goto(c, "create") /\ UNCHANGED <<it, arg>>
        \/ PsciReturn(c)
        \/ n \in Task /\ it' = [it EXCEPT ![c] = n] /\ UNCHANGED <<pc, arg>>
    BY <1>11 DEF CpuOnExists, Walk, HyperSync
  <2> HIDE DEF n
  <2> QED
    <3>1. CASE Goto(c, "hung") /\ UNCHANGED <<it, arg>>
      BY <1>11, <3>1 DEF CpuOnExists
    <3>2. CASE Goto(c, "create") /\ UNCHANGED <<it, arg>>
      BY <1>11, <3>2 DEF CpuOnExists
    <3>3. CASE PsciReturn(c)
      BY <1>11, <3>3 DEF CpuOnExists, PsciReturn
    <3>4. CASE n \in Task /\ it' = [it EXCEPT ![c] = n] /\ UNCHANGED <<pc, arg>>
      BY <1>11, <3>4 DEF CpuOnExists
    <3> QED
      BY <2>2, <3>1, <3>2, <3>3, <3>4
<1>12. ASSUME NEW c \in Cpu, CpuOnCreate(c) PROVE TypeInv'
  <2>1. CASE PsciReturn(c) /\ UNCHANGED <<ready, ipi, ntask>>
    BY <1>12, <2>1 DEF CpuOnCreate, VmCreateVcpuTask, PsciReturn
  <2>2. CASE /\ ntask < NTask /\ ntask' = ntask + 1
             /\ Insert(ready, Prio, ntask', ready')
             /\ ipi' = Kick(c, affinity[ntask'])
             /\ it' = [it EXCEPT ![c] = ListHead]
             /\ Goto(c, "find")
             /\ UNCHANGED arg
    <3>1. ntask' \in Task
      BY <2>2, TaskAssumption DEF Task
    <3>2. ready' \in Seq(Task)
      BY <2>2, <3>1, InsertType
    <3>3. ipi' \in [Cpu -> BOOLEAN]
      BY <2>2 DEF Kick, SendSgiHost
    <3> QED
      BY <1>12, <2>2, <3>1, <3>2, <3>3 DEF CpuOnCreate, VmCreateVcpuTask
  <2> QED
    BY <1>12, <2>1, <2>2 DEF CpuOnCreate, VmCreateVcpuTask
<1>13. ASSUME NEW c \in Cpu, CpuOnFind(c) PROVE TypeInv'
  <2> DEFINE n == NextEntry(it[c])
  <2>1. n \in Task \cup {ListHead, Wild}
    BY NextEntryType
  <2>2. \/ Goto(c, "hung") /\ UNCHANGED <<it, arg>>
        \/ n \in Task /\ it' = [it EXCEPT ![c] = n] /\ Goto(c, "bind_mpidr") /\ UNCHANGED arg
        \/ PsciReturn(c)
        \/ n \in Task /\ it' = [it EXCEPT ![c] = n] /\ UNCHANGED <<pc, arg>>
    BY <1>13 DEF CpuOnFind, Walk, HyperSync
  <2> HIDE DEF n
  <2> QED
    <3>1. CASE Goto(c, "hung") /\ UNCHANGED <<it, arg>>
      BY <1>13, <3>1 DEF CpuOnFind
    <3>2. CASE n \in Task /\ it' = [it EXCEPT ![c] = n] /\ Goto(c, "bind_mpidr") /\ UNCHANGED arg
      BY <1>13, <3>2 DEF CpuOnFind
    <3>3. CASE PsciReturn(c)
      BY <1>13, <3>3 DEF CpuOnFind, PsciReturn
    <3>4. CASE n \in Task /\ it' = [it EXCEPT ![c] = n] /\ UNCHANGED <<pc, arg>>
      BY <1>13, <3>4 DEF CpuOnFind
    <3> QED
      BY <2>2, <3>1, <3>2, <3>3, <3>4
<1>14. ASSUME NEW c \in Cpu, BindMpidr(c) PROVE TypeInv'
  BY <1>14 DEF BindMpidr
<1>15. ASSUME NEW c \in Cpu, BindAny(c) PROVE TypeInv'
  BY <1>15 DEF BindAny
<1>16. ASSUME NEW c \in Cpu, BindCpu(c) PROVE TypeInv'
  BY <1>16 DEF BindCpu
<1>17. ASSUME NEW c \in Cpu, BindVcpu(c) PROVE TypeInv'
  BY <1>17 DEF BindVcpu, PsciReturn
<1>18. ASSUME NEW c \in Cpu, HvcOther(c) PROVE TypeInv'
  BY <1>18 DEF HvcOther, InGuest
<1>19. ASSUME NEW c \in Cpu, UartRaise(c)
       PROVE  /\ lr' \in [Cpu -> Lrs] /\ vq' \in [Task -> Seq(Virq)]
              /\ raised' \in [Task -> SUBSET Virq]
  <2> DEFINE q(t) == InjectVirq(vq[t], UartIrq)
  <2>1. PICK t \in Task :
          /\ raised' = [raised EXCEPT ![t] = IF NoRoom(t, UartIrq) THEN @ ELSE @ \cup {UartIrq}]
          /\ \/ /\ lr' = [lr EXCEPT ![c] = FlushLrs(q(t), @)]
                /\ vq' = [vq EXCEPT ![t] = FlushQueue(q(t), lr[c])]
             \/ vq' = [vq EXCEPT ![t] = q(t)] /\ UNCHANGED lr
    BY <1>19 DEF UartRaise, Raise
  <2>2. UartIrq \in Virq
    BY VirqAssumption
  <2>3. q(t) \in Seq(Virq)
    BY <2>2, InjectQueue
  <2>4. FlushQueue(q(t), lr[c]) \in Seq(Virq) /\ FlushLrs(q(t), lr[c]) \in Lrs
    BY <2>3, FlushQueueIsTail, FlushLrsType
  <2> HIDE DEF q
  <2>5. raised' \in [Task -> SUBSET Virq]
    BY <2>1, <2>2
  <2>6. lr' \in [Cpu -> Lrs]
    BY <2>1, <2>4
  <2>7. vq' \in [Task -> Seq(Virq)]
    BY <2>1, <2>3, <2>4
  <2> QED
    BY <2>5, <2>6, <2>7
<1>20. ASSUME NEW c \in Cpu, UartPoll(c) PROVE TypeInv'
  <2>1. /\ lr' \in [Cpu -> Lrs] /\ vq' \in [Task -> Seq(Virq)]
        /\ raised' \in [Task -> SUBSET Virq]
    BY <1>19, <1>20 DEF UartPoll
  <2> QED
    BY <1>20, <2>1 DEF UartPoll
<1>21. ASSUME NEW c \in Cpu, IrqUart(c) PROVE TypeInv'
  <2>1. /\ lr' \in [Cpu -> Lrs] /\ vq' \in [Task -> Seq(Virq)]
        /\ raised' \in [Task -> SUBSET Virq]
    BY <1>19, <1>21 DEF IrqUart
  <2> QED
    BY <1>21, <2>1 DEF IrqUart
<1>22. ASSUME NEW c \in Cpu, NEW m \in Vcpu, NEW v \in Sgi, GuestSgi(c, m, v)
       PROVE  TypeInv'
  <2>1. vq' \in [Task -> Seq(Virq)] /\ raised' \in [Task -> SUBSET Virq]
    BY <1>22, InjectTyped, VirqAssumption DEF GuestSgi
  <2> QED
    BY <1>22, <2>1 DEF GuestSgi
<1>23. ASSUME NEW c \in Cpu, NEW v \in SgiAll, GuestSgiAll(c, v) PROVE TypeInv'
  BY <1>23 DEF GuestSgiAll
<1>24. ASSUME NEW c \in Cpu, NEW m \in Vcpu, HvcCpuOn(c, m) PROVE TypeInv'
  <2>1. CASE Goto(c, "next") /\ UNCHANGED <<it, arg>>
    BY <1>24, <2>1 DEF HvcCpuOn
  <2>2. CASE /\ it' = [it EXCEPT ![c] = ListHead]
             /\ arg' = [arg EXCEPT ![c] = m]
             /\ Goto(c, "exists")
    BY <1>24, <2>2 DEF HvcCpuOn
  <2> QED
    BY <1>24, <2>1, <2>2 DEF HvcCpuOn
<1>25. ASSUME NEW c \in Cpu, NEW i \in 1..NLr, GuestAck(c, i) PROVE TypeInv'
  <2>1. lr' \in [Cpu -> Lrs]
    <3>1. [lr[c] EXCEPT ![i].state = "active"] \in Lrs
      BY AckType
    <3>2. lr' = [lr EXCEPT ![c] = [lr[c] EXCEPT ![i].state = "active"]]
      BY <1>25 DEF GuestAck
    <3> HIDE DEF TypeInv, TypeOK, LocalsOK
    <3>3. lr \in [Cpu -> Lrs]
      BY DEF TypeInv, TypeOK
    <3> QED
      BY <3>1, <3>2, <3>3
  <2>2. raised' \in [Task -> SUBSET Virq]
    BY <1>25 DEF GuestAck
  <2> QED
    BY <1>25, <2>1, <2>2 DEF GuestAck
<1>26. ASSUME NEW c \in Cpu, NEW i \in 1..NLr, GuestEoi(c, i) PROVE TypeInv'
  <2>1. lr' \in [Cpu -> Lrs]
    BY <1>26, ZeroLrsType DEF GuestEoi, Lrs
  <2> QED
    BY <1>26, <2>1 DEF GuestEoi
<1>27. CASE UNCHANGED vars
  BY <1>27 DEF vars
<1> QED
  BY <1>1, <1>2, <1>3, <1>4, <1>5, <1>6, <1>7, <1>8, <1>9, <1>10, <1>11, <1>12, <1>13,
     <1>14, <1>15, <1>16, <1>17, <1>18, <1>20, <1>21, <1>22, <1>23, <1>24, <1>25, <1>26, <1>27
  DEF Next, Yield, Irq, Psci, Guest

(* The state after create_task, with one task on the ready list and every   *)
(* pCPU idle, has the types.                                                *)
LEMMA TypeInit == Init => TypeInv
<1> SUFFICES ASSUME Init PROVE TypeInv
  OBVIOUS
<1>1. 1 \in Task /\ 0 \in Vcpu /\ <<1>> \in Seq(Task)
  BY TaskAssumption, VcpuAssumption DEF Task, Vcpu
<1>2. ZeroLrs \in Lrs
  BY Constants, ZeroLrsType
<1>3. <<>> \in Seq(Virq)
  BY EmptySeq
<1> QED
  BY <1>1, <1>2, <1>3 DEF Init, TypeInv, TypeOK, LocalsOK, Pcs, SwitchPcs, PsciPcs

(* The variables of A64Core keep their types, and no handler uses a local   *)
(* that was not set: sched_yield never switches to a NULL task.             *)
THEOREM TypeCorrect == Spec => []TypeOK
<1>1. TypeInv => TypeOK
  BY DEF TypeInv
<1> QED
  BY TypeInit, TypeStep, <1>1, PTL DEF Spec

-----------------------------------------------------------------------------
(* One owner per task                                                       *)

(* A step of pCPU c that stays out of the switch and leaves the list,       *)
(* g_running and the registers' owner alone.                                *)
Quiet(c) ==
    /\ pc[c] \notin SwitchPcs
    /\ \E label : label \notin SwitchPcs /\ pc' = [pc EXCEPT ![c] = label]
    /\ UNCHANGED <<ready, running, ntask, cur, nxt, hw>>

(* It moves no task.                                                        *)
LEMMA QuietStep ==
    ASSUME OwnerInv, NEW c \in Cpu, Quiet(c)
    PROVE  OneOwner' /\ YieldOK' /\ OnlyCreated'
<1>0. PICK label : label \notin SwitchPcs /\ pc' = [pc EXCEPT ![c] = label]
  BY DEF Quiet
<1>1. \A d \in Cpu : pc'[d] = IF d = c THEN label ELSE pc[d]
  BY <1>0 DEF OwnerInv, TypeInv, TypeOK
<1>2. \A d \in Cpu : Held(d)' = Held(d)
  BY <1>0, <1>1 DEF Held, SwitchPcs, Quiet
<1>3. OneOwner'
  BY <1>2 DEF OwnerInv, OneOwner, Quiet
<1>4. OnlyCreated'
  BY <1>2 DEF OwnerInv, OnlyCreated, Quiet
<1>5. YieldOK'
  BY <1>0, <1>1 DEF OwnerInv, YieldOK, SwitchPcs, Quiet
<1> QED
  BY <1>3, <1>4, <1>5

(* Every handler but sched_yield and create_task2 is quiet.                 *)
LEMMA QuietActions ==
    ASSUME TypeInv, NEW c \in Cpu,
           \/ YieldStay(c) \/ Irq(c) \/ SgiAllStep(c) \/ Guest(c)
           \/ CpuOnExists(c) \/ CpuOnFind(c)
           \/ BindMpidr(c) \/ BindAny(c) \/ BindCpu(c) \/ BindVcpu(c)
    PROVE  Quiet(c)
<1>0. pc \in [Cpu -> Pcs] /\ pc = [pc EXCEPT ![c] = pc[c]]
  BY DEF TypeInv, TypeOK
<1> USE DEF Quiet, SwitchPcs, Goto, sched, tasks, locals, regs
<1>1. CASE YieldStay(c)
  BY <1>1 DEF YieldStay, AfterYield
<1>2. CASE Irq(c)
  BY <1>0, <1>2 DEF Irq, IrqIpi, IrqHypTimer, IrqVirtTimer, UartPoll, IrqUart
<1>3. CASE SgiAllStep(c)
  BY <1>3 DEF SgiAllStep
<1>4. CASE Guest(c)
  <2>1. ASSUME NEW m, HvcCpuOn(c, m) PROVE Quiet(c)
    BY <2>1 DEF HvcCpuOn, InGuest
  <2>2. ASSUME NEW m, NEW v, GuestSgi(c, m, v) PROVE Quiet(c)
    BY <1>0, <2>2 DEF GuestSgi, InGuest
  <2>3. ASSUME NEW v, GuestSgiAll(c, v) PROVE Quiet(c)
    BY <2>3 DEF GuestSgiAll, InGuest
  <2>4. CASE HvcOther(c)
    BY <2>4 DEF HvcOther, InGuest
  <2>5. ASSUME NEW i, GuestAck(c, i) \/ GuestEoi(c, i) PROVE Quiet(c)
    BY <1>0, <2>5 DEF GuestAck, GuestEoi, InGuest
  <2> QED
    BY <1>4, <2>1, <2>2, <2>3, <2>4, <2>5 DEF Guest
<1>5. CASE CpuOnExists(c)
  <2>1. \E label \in {"hung", "create", "next", "exists"} : pc' = [pc EXCEPT ![c] = label]
    BY <1>0, <1>5 DEF CpuOnExists, Walk, HyperSync, PsciReturn
  <2> QED
    BY <1>5, <2>1 DEF CpuOnExists
<1>6. CASE CpuOnFind(c)
  <2>1. \E label \in {"hung", "bind_mpidr", "next", "find"} : pc' = [pc EXCEPT ![c] = label]
    BY <1>0, <1>6 DEF CpuOnFind, Walk, HyperSync, PsciReturn
  <2> QED
    BY <1>6, <2>1 DEF CpuOnFind
<1>7. CASE BindMpidr(c) \/ BindAny(c) \/ BindCpu(c) \/ BindVcpu(c)
  BY <1>7 DEF BindMpidr, BindAny, BindCpu, BindVcpu, PsciReturn
<1> QED
  BY <1>1, <1>2, <1>3, <1>4, <1>5, <1>6, <1>7

(* simple_scheduler_next: the task moves from the list into pCPU c's hands  *)
LEMMA NextMoves ==
    ASSUME OwnerInv, NEW c \in Cpu, YieldNext(c)
    PROVE  OneOwner' /\ YieldOK' /\ OnlyCreated'
<1>0. /\ ready \in Seq(Task) /\ pc \in [Cpu -> Pcs]
      /\ nxt \in [Cpu -> Task \cup {NoTask}] /\ cur \in [Cpu -> Task \cup {NoTask}]
      /\ IsInjective(ready)
  BY DEF OwnerInv, TypeInv, TypeOK, OneOwner
<1>1. PICK i \in 1..Len(ready) : nxt' = [nxt EXCEPT ![c] = ready[i]] /\ ready' = RemoveAt(ready, i)
  BY DEF YieldNext
<1>2. IsInjective(ready') /\ ToSet(ready') = ToSet(ready) \ {ready[i]}
  <2>1. IsInjective(RemoveAt(ready, i)) /\ ToSet(RemoveAt(ready, i)) = ToSet(ready) \ {ready[i]}
    BY <1>0, RemoveKeepsUnique
  <2> QED
    BY <1>1, <2>1
<1>3. ready[i] \in ToSet(ready) /\ ready[i] \in Task
  BY <1>0, ElementOfSeq, LenProperties DEF ToSet
<1>4. /\ pc[c] = "next" /\ pc' = [pc EXCEPT ![c] = "publish"]
      /\ cur' = [cur EXCEPT ![c] = running[c]]
      /\ running' = running /\ ntask' = ntask
  BY DEF YieldNext, Goto, tasks
<1>5. Held(c)' = (Held(c) \cup {ready[i]}) /\ \A d \in Cpu : d # c => Held(d)' = Held(d)
  BY <1>0, <1>1, <1>3, <1>4, Constants DEF Held
<1>6. OneOwner'
  <2>1. \A d \in Cpu : Held(d)' \cap ToSet(ready') = {}
    BY <1>2, <1>5 DEF OwnerInv, OneOwner
  <2>2. \A d, e \in Cpu : d # e => Held(d)' \cap Held(e)' = {}
    BY <1>3, <1>5 DEF OwnerInv, OneOwner
  <2> QED
    BY <1>2, <2>1, <2>2 DEF OneOwner
<1>7. OnlyCreated'
  BY <1>2, <1>3, <1>4, <1>5 DEF OwnerInv, OnlyCreated
<1>8. YieldOK'
  <2>1. ready[i] # running[c]
    BY <1>3, Constants DEF OwnerInv, OneOwner, Held
  <2> QED
    BY <2>1, <1>0, <1>1, <1>4 DEF OwnerInv, YieldOK
<1> QED
  BY <1>6, <1>7, <1>8

(* set_current: both tasks stay in pCPU c's hands                           *)
LEMMA PublishMoves ==
    ASSUME OwnerInv, NEW c \in Cpu, Publish(c)
    PROVE  OneOwner' /\ YieldOK' /\ OnlyCreated'
<1>1. /\ pc \in [Cpu -> Pcs] /\ running \in [Cpu -> Task \cup {NoTask}]
      /\ cur[c] = running[c] /\ nxt[c] # running[c] /\ pc[c] = "publish"
      /\ pc' = [pc EXCEPT ![c] = "requeue"] /\ running' = [running EXCEPT ![c] = nxt[c]]
      /\ ready' = ready /\ ntask' = ntask /\ cur' = cur /\ nxt' = nxt
  BY DEF OwnerInv, TypeInv, TypeOK, YieldOK, Publish, Goto, tasks, locals
<1>2. \A d \in Cpu : Held(d)' = Held(d)
  BY <1>1 DEF Held
<1>3. OneOwner' /\ OnlyCreated'
  BY <1>1, <1>2 DEF OwnerInv, OneOwner, OnlyCreated
<1>4. YieldOK'
  BY <1>1 DEF OwnerInv, YieldOK
<1> QED
  BY <1>3, <1>4

(* simple_scheduler_sched(current): the outgoing task goes back on the list *)
LEMMA RequeueMoves ==
    ASSUME OwnerInv, NEW c \in Cpu, Requeue(c)
    PROVE  OneOwner' /\ YieldOK' /\ OnlyCreated'
<1>1. /\ pc \in [Cpu -> Pcs] /\ ready \in Seq(Task) /\ cur \in [Cpu -> Task \cup {NoTask}]
      /\ running[c] = nxt[c] /\ cur[c] # nxt[c] /\ pc[c] = "requeue"
      /\ pc' = [pc EXCEPT ![c] = "save"]
      /\ running' = running /\ ntask' = ntask /\ cur' = cur /\ nxt' = nxt
  BY DEF OwnerInv, TypeInv, TypeOK, YieldOK, Requeue, Goto, tasks, locals
<1>2. Held(c)' = Held(c) \ {cur[c]} /\ \A d \in Cpu : d # c => Held(d)' = Held(d)
  BY <1>1 DEF Held
<1>3. YieldOK'
  BY <1>1 DEF OwnerInv, YieldOK
<1>4. CASE cur[c] = NoTask
  <2>1. ready' = ready
    BY <1>4 DEF Requeue
  <2> QED
    BY <1>1, <1>2, <1>3, <2>1 DEF OwnerInv, OneOwner, OnlyCreated
<1>5. CASE cur[c] # NoTask
  <2>1. cur[c] \in Task /\ cur[c] \in Held(c) /\ Insert(ready, Prio, cur[c], ready')
    BY <1>1, <1>5 DEF Requeue, Held
  <2>2. IsInjective(ready') /\ ToSet(ready') = ToSet(ready) \cup {cur[c]}
    BY <1>1, <2>1, InsertKeepsUnique DEF OwnerInv, OneOwner
  <2>3. \A d \in Cpu : Held(d)' \cap ToSet(ready') = {}
    BY <1>2, <2>1, <2>2 DEF OwnerInv, OneOwner
  <2>4. \A d, e \in Cpu : d # e => Held(d)' \cap Held(e)' = {}
    BY <1>2 DEF OwnerInv, OneOwner
  <2>5. OnlyCreated'
    BY <1>1, <1>2, <2>1, <2>2 DEF OwnerInv, OnlyCreated
  <2> QED
    BY <1>3, <2>2, <2>3, <2>4, <2>5 DEF OneOwner
<1> QED
  BY <1>4, <1>5

(* __el2_switch_to moves no task                                            *)
LEMMA SwitchMoves ==
    ASSUME OwnerInv, NEW c \in Cpu, SwitchSave(c) \/ SwitchRestore(c)
    PROVE  OneOwner' /\ YieldOK' /\ OnlyCreated'
<1>1. /\ pc \in [Cpu -> Pcs] /\ ready' = ready /\ running' = running /\ ntask' = ntask
      /\ cur \in [Cpu -> Task \cup {NoTask}] /\ nxt \in [Cpu -> Task \cup {NoTask}]
      /\ pc[c] \in {"save", "restore"}
  BY DEF OwnerInv, TypeInv, TypeOK, SwitchSave, VcpuContextSave, GicVcpuSave, SwitchRestore, VcpuContextRestore, GicVcpuRestore, sched, tasks
<1>2. /\ pc'[c] \in {"restore", "uart", "guest"}
      /\ pc'[c] = "restore" => nxt' = nxt
      /\ \A d \in Cpu : d # c => pc'[d] = pc[d] /\ cur'[d] = cur[d] /\ nxt'[d] = nxt[d]
  BY <1>1 DEF SwitchSave, VcpuContextSave, GicVcpuSave, SwitchRestore, VcpuContextRestore, GicVcpuRestore, Goto, AfterYield, locals
<1>3. \A d \in Cpu : Held(d)' = Held(d)
  BY <1>1, <1>2 DEF Held
<1>4. OneOwner' /\ OnlyCreated'
  BY <1>1, <1>3 DEF OwnerInv, OneOwner, OnlyCreated
<1>5. YieldOK'
  BY <1>1, <1>2 DEF OwnerInv, YieldOK
<1> QED
  BY <1>4, <1>5

(* create_task2 puts a task on the list that was nowhere before             *)
LEMMA CreateMoves ==
    ASSUME OwnerInv, NEW c \in Cpu, CpuOnCreate(c)
    PROVE  OneOwner' /\ YieldOK' /\ OnlyCreated'
<1>1. CASE PsciReturn(c) /\ UNCHANGED <<ready, ipi, ntask>>
  BY <1>1, QuietStep DEF CpuOnCreate, VmCreateVcpuTask, PsciReturn, Goto, SwitchPcs, Quiet, regs
<1>2. CASE /\ ntask < NTask /\ ntask' = ntask + 1
           /\ Insert(ready, Prio, ntask', ready')
           /\ Goto(c, "find")
  <2>1. /\ ready \in Seq(Task) /\ pc \in [Cpu -> Pcs] /\ ntask \in Task
        /\ pc[c] = "create" /\ running' = running /\ cur' = cur /\ nxt' = nxt
        /\ pc' = [pc EXCEPT ![c] = "find"]
    BY <1>2 DEF OwnerInv, TypeInv, TypeOK, CpuOnCreate, VmCreateVcpuTask, Goto
  <2>2. /\ ntask' \in Task /\ ntask' \notin 1..ntask
        /\ 1..ntask' = 1..ntask \cup {ntask'}
    BY <1>2, <2>1, TaskAssumption DEF Task
  <2>3. \A d \in Cpu : Held(d)' = Held(d)
    BY <2>1 DEF Held
  <2>4. ntask' \notin ToSet(ready)
    BY <2>2 DEF OwnerInv, OnlyCreated
  <2>5. IsInjective(ready') /\ ToSet(ready') = ToSet(ready) \cup {ntask'}
    BY <1>2, <2>1, <2>2, <2>4, InsertKeepsUnique DEF OwnerInv, OneOwner
  <2>6. \A d \in Cpu : ntask' \notin Held(d)
    BY <2>2 DEF OwnerInv, OnlyCreated
  <2>7. OneOwner'
    BY <2>3, <2>5, <2>6 DEF OwnerInv, OneOwner
  <2>8. OnlyCreated'
    BY <2>2, <2>3, <2>5 DEF OwnerInv, OnlyCreated
  <2>9. YieldOK'
    BY <2>1 DEF OwnerInv, YieldOK
  <2> QED
    BY <2>7, <2>8, <2>9
<1> QED
  BY <1>1, <1>2 DEF CpuOnCreate, VmCreateVcpuTask

(* At the end of boot vCPU0's task is on the ready list and nobody holds it. *)
LEMMA OwnerInit == Init => OwnerInv
<1> SUFFICES ASSUME Init PROVE OwnerInv
  OBVIOUS
<1>1. TypeInv
  BY TypeInit
<1>2. IsInjective(ready) /\ ToSet(ready) = {1}
  BY DEF Init, IsInjective, ToSet
<1>3. \A c \in Cpu : Held(c) = {}
  BY DEF Init, Held
<1>4. 1..ntask = {1}
  BY DEF Init
<1> QED
  BY <1>1, <1>2, <1>3, <1>4 DEF Init, OwnerInv, OneOwner, YieldOK, OnlyCreated

(* Ownership is preserved: YieldNext, Publish, Requeue, the switch and      *)
(* CpuOnCreate move a task, all other steps leave lists and holders alone.  *)
LEMMA OwnerStep == OwnerInv /\ [Next]_vars => OwnerInv'
<1> SUFFICES ASSUME OwnerInv, [Next]_vars
             PROVE  OwnerInv'
  OBVIOUS
<1>1. TypeInv /\ TypeInv'
  BY TypeStep DEF OwnerInv
<1>2. CASE UNCHANGED vars
  BY <1>1, <1>2 DEF OwnerInv, OneOwner, YieldOK, OnlyCreated, Held, vars
<1>3. ASSUME NEW c \in Cpu, Yield(c) PROVE OneOwner' /\ YieldOK' /\ OnlyCreated'
  BY <1>1, <1>3, NextMoves, PublishMoves, RequeueMoves, SwitchMoves, QuietActions, QuietStep
  DEF Yield
<1>4. ASSUME NEW c \in Cpu, Psci(c) PROVE OneOwner' /\ YieldOK' /\ OnlyCreated'
  BY <1>1, <1>4, CreateMoves, QuietActions, QuietStep DEF Psci
<1>5. ASSUME NEW c \in Cpu, Irq(c) \/ SgiAllStep(c) \/ Guest(c)
      PROVE  OneOwner' /\ YieldOK' /\ OnlyCreated'
  BY <1>1, <1>5, QuietActions, QuietStep
<1> QED
  BY <1>1, <1>2, <1>3, <1>4, <1>5 DEF Next, OwnerInv

(* A task is on the ready list once, or in the hands of one pCPU, although  *)
(* sched_yield takes it off the list before it publishes it and psci_vcpu_on *)
(* creates tasks beside it.                                                 *)
THEOREM TaskHasOneOwner == Spec => []OneOwner
<1>1. OwnerInv => OneOwner
  BY DEF OwnerInv
<1> QED
  BY OwnerInit, OwnerStep, <1>1, PTL DEF Spec

-----------------------------------------------------------------------------
(* Context and queues                                                       *)

(* ContextInv is preserved: only sched_yield changes g_running and the EL1  *)
(* registers, and from publish to restore it does not return to the guest.  *)
LEMMA ContextStep == OwnerInv /\ ContextInv /\ [Next]_vars => ContextInv'
<1> SUFFICES ASSUME OwnerInv, ContextInv, [Next]_vars
             PROVE  ContextInv'
  OBVIOUS
<1>0. /\ TypeInv /\ pc \in [Cpu -> Pcs] /\ hw \in [Cpu -> Task \cup {NoTask}]
      /\ running \in [Cpu -> Task \cup {NoTask}]
  BY DEF OwnerInv, TypeInv, TypeOK
<1>1. CASE UNCHANGED vars
  BY <1>1 DEF ContextInv, vars
<1>2. ASSUME NEW c \in Cpu, Quiet(c) PROVE ContextInv'
  BY <1>0, <1>2 DEF Quiet, ContextInv, SwitchPcs
<1>3. ASSUME NEW c \in Cpu, YieldNext(c) PROVE ContextInv'
  BY <1>0, <1>3 DEF YieldNext, Goto, ContextInv, regs
<1>4. ASSUME NEW c \in Cpu, Publish(c) PROVE ContextInv'
  BY <1>0, <1>4 DEF Publish, Goto, ContextInv, regs
<1>5. ASSUME NEW c \in Cpu, Requeue(c) PROVE ContextInv'
  BY <1>0, <1>5 DEF Requeue, Goto, ContextInv, regs
<1>6. ASSUME NEW c \in Cpu, SwitchSave(c) PROVE ContextInv'
  BY <1>0, <1>6 DEF SwitchSave, VcpuContextSave, GicVcpuSave, Goto, ContextInv, sched
<1>7. ASSUME NEW c \in Cpu, SwitchRestore(c) PROVE ContextInv'
  BY <1>0, <1>7 DEF SwitchRestore, VcpuContextRestore, GicVcpuRestore, Goto, ContextInv, sched, OwnerInv, YieldOK
<1>8. ASSUME NEW c \in Cpu, CpuOnCreate(c) PROVE ContextInv'
  BY <1>0, <1>8 DEF CpuOnCreate, VmCreateVcpuTask, PsciReturn, Goto, ContextInv, regs
<1> QED
  BY <1>0, <1>1, <1>2, <1>3, <1>4, <1>5, <1>6, <1>7, <1>8, QuietActions
  DEF Next, Yield, Psci

(* Whenever a pCPU leaves EL2 its registers hold the context of the task it *)
(* has published in g_running: __el2_switch_to is never skipped or done for *)
(* another task than the one sched_yield chose.                             *)
THEOREM GuestRunsOwnContext == Spec => []GuestOwnContext
<1>1. Init => ContextInv
  BY DEF Init, ContextInv
<1>2. OwnerInv /\ ContextInv => GuestOwnContext
  BY DEF ContextInv, GuestOwnContext
<1> QED
  BY OwnerInit, OwnerStep, ContextStep, <1>1, <1>2, PTL DEF Spec

(* A step changes one queue at most, by an injection, a flush, or both.     *)
QueueStep ==
    \/ vq' = vq
    \/ \E t \in Task, q \in Seq(Virq) : GoodQueue(q) /\ vq' = [vq EXCEPT ![t] = q]

(* Every step of the hypervisor and of the guest treats the vIRQ queues as  *)
(* gic_vcpu_inject_virq and gic_vcpu_flush_lr do.                           *)
LEMMA QueueActions ==
    ASSUME TypeInv, QueueOK, [Next]_vars
    PROVE  QueueStep
<1>0. vq \in [Task -> Seq(Virq)] /\ \A t \in Task : GoodQueue(vq[t])
  BY DEF TypeInv, TypeOK, QueueOK, GoodQueue
<1>mem. \A q : GoodQueue(q) => q \in Seq(Virq)
  BY DEF GoodQueue
<1>1. ASSUME NEW t \in Task, NEW v \in Virq, Inject(t, v) PROVE QueueStep
  <2>1. GoodQueue(InjectVirq(vq[t], v)) /\ InjectVirq(vq[t], v) \in Seq(Virq)
    BY <1>0, InjectQueue
  <2> QED
    BY <1>1, <2>1 DEF Inject, QueueStep
<1>2. ASSUME NEW t \in Task, NEW l, vq' = [vq EXCEPT ![t] = FlushQueue(vq[t], l)]
      PROVE  QueueStep
  <2>1. GoodQueue(FlushQueue(vq[t], l))
    BY <1>0, FlushQueueIsTail
  <2>2. FlushQueue(vq[t], l) \in Seq(Virq)
    BY <1>mem, <2>1
  <2> QED
    BY <1>2, <2>1, <2>2 DEF QueueStep
<1>3. ASSUME NEW c \in Cpu, UartRaise(c) PROVE QueueStep
  <2> DEFINE q(t) == InjectVirq(vq[t], UartIrq)
  <2>1. PICK t \in Task : vq' = [vq EXCEPT ![t] = q(t)]
                           \/ vq' = [vq EXCEPT ![t] = FlushQueue(q(t), lr[c])]
    BY <1>3 DEF UartRaise
  <2>2. q(t) \in Seq(Virq) /\ GoodQueue(q(t))
    BY <1>0, InjectQueue, VirqAssumption
  <2> HIDE DEF q
  <2>3. GoodQueue(FlushQueue(q(t), lr[c]))
    BY <2>2, FlushQueueIsTail
  <2>4. FlushQueue(q(t), lr[c]) \in Seq(Virq)
    BY <1>mem, <2>3
  <2> QED
    BY <2>1, <2>2, <2>3, <2>4 DEF QueueStep
<1>4. CASE UNCHANGED vars
  BY <1>4 DEF vars, QueueStep
<1>5. ASSUME NEW c \in Cpu, Yield(c) PROVE QueueStep
  <2>1. CASE YieldStay(c)
    <3>1. CASE running[c] = NoTask
      BY <2>1, <3>1 DEF YieldStay, QueueStep
    <3>2. CASE running[c] # NoTask
      <4>1. running[c] \in Task /\ vq' = [vq EXCEPT ![running[c]] = FlushQueue(vq[running[c]], lr[c])]
        BY <2>1, <3>2 DEF YieldStay, FlushLr, TypeInv, TypeOK
      <4> QED
        BY <4>1, <1>2
    <3> QED
      BY <3>1, <3>2
  <2>2. CASE SwitchRestore(c)
    <3>1. nxt[c] \in Task /\ vq' = [vq EXCEPT ![nxt[c]] = FlushQueue(vq[nxt[c]], slr[nxt[c]])]
      BY <2>2 DEF SwitchRestore, VcpuContextRestore, GicVcpuRestore, TypeInv, LocalsOK, SwitchPcs
    <3> QED
      BY <3>1, <1>2
  <2>3. CASE YieldNext(c) \/ Publish(c) \/ Requeue(c) \/ SwitchSave(c)
    BY <2>3 DEF YieldNext, Publish, Requeue, SwitchSave, VcpuContextSave, GicVcpuSave, virqs, QueueStep
  <2> QED
    BY <1>5, <2>1, <2>2, <2>3 DEF Yield
<1>6. ASSUME NEW c \in Cpu, Irq(c) PROVE QueueStep
  <2>1. CASE IrqVirtTimer(c)
    BY <2>1, <1>1, VirqAssumption DEF IrqVirtTimer, TypeInv, TypeOK
  <2>2. CASE UartPoll(c) \/ IrqUart(c)
    BY <2>2, <1>3 DEF UartPoll, IrqUart, QueueStep
  <2>3. CASE IrqIpi(c) \/ IrqHypTimer(c)
    BY <2>3 DEF IrqIpi, IrqHypTimer, virqs, QueueStep
  <2> QED
    BY <1>6, <2>1, <2>2, <2>3 DEF Irq
<1>7. ASSUME NEW c \in Cpu, SgiAllStep(c) PROVE QueueStep
  <2>1. arg[c] \in Virq
    BY <1>7, VirqAssumption DEF SgiAllStep, TypeInv, LocalsOK
  <2>2. vq' = vq \/ \E t \in Task : Inject(t, arg[c])
    BY <1>7 DEF SgiAllStep, virqs
  <2> QED
    BY <2>1, <2>2, <1>1 DEF QueueStep
<1>8. ASSUME NEW c \in Cpu, Psci(c) PROVE QueueStep
  BY <1>8 DEF Psci, CpuOnExists, CpuOnCreate, VmCreateVcpuTask, CpuOnFind, BindMpidr, BindAny, BindCpu,
              BindVcpu, virqs, QueueStep
<1>9. ASSUME NEW c \in Cpu, Guest(c) PROVE QueueStep
  <2>1. ASSUME NEW m, NEW v \in Sgi, GuestSgi(c, m, v) PROVE QueueStep
    BY <2>1, <1>1, VirqAssumption DEF GuestSgi, virqs, QueueStep
  <2>2. ASSUME NEW m, HvcCpuOn(c, m) PROVE QueueStep
    BY <2>2 DEF HvcCpuOn, virqs, QueueStep
  <2>3. ASSUME NEW v, GuestSgiAll(c, v) PROVE QueueStep
    BY <2>3 DEF GuestSgiAll, virqs, QueueStep
  <2>4. CASE HvcOther(c)
    BY <2>4 DEF HvcOther, virqs, QueueStep
  <2>5. ASSUME NEW k, GuestAck(c, k) \/ GuestEoi(c, k) PROVE QueueStep
    BY <2>5 DEF GuestAck, GuestEoi, virqs, QueueStep
  <2> QED
    BY <1>9, <2>1, <2>2, <2>3, <2>4, <2>5 DEF Guest
<1> QED
  BY <1>4, <1>5, <1>6, <1>7, <1>8, <1>9 DEF Next

(* So good queues stay good.                                                *)
LEMMA QueueStays == TypeInv /\ QueueOK /\ [Next]_vars => QueueOK'
<1> SUFFICES ASSUME TypeInv, QueueOK, [Next]_vars
             PROVE  QueueOK'
  OBVIOUS
<1>1. QueueStep
  BY QueueActions
<1> QED
  BY <1>1 DEF QueueStep, QueueOK, GoodQueue, TypeInv, TypeOK

(* pending_virq_count stays within VCPU_MAX_PENDING_VIRQ and no vINTID is    *)
(* queued twice, whatever is injected and wherever the vCPU runs.           *)
THEOREM QueuesStayGood == Spec => []QueueOK
<1>1. Init => QueueOK
  BY QMaxAssumption DEF Init, QueueOK, IsInjective
<1> QED
  BY TypeInit, TypeStep, <1>1, QueueStays, PTL DEF Spec

-----------------------------------------------------------------------------
(* One live context                                                         *)

(* Whoever runs a task, or still has its registers, is the pCPU it is pinned *)
(* to.  A task is pinned to none only between two writes of psci_vcpu_on.   *)
PinInv ==
    /\ \A d \in Cpu, t \in Task :
          hw[d] = t \/ t \in Held(d) => affinity[t] \in {AnyCpu, d}
    /\ \A t \in Task :
          affinity[t] = AnyCpu => \E c \in Cpu : pc[c] = "bind_cpu" /\ it[c] = t

(* A step that writes no affinity, of a pCPU that is not about to write one, *)
(* leaves the tasks that psci_vcpu_on has under way as they are.            *)
LEMMA AnyKept ==
    ASSUME TypeInv, PinInv, NEW c \in Cpu, pc[c] # "bind_cpu", affinity' = affinity,
           \A d \in Cpu : d # c => pc'[d] = pc[d] /\ it'[d] = it[d]
    PROVE  \A t \in Task :
              affinity'[t] = AnyCpu => \E d \in Cpu : pc'[d] = "bind_cpu" /\ it'[d] = t
BY DEF PinInv

(* Every step but the two writes of psci_vcpu_on is such a step.            *)
LEMMA WritesNoAffinity ==
    ASSUME TypeInv, NEW c \in Cpu,
           \/ Yield(c) \/ Irq(c) \/ SgiAllStep(c) \/ Guest(c) \/ CpuOnExists(c)
           \/ CpuOnCreate(c) \/ CpuOnFind(c) \/ BindMpidr(c) \/ BindVcpu(c)
    PROVE  /\ pc[c] # "bind_cpu" /\ affinity' = affinity
           /\ \A d \in Cpu : d # c => pc'[d] = pc[d] /\ it'[d] = it[d]
<1>0. pc \in [Cpu -> Pcs] /\ it \in [Cpu -> Task \cup {ListHead}]
  BY DEF TypeInv, TypeOK
<1> USE <1>0 DEF Goto, sched, tasks, locals
<1>1. CASE Yield(c)
  BY <1>1 DEF Yield, YieldNext, YieldStay, Publish, Requeue, SwitchSave, SwitchRestore
<1>2. CASE Irq(c)
  BY <1>2 DEF Irq, IrqIpi, IrqHypTimer, IrqVirtTimer, UartPoll, IrqUart
<1>3. CASE SgiAllStep(c)
  BY <1>3 DEF SgiAllStep
<1>4. CASE Guest(c)
  <2>1. ASSUME NEW m, HvcCpuOn(c, m)
        PROVE  /\ pc[c] # "bind_cpu" /\ affinity' = affinity
               /\ \A d \in Cpu : d # c => pc'[d] = pc[d] /\ it'[d] = it[d]
    BY <2>1 DEF HvcCpuOn, InGuest
  <2>2. CASE ~\E m \in Vcpu : HvcCpuOn(c, m)
    BY <1>4, <2>2 DEF Guest, GuestSgi, GuestSgiAll, HvcOther, GuestAck, GuestEoi, InGuest
  <2> QED
    BY <2>1, <2>2
<1>5. CASE CpuOnExists(c) \/ CpuOnFind(c)
  BY <1>5 DEF CpuOnExists, CpuOnFind, Walk, HyperSync, PsciReturn
<1>6. CASE CpuOnCreate(c) \/ BindMpidr(c) \/ BindVcpu(c)
  BY <1>6 DEF CpuOnCreate, VmCreateVcpuTask, BindMpidr, BindVcpu, PsciReturn
<1> QED
  BY <1>1, <1>2, <1>3, <1>4, <1>5, <1>6

(* A quiet step leaves every pCPU with the tasks it has.                    *)
LEMMA QuietHolds ==
    ASSUME TypeInv, NEW c \in Cpu, Quiet(c)
    PROVE  hw' = hw /\ \A d \in Cpu : Held(d)' = Held(d)
<1>1. PICK label : label \notin SwitchPcs /\ pc' = [pc EXCEPT ![c] = label]
  BY DEF Quiet
<1>2. \A d \in Cpu : pc'[d] = IF d = c THEN label ELSE pc[d]
  BY <1>1 DEF TypeInv, TypeOK
<1> QED
  BY <1>1, <1>2 DEF Held, SwitchPcs, Quiet

(* In sched_yield a pCPU gets a task it may run, and its registers get the  *)
(* one it has published.                                                    *)
LEMMA YieldHolds ==
    ASSUME OwnerInv, NEW c \in Cpu,
           YieldNext(c) \/ Publish(c) \/ Requeue(c) \/ SwitchSave(c) \/ SwitchRestore(c)
    PROVE  /\ \A d \in Cpu : d # c => hw'[d] = hw[d] /\ Held(d)' = Held(d)
           /\ \A t \in Task : hw'[c] = t \/ t \in Held(c)' =>
                 hw[c] = t \/ t \in Held(c) \/ Eligible(affinity, t, c)
<1>0. /\ pc \in [Cpu -> Pcs] /\ hw \in [Cpu -> Task \cup {NoTask}]
      /\ running \in [Cpu -> Task \cup {NoTask}] /\ cur \in [Cpu -> Task \cup {NoTask}]
      /\ nxt \in [Cpu -> Task \cup {NoTask}] /\ NoTask \notin Task
  BY Constants DEF OwnerInv, TypeInv, TypeOK
<1>1. CASE YieldNext(c)
  <2>1. PICK i \in 1..Len(ready) : nxt' = [nxt EXCEPT ![c] = ready[i]]
                                   /\ Eligible(affinity, ready[i], c)
    BY <1>1 DEF YieldNext, IsNext, IsFirstEligible
  <2> QED
    BY <1>0, <1>1, <2>1 DEF YieldNext, Held, Goto, regs
<1>2. CASE Publish(c)
  BY <1>0, <1>2 DEF Publish, Held, Goto, regs, locals, OwnerInv, YieldOK
<1>3. CASE Requeue(c)
  BY <1>0, <1>3 DEF Requeue, Held, Goto, regs, locals
<1>4. CASE SwitchSave(c)
  BY <1>0, <1>4 DEF SwitchSave, VcpuContextSave, Held, Goto, sched, locals
<1>5. CASE SwitchRestore(c)
  <2>1. running[c] = nxt[c] /\ pc[c] = "restore"
    BY <1>5 DEF SwitchRestore, OwnerInv, YieldOK
  <2> QED
    BY <1>0, <1>5, <2>1 DEF SwitchRestore, VcpuContextRestore, AfterYield, Held, Goto, sched
<1> QED
  BY <1>1, <1>2, <1>3, <1>4, <1>5

(* PinInv is preserved: sched_yield takes only tasks that c may run, and    *)
(* psci_vcpu_on pins a task that somebody has to nobody else.               *)
LEMMA PinStep == OwnerInv /\ PinnedForHolder /\ PinInv /\ [Next]_vars => PinInv'
<1> SUFFICES ASSUME OwnerInv, PinnedForHolder, PinInv, [Next]_vars
             PROVE  PinInv'
  OBVIOUS
<1>0. /\ TypeInv /\ affinity \in [Task -> Vcpu \cup {AnyCpu}] /\ pc \in [Cpu -> Pcs]
      /\ it \in [Cpu -> Task \cup {ListHead}] /\ AnyCpu \notin Vcpu
  BY DEF OwnerInv, TypeInv, TypeOK, AnyCpu, Vcpu
<1>1. CASE UNCHANGED vars
  BY <1>1 DEF PinInv, Held, vars
<1>2. ASSUME NEW c \in Cpu,
             YieldNext(c) \/ Publish(c) \/ Requeue(c) \/ SwitchSave(c) \/ SwitchRestore(c)
      PROVE  PinInv'
  <2>1. /\ pc[c] # "bind_cpu" /\ affinity' = affinity
        /\ \A d \in Cpu : d # c => pc'[d] = pc[d] /\ it'[d] = it[d]
    BY <1>0, <1>2, WritesNoAffinity DEF Yield
  <2>2. \A d \in Cpu, t \in Task :
           hw'[d] = t \/ t \in Held(d)' => affinity[t] \in {AnyCpu, d}
    BY <1>2, YieldHolds DEF PinInv, Eligible
  <2> QED
    BY <1>0, <2>1, <2>2, AnyKept DEF PinInv
<1>3. ASSUME NEW c \in Cpu,
             \/ YieldStay(c) \/ Irq(c) \/ SgiAllStep(c) \/ Guest(c) \/ CpuOnExists(c)
             \/ CpuOnFind(c) \/ BindMpidr(c) \/ BindVcpu(c)
      PROVE  PinInv'
  <2>1. /\ pc[c] # "bind_cpu" /\ affinity' = affinity
        /\ \A d \in Cpu : d # c => pc'[d] = pc[d] /\ it'[d] = it[d]
    BY <1>0, <1>3, WritesNoAffinity DEF Yield
  <2>2. hw' = hw /\ \A d \in Cpu : Held(d)' = Held(d)
    BY <1>0, <1>3, QuietActions, QuietHolds
  <2> QED
    BY <1>0, <2>1, <2>2, AnyKept DEF PinInv
<1>4. ASSUME NEW c \in Cpu, CpuOnCreate(c) PROVE PinInv'
  <2>1. /\ pc[c] # "bind_cpu" /\ affinity' = affinity
        /\ \A d \in Cpu : d # c => pc'[d] = pc[d] /\ it'[d] = it[d]
    BY <1>0, <1>4, WritesNoAffinity
  <2>2. hw' = hw /\ \A d \in Cpu : Held(d)' = Held(d)
    BY <1>0, <1>4 DEF CpuOnCreate, PsciReturn, Goto, regs, Held
  <2> QED
    BY <1>0, <2>1, <2>2, AnyKept DEF PinInv
<1>5. ASSUME NEW c \in Cpu, BindAny(c) PROVE PinInv'
  <2>1. hw' = hw /\ \A d \in Cpu : Held(d)' = Held(d)
    BY <1>0, <1>5, QuietActions, QuietHolds
  <2>2. /\ affinity' = [affinity EXCEPT ![it[c]] = AnyCpu] /\ it' = it
        /\ pc[c] = "bind_any" /\ pc' = [pc EXCEPT ![c] = "bind_cpu"]
    BY <1>5 DEF BindAny, Goto, locals
  <2> QED
    BY <1>0, <2>1, <2>2 DEF PinInv
<1>6. ASSUME NEW c \in Cpu, BindCpu(c) PROVE PinInv'
  <2>1. hw' = hw /\ \A d \in Cpu : Held(d)' = Held(d)
    BY <1>0, <1>6, QuietActions, QuietHolds
  <2>2. /\ affinity' = [affinity EXCEPT ![it[c]] = arg[c]] /\ it' = it
        /\ pc[c] = "bind_cpu" /\ pc' = [pc EXCEPT ![c] = "bind_vcpu"]
    BY <1>6 DEF BindCpu, Goto, locals
  <2>3. arg[c] \in Vcpu
    BY <1>0, <2>2 DEF TypeInv, LocalsOK, PsciPcs
  <2>4. \A d \in Cpu : hw[d] = it[c] \/ it[c] \in Held(d) => d = arg[c]
    BY <2>2 DEF PinnedForHolder
  <2> QED
    BY <1>0, <2>1, <2>2, <2>3, <2>4 DEF PinInv
<1> QED
  BY <1>1, <1>2, <1>3, <1>4, <1>5, <1>6 DEF Next, Yield, Psci

(* The context of a vCPU is live on one pCPU at most, with any number of    *)
(* pCPUs, vCPUs and tasks, as long as no CPU_ON pins a task to one pCPU     *)
(* that another has: the window between requeueing and saving in            *)
(* sched_yield does no harm by itself.                                      *)
THEOREM ContextLiveOnce == Spec /\ []PinnedForHolder => []OneLiveContext
<1>1. Init => PinInv
  BY Constants DEF Init, PinInv, Held, AnyCpu
<1>2. PinInv /\ OwnerInv /\ PinnedForHolder => OneLiveContext
  <2> SUFFICES ASSUME PinInv, OwnerInv, PinnedForHolder,
                      NEW c \in Cpu, NEW d \in Cpu, c # d, hw[c] # NoTask, hw[c] = hw[d]
               PROVE  FALSE
    BY DEF OneLiveContext
  <2>1. hw[c] \in Task
    BY DEF OwnerInv, TypeInv, TypeOK
  <2>2. affinity[hw[c]] = AnyCpu
    BY <2>1 DEF PinInv
  <2>3. PICK b \in Cpu : pc[b] = "bind_cpu" /\ it[b] = hw[c]
    BY <2>1, <2>2 DEF PinInv
  <2> QED
    BY <2>3 DEF PinnedForHolder
<1> QED
  BY OwnerInit, OwnerStep, PinStep, <1>1, <1>2, PTL DEF Spec

-----------------------------------------------------------------------------
(* No vIRQ lost                                                             *)

(* A queued vINTID that a flush takes off the queue is pending in a list    *)
(* register afterwards, and a list register in use keeps what it has.       *)
LEMMA FlushKeeps ==
    ASSUME NEW q \in Seq(Virq), NEW l \in Lrs, NEW S, "pending" \in S, "invalid" \notin S
    PROVE  ToSet(q) \cup LrVirqs(l, S)
              \subseteq ToSet(FlushQueue(q, l)) \cup LrVirqs(FlushLrs(q, l), S)
<1> DEFINE F == FreeLrs(l)
           n == Cardinality(F)
           m == FlushLrs(q, l)
<1>0. F \in SUBSET Int
  BY LrAssumption DEF FreeLrs
<1>1. IsFiniteSet(F) /\ n \in Nat
  BY FreeLrsFinite
<1>2. Len(q) \in Nat /\ DOMAIN q = 1..Len(q) /\ \A i \in 1..Len(q) : q[i] \in Virq
  BY LenProperties, ElementOfSeq
<1>3. ASSUME NEW v \in LrVirqs(l, S) PROVE v \in LrVirqs(m, S)
  <2>1. PICK i \in 1..NLr : l[i].state \in S /\ v = l[i].vintid
    BY DEF LrVirqs
  <2>2. m[i] = l[i]
    BY <2>1 DEF FlushLrs, LrFree
  <2> HIDE DEF m
  <2> QED
    BY <2>1, <2>2 DEF LrVirqs
<1>4. ASSUME NEW k \in 1..Len(q), k <= n PROVE q[k] \in LrVirqs(m, S)
  <2> HIDE DEF n, F
  <2>1. k \in 1..n
    BY <1>1, <1>2, <1>4
  <2>2. \E x \in F : Cardinality({y \in F : y <= x}) = k
    BY <1>0, <1>1, <2>1, RankOnto DEF n
  <2>3. PICK x \in F : Rank(l, x) = k
    BY <2>2 DEF Rank, F
  <2>4. x \in 1..NLr /\ LrFree(l, x)
    BY DEF F, FreeLrs
  <2>5. m[x] = PendingLr(q[k])
    BY <1>2, <2>3, <2>4 DEF FlushLrs
  <2> HIDE DEF m
  <2> QED
    BY <2>4, <2>5 DEF LrVirqs, PendingLr
<1>5. ASSUME NEW k \in 1..Len(q), ~(k <= n) PROVE q[k] \in ToSet(FlushQueue(q, l))
  <2> DEFINE r == SubSeq(q, n + 1, Len(q))
  <2>0. FlushQueue(q, l) = r
    BY DEF FlushQueue
  <2> HIDE DEF n
  <2>1. \A i \in (n + 1)..Len(q) : q[i] \in Virq
    BY <1>1, <1>2
  <2>2. /\ r \in Seq(Virq)
        /\ Len(r) = IF n + 1 <= Len(q) THEN Len(q) - (n + 1) + 1 ELSE 0
        /\ \A i \in 1..(Len(q) - (n + 1) + 1) : r[i] = q[(n + 1) + i - 1]
    BY <1>1, <1>2, <2>1, SubSeqProperties
  <2> HIDE DEF r
  <2> DEFINE L == Len(q)
             N == Len(r)
  <2>a. L \in Nat /\ n \in Nat /\ k \in 1..L /\ ~(k <= n)
        /\ N = IF n + 1 <= L THEN L - (n + 1) + 1 ELSE 0
    BY <1>1, <1>2, <1>5, <2>2
  <2> HIDE DEF L, N
  <2>b. /\ k - n \in 1..(L - (n + 1) + 1) /\ (n + 1) + (k - n) - 1 = k
        /\ k - n \in 1..N
    BY <2>a
  <2>3. /\ k - n \in 1..(Len(q) - (n + 1) + 1) /\ (n + 1) + (k - n) - 1 = k
        /\ k - n \in 1..Len(r)
    BY <2>b DEF L, N
  <2>4. r[k - n] = q[k]
    BY <2>2, <2>3
  <2>5. DOMAIN r = 1..Len(r)
    BY <2>2, LenProperties
  <2> QED
    BY <2>0, <2>3, <2>4, <2>5 DEF ToSet
<1> HIDE DEF n, m
<1> QED
  BY <1>2, <1>3, <1>4, <1>5 DEF ToSet, m

(* gic_vcpu_inject_virq takes nothing out of the queue, and v is in it      *)
(* unless the queue is full of others.                                      *)
LEMMA InjectAdds ==
    ASSUME NEW q, GoodQueue(q), NEW v \in Virq
    PROVE  /\ ToSet(q) \subseteq ToSet(InjectVirq(q, v))
           /\ v \in ToSet(InjectVirq(q, v)) \/ (Len(q) = QMax /\ ~Contains(q, v))
<1>1. /\ q \in Seq(Virq) /\ Len(q) \in Nat /\ DOMAIN q = 1..Len(q) /\ Len(q) <= QMax
  BY LenProperties DEF GoodQueue
<1>2. CASE Contains(q, v)
  BY <1>1, <1>2 DEF InjectVirq, Contains, ToSet
<1>3. CASE Len(q) >= QMax /\ ~Contains(q, v)
  <2>0. Len(q) \in Nat /\ Len(q) <= QMax /\ Len(q) >= QMax
    BY <1>1, <1>3
  <2>1. Len(q) = QMax
    BY <2>0, QMaxAssumption
  <2>2. InjectVirq(q, v) = q
    BY <1>3 DEF InjectVirq
  <2> QED
    BY <1>3, <2>1, <2>2
<1>4. CASE ~(Len(q) >= QMax) /\ ~Contains(q, v)
  <2> DEFINE r == Append(q, v)
  <2>1. InjectVirq(q, v) = r
    BY <1>4 DEF InjectVirq
  <2>2. /\ r \in Seq(Virq) /\ Len(r) = Len(q) + 1
        /\ \A i \in 1..Len(q) : r[i] = q[i]
        /\ r[Len(q) + 1] = v
    BY <1>1, AppendProperties
  <2> HIDE DEF r
  <2>3. DOMAIN r = 1..(Len(q) + 1)
    BY <2>2, LenProperties
  <2>4. \A i \in 1..Len(q) : i \in 1..(Len(q) + 1)
    BY <1>1
  <2>5. Len(q) + 1 \in 1..(Len(q) + 1)
    BY <1>1
  <2> QED
    BY <1>1, <2>1, <2>2, <2>3, <2>4, <2>5 DEF ToSet
<1> QED
  BY <1>2, <1>3, <1>4

(* Where the list registers of a vCPU are found: with h[c] for hw[c], l for *)
(* the registers of the pCPUs and s for the saved ones.                     *)
LEMMA LrsAt ==
    ASSUME NEW h, NEW l, NEW s, NEW t, NEW c \in Cpu, h[c] = t,
           \A d \in Cpu : h[d] = t => d = c
    PROVE  (IF \E d \in Cpu : h[d] = t THEN l[CHOOSE d \in Cpu : h[d] = t] ELSE s) = l[c]
OBVIOUS

(* On its way to the guest: queued, or in a list register in one of states. *)
OnWay(t, states) == ToSet(vq[t]) \cup LrVirqs(LrsOf(t), states)

(* A masked virtual timer whose vIRQ was accepted.                          *)
Masked(t) == vtm[t] /\ ~vtlost[t]

(* The registers that __el2_switch_to saves are those of the outgoing task, *)
(* and between save and restore they are nobody's.                          *)
SaveInv ==
    \A c \in Cpu :
        /\ pc[c] \in {"requeue", "save"} => hw[c] = cur[c]
        /\ pc[c] = "restore" => hw[c] = NoTask

(* SaveInv is preserved: until publish the registers are those of current,  *)
(* and only the switch changes whose they are.                              *)
LEMMA SaveStep == OwnerInv /\ ContextInv /\ SaveInv /\ [Next]_vars => SaveInv'
<1> SUFFICES ASSUME OwnerInv, ContextInv, SaveInv, [Next]_vars
             PROVE  SaveInv'
  OBVIOUS
<1>0. /\ TypeInv /\ pc \in [Cpu -> Pcs] /\ hw \in [Cpu -> Task \cup {NoTask}]
      /\ cur \in [Cpu -> Task \cup {NoTask}]
  BY DEF OwnerInv, TypeInv, TypeOK
<1>1. CASE UNCHANGED vars
  BY <1>1 DEF SaveInv, vars
<1>2. ASSUME NEW c \in Cpu, Quiet(c) PROVE SaveInv'
  BY <1>0, <1>2 DEF Quiet, SaveInv, SwitchPcs
<1>3. ASSUME NEW c \in Cpu, YieldNext(c) PROVE SaveInv'
  BY <1>0, <1>3 DEF YieldNext, Goto, SaveInv, regs
<1>4. ASSUME NEW c \in Cpu, Publish(c) PROVE SaveInv'
  <2>1. hw[c] = cur[c]
    BY <1>4 DEF Publish, ContextInv, OwnerInv, YieldOK
  <2> QED
    BY <1>0, <1>4, <2>1 DEF Publish, Goto, SaveInv, regs, locals
<1>5. ASSUME NEW c \in Cpu, Requeue(c) PROVE SaveInv'
  BY <1>0, <1>5 DEF Requeue, Goto, SaveInv, regs, locals
<1>6. ASSUME NEW c \in Cpu, SwitchSave(c) PROVE SaveInv'
  BY <1>0, <1>6 DEF SwitchSave, VcpuContextSave, Goto, SaveInv, locals
<1>7. ASSUME NEW c \in Cpu, SwitchRestore(c) PROVE SaveInv'
  BY <1>0, <1>7 DEF SwitchRestore, VcpuContextRestore, AfterYield, Goto, SaveInv
<1>8. ASSUME NEW c \in Cpu, CpuOnCreate(c) PROVE SaveInv'
  BY <1>0, <1>8 DEF CpuOnCreate, PsciReturn, Goto, SaveInv, regs
<1> QED
  BY <1>0, <1>1, <1>2, <1>3, <1>4, <1>5, <1>6, <1>7, <1>8, QuietActions
  DEF Next, Yield, Psci

(* What the rest rests on.                                                  *)
VirqBase ==
    OwnerInv /\ ContextInv /\ SaveInv /\ QueueOK /\ OneLiveContext

(* An injection, with the list registers where they are, adds its vIRQ.     *)
LEMMA InjectOnWay ==
    ASSUME VirqBase, NEW S, NEW u \in Task, NEW v \in Virq, Inject(u, v),
           UNCHANGED <<lr, slr, hw>>, NEW t \in Task
    PROVE  /\ OnWay(t, S) \subseteq OnWay(t, S)'
           /\ raised'[t] \subseteq raised[t] \cup OnWay(t, S)'
           /\ v \in OnWay(u, S)' \/ NoRoom(u, v)
<1>1. /\ vq \in [Task -> Seq(Virq)] /\ raised \in [Task -> SUBSET Virq]
      /\ GoodQueue(vq[u])
  BY DEF VirqBase, OwnerInv, TypeInv, TypeOK, QueueOK, GoodQueue
<1>2. LrsOf(t)' = LrsOf(t)
  BY DEF LrsOf
<1> DEFINE q == InjectVirq(vq[u], v)
<1>3. ToSet(vq[u]) \subseteq ToSet(q) /\ (v \in ToSet(q) \/ NoRoom(u, v))
  BY <1>1, InjectAdds DEF NoRoom
<1>4. /\ vq' = [vq EXCEPT ![u] = q]
      /\ raised' = [raised EXCEPT ![u] = IF NoRoom(u, v) THEN @ ELSE @ \cup {v}]
  BY DEF Inject, Raise
<1> HIDE DEF q
<1>5. (v \in ToSet(vq'[u]) \/ NoRoom(u, v)) /\ ToSet(vq[t]) \subseteq ToSet(vq'[t])
  BY <1>1, <1>3, <1>4
<1>6. raised'[t] \subseteq raised[t] \cup ToSet(vq'[t])
  BY <1>1, <1>4, <1>5
<1> QED
  BY <1>2, <1>5, <1>6 DEF OnWay

(* A flush on the pCPU that has u's registers, of u's queue or of one that  *)
(* holds more, moves vIRQs but loses none.                                  *)
LEMMA FlushOnWay ==
    ASSUME VirqBase, NEW S, "pending" \in S, "invalid" \notin S,
           NEW c \in Cpu, NEW u \in Task, hw[c] = u,
           NEW q \in Seq(Virq), ToSet(vq[u]) \subseteq ToSet(q),
           lr' = [lr EXCEPT ![c] = FlushLrs(q, lr[c])],
           vq' = [vq EXCEPT ![u] = FlushQueue(q, lr[c])],
           UNCHANGED <<slr, hw>>, NEW t \in Task
    PROVE  /\ OnWay(t, S) \subseteq OnWay(t, S)'
           /\ ToSet(q) \subseteq OnWay(u, S)'
<1>1. /\ vq \in [Task -> Seq(Virq)] /\ lr \in [Cpu -> Lrs] /\ NoTask \notin Task
  BY Constants DEF VirqBase, OwnerInv, TypeInv, TypeOK
<1>2. \A d \in Cpu : hw[d] = u => d = c
  BY <1>1 DEF VirqBase, OneLiveContext
<1>3. LrsOf(u) = lr[c] /\ LrsOf(u)' = lr'[c]
  BY <1>2, LrsAt DEF LrsOf
<1> DEFINE l == lr[c]
<1>4. ToSet(q) \cup LrVirqs(l, S) \subseteq ToSet(FlushQueue(q, l)) \cup LrVirqs(FlushLrs(q, l), S)
  BY <1>1, FlushKeeps
<1>5. lr'[c] = FlushLrs(q, l) /\ vq'[u] = FlushQueue(q, l)
  BY <1>1
<1>6. ToSet(q) \cup OnWay(u, S) \subseteq OnWay(u, S)'
  BY <1>3, <1>4, <1>5 DEF OnWay
<1>7. CASE t # u
  <2>1. LrsOf(t)' = LrsOf(t)
    <3>1. CASE \E d \in Cpu : hw[d] = t
      <4>1. PICK d \in Cpu : hw[d] = t
        BY <3>1
      <4>2. \A e \in Cpu : hw[e] = t => e = d
        BY <1>1, <4>1 DEF VirqBase, OneLiveContext
      <4>3. LrsOf(t) = lr[d] /\ LrsOf(t)' = lr'[d]
        BY <4>1, <4>2, LrsAt DEF LrsOf
      <4> QED
        BY <1>1, <1>7, <4>1, <4>3
    <3>2. CASE ~\E d \in Cpu : hw[d] = t
      BY <3>2 DEF LrsOf
    <3> QED
      BY <3>1, <3>2
  <2> QED
    BY <1>1, <1>6, <1>7, <2>1 DEF OnWay
<1> QED
  BY <1>6, <1>7

(* A step that leaves queues and registers alone leaves vIRQs where they are. *)
LEMMA SameOnWay ==
    ASSUME UNCHANGED <<vq, lr, slr, hw>>, NEW S, NEW t
    PROVE  OnWay(t, S)' = OnWay(t, S)
BY DEF OnWay, LrsOf

(* gic_vcpu_save: the outgoing task finds its list registers in memory.     *)
LEMMA SaveOnWay ==
    ASSUME VirqBase, NEW S, NEW c \in Cpu, SwitchSave(c), NEW t \in Task
    PROVE  OnWay(t, S)' = OnWay(t, S)
<1>1. /\ slr \in [Task -> Lrs] /\ hw \in [Cpu -> Task \cup {NoTask}] /\ NoTask \notin Task
      /\ cur \in [Cpu -> Task \cup {NoTask}] /\ hw[c] = cur[c]
  BY Constants DEF VirqBase, OwnerInv, TypeInv, TypeOK, SaveInv, SwitchSave
<1>2. hw' = [hw EXCEPT ![c] = NoTask] /\ lr' = lr /\ vq' = vq
  BY DEF SwitchSave, VcpuContextSave, virqs
<1>3. \A d \in Cpu : hw'[d] = IF d = c THEN NoTask ELSE hw[d]
  BY <1>1, <1>2
<1>4. CASE hw[c] = t
  <2>1. \A d \in Cpu : hw[d] = t => d = c
    BY <1>1, <1>4 DEF VirqBase, OneLiveContext
  <2>2. LrsOf(t) = lr[c]
    BY <1>4, <2>1, LrsAt DEF LrsOf
  <2>3. slr'[t] = lr[c]
    BY <1>1, <1>4 DEF SwitchSave, GicVcpuSave
  <2>4. LrsOf(t)' = slr'[t]
    BY <1>1, <1>3, <2>1 DEF LrsOf
  <2> QED
    BY <1>2, <2>2, <2>3, <2>4 DEF OnWay
<1>5. CASE hw[c] # t
  <2>1. slr'[t] = slr[t]
    BY <1>1, <1>5 DEF SwitchSave, GicVcpuSave
  <2>2. \A d \in Cpu : hw'[d] = t <=> hw[d] = t
    BY <1>1, <1>3, <1>5
  <2>3. LrsOf(t)' = LrsOf(t)
    <3>1. CASE \E d \in Cpu : hw[d] = t
      <4>1. PICK d \in Cpu : hw[d] = t
        BY <3>1
      <4>2. \A e \in Cpu : hw[e] = t => e = d
        BY <1>1, <4>1 DEF VirqBase, OneLiveContext
      <4>3. LrsOf(t) = lr[d]
        BY <4>1, <4>2, LrsAt DEF LrsOf
      <4>4. hw'[d] = t /\ \A e \in Cpu : hw'[e] = t => e = d
        BY <2>2, <4>1, <4>2
      <4>5. LrsOf(t)' = lr'[d]
        BY <4>4, LrsAt DEF LrsOf
      <4> QED
        BY <1>2, <4>3, <4>5
    <3>2. CASE ~\E d \in Cpu : hw[d] = t
      BY <2>1, <2>2, <3>2 DEF LrsOf
    <3> QED
      BY <3>1, <3>2
  <2> QED
    BY <1>2, <2>3 DEF OnWay
<1> QED
  BY <1>4, <1>5

(* gic_vcpu_restore and the flush after it: what was saved is in the        *)
(* registers, since no other pCPU had the task's context.                   *)
LEMMA RestoreOnWay ==
    ASSUME VirqBase, OneLiveContext', NEW S, "pending" \in S, "invalid" \notin S,
           NEW c \in Cpu, SwitchRestore(c), NEW t \in Task
    PROVE  OnWay(t, S) \subseteq OnWay(t, S)'
<1> DEFINE u == nxt[c]
<1>1. /\ vq \in [Task -> Seq(Virq)] /\ slr \in [Task -> Lrs] /\ lr \in [Cpu -> Lrs]
      /\ hw \in [Cpu -> Task \cup {NoTask}] /\ NoTask \notin Task /\ u \in Task
      /\ hw[c] = NoTask
  BY Constants DEF VirqBase, OwnerInv, TypeInv, TypeOK, LocalsOK, SwitchPcs, SaveInv, SwitchRestore
<1>2. /\ hw' = [hw EXCEPT ![c] = u] /\ slr' = slr
      /\ lr' = [lr EXCEPT ![c] = FlushLrs(vq[u], slr[u])]
      /\ vq' = [vq EXCEPT ![u] = FlushQueue(vq[u], slr[u])]
  BY DEF SwitchRestore, VcpuContextRestore, GicVcpuRestore, saved, timers
<1> HIDE DEF u
<1>3. \A d \in Cpu : hw'[d] = IF d = c THEN u ELSE hw[d]
  BY <1>1, <1>2
<1>4. \A d \in Cpu : hw'[d] = u => d = c
  BY <1>1, <1>3 DEF OneLiveContext
<1>5. CASE t = u
  <2>1. LrsOf(t) = slr[u]
    BY <1>1, <1>3, <1>4, <1>5 DEF LrsOf
  <2>2. LrsOf(t)' = lr'[c]
    BY <1>3, <1>4, <1>5, LrsAt DEF LrsOf
  <2>3. lr'[c] = FlushLrs(vq[u], slr[u]) /\ vq'[u] = FlushQueue(vq[u], slr[u])
    BY <1>1, <1>2
  <2>4. ToSet(vq[u]) \cup LrVirqs(slr[u], S)
          \subseteq ToSet(FlushQueue(vq[u], slr[u])) \cup LrVirqs(FlushLrs(vq[u], slr[u]), S)
    BY <1>1, FlushKeeps
  <2> QED
    BY <1>5, <2>1, <2>2, <2>3, <2>4 DEF OnWay
<1>6. CASE t # u
  <2>1. \A d \in Cpu : hw'[d] = t <=> hw[d] = t
    BY <1>1, <1>3, <1>6
  <2>2. LrsOf(t)' = LrsOf(t)
    <3>1. CASE \E d \in Cpu : hw[d] = t
      <4>1. PICK d \in Cpu : hw[d] = t
        BY <3>1
      <4>2. \A e \in Cpu : hw[e] = t => e = d
        BY <1>1, <4>1 DEF VirqBase, OneLiveContext
      <4>3. LrsOf(t) = lr[d]
        BY <4>1, <4>2, LrsAt DEF LrsOf
      <4>4. hw'[d] = t /\ \A e \in Cpu : hw'[e] = t => e = d
        BY <2>1, <4>1, <4>2
      <4>5. LrsOf(t)' = lr'[d]
        BY <4>4, LrsAt DEF LrsOf
      <4>6. lr'[d] = lr[d]
        BY <1>1, <1>2, <4>1
      <4> QED
        BY <4>3, <4>5, <4>6
    <3>2. CASE ~\E d \in Cpu : hw[d] = t
      BY <1>2, <2>1, <3>2 DEF LrsOf
    <3> QED
      BY <3>1, <3>2
  <2>3. vq'[t] = vq[t]
    BY <1>1, <1>2, <1>6
  <2> QED
    BY <2>2, <2>3 DEF OnWay
<1> QED
  BY <1>5, <1>6

(* pl011_maybe_receive injects, and flushes if the target is the vCPU whose *)
(* registers this pCPU has.                                                 *)
LEMMA UartOnWay ==
    ASSUME VirqBase, NEW S, "pending" \in S, "invalid" \notin S,
           NEW c \in Cpu, hw[c] = running[c], UartRaise(c), UNCHANGED <<slr, hw>>, NEW t \in Task
    PROVE  /\ OnWay(t, S) \subseteq OnWay(t, S)'
           /\ raised'[t] \subseteq raised[t] \cup OnWay(t, S)'
<1> DEFINE q(u) == InjectVirq(vq[u], UartIrq)
<1>1. PICK u \in Task :
        /\ Raise(u, UartIrq)
        /\ \/ /\ u = running[c]
              /\ lr' = [lr EXCEPT ![c] = FlushLrs(q(u), @)]
              /\ vq' = [vq EXCEPT ![u] = FlushQueue(q(u), lr[c])]
           \/ vq' = [vq EXCEPT ![u] = q(u)] /\ UNCHANGED lr
  BY DEF UartRaise
<1>2. UartIrq \in Virq
  BY VirqAssumption
<1>3. CASE vq' = [vq EXCEPT ![u] = q(u)] /\ UNCHANGED lr
  <2>1. Inject(u, UartIrq)
    BY <1>1, <1>3 DEF Inject
  <2> QED
    BY <1>2, <1>3, <2>1, InjectOnWay
<1>4. CASE /\ u = running[c]
           /\ lr' = [lr EXCEPT ![c] = FlushLrs(q(u), @)]
           /\ vq' = [vq EXCEPT ![u] = FlushQueue(q(u), lr[c])]
  <2>1. /\ vq \in [Task -> Seq(Virq)] /\ raised \in [Task -> SUBSET Virq] /\ GoodQueue(vq[u])
    BY DEF VirqBase, OwnerInv, TypeInv, TypeOK, QueueOK, GoodQueue
  <2>2. /\ ToSet(vq[u]) \subseteq ToSet(q(u)) /\ q(u) \in Seq(Virq)
        /\ UartIrq \in ToSet(q(u)) \/ NoRoom(u, UartIrq)
    BY <1>2, <2>1, InjectAdds, InjectQueue DEF NoRoom
  <2> DEFINE r == q(u)
  <2>3. /\ lr' = [lr EXCEPT ![c] = FlushLrs(r, lr[c])]
        /\ vq' = [vq EXCEPT ![u] = FlushQueue(r, lr[c])]
    BY <1>4
  <2>4. /\ r \in Seq(Virq) /\ ToSet(vq[u]) \subseteq ToSet(r)
        /\ UartIrq \in ToSet(r) \/ NoRoom(u, UartIrq)
    BY <2>2
  <2> HIDE DEF r
  <2>5. OnWay(t, S) \subseteq OnWay(t, S)' /\ ToSet(r) \subseteq OnWay(u, S)'
    BY <1>4, <2>3, <2>4, FlushOnWay
  <2>6. /\ t # u \/ NoRoom(u, UartIrq) => raised'[t] = raised[t]
        /\ raised'[t] \subseteq raised[t] \cup {UartIrq}
    BY <1>1, <2>1 DEF Raise
  <2> QED
    BY <2>4, <2>5, <2>6
<1> QED
  BY <1>1, <1>3, <1>4

(* The vIRQs of every step of the hypervisor: none goes back, and what is   *)
(* raised is on its way; so is the timer's, when its timer is masked.       *)
LEMMA HandlerOnWay ==
    ASSUME VirqBase, OneLiveContext', NEW S, "pending" \in S, "invalid" \notin S,
           NEW c \in Cpu,
           \/ Yield(c) \/ Irq(c) \/ SgiAllStep(c) \/ Psci(c)
           \/ \E m \in Vcpu : HvcCpuOn(c, m) \/ (\E v \in Sgi : GuestSgi(c, m, v))
           \/ \E v \in SgiAll : GuestSgiAll(c, v)
           \/ HvcOther(c),
           NEW t \in Task
    PROVE  /\ OnWay(t, S) \subseteq OnWay(t, S)'
           /\ raised'[t] \subseteq raised[t] \cup OnWay(t, S)'
           /\ Masked(t)' => Masked(t) \/ TimerIrq \in OnWay(t, S)'
<1> DEFINE Goal == /\ OnWay(t, S) \subseteq OnWay(t, S)'
                   /\ raised'[t] \subseteq raised[t] \cup OnWay(t, S)'
                   /\ Masked(t)' => Masked(t) \/ TimerIrq \in OnWay(t, S)'
<1> SUFFICES Goal
  OBVIOUS
<1>0. /\ TypeInv /\ vq \in [Task -> Seq(Virq)] /\ raised \in [Task -> SUBSET Virq]
      /\ vtm \in [Task -> BOOLEAN] /\ vtlost \in [Task -> BOOLEAN] /\ running \in [Cpu -> Task \cup {NoTask}]
      /\ NoTask \notin Task
  BY Constants DEF VirqBase, OwnerInv, TypeInv, TypeOK
<1>own. pc[c] \notin {"requeue", "save", "restore"} => hw[c] = running[c]
  BY DEF VirqBase, ContextInv
<1>same. ASSUME UNCHANGED <<vq, lr, slr, hw, raised, vtm, vtlost>> PROVE Goal
  BY <1>same, SameOnWay DEF Masked
<1>inj. ASSUME NEW u \in Task, NEW v \in Virq, Inject(u, v), UNCHANGED <<lr, slr, hw, vtm, vtlost>>
        PROVE  Goal
  BY <1>inj, InjectOnWay DEF Masked
<1>uart. ASSUME pc[c] \in {"uart", "guest"}, UartRaise(c), UNCHANGED <<slr, hw, vtm, vtlost>>
         PROVE  Goal
  BY <1>uart, <1>own, UartOnWay DEF Masked
<1>1. CASE Yield(c)
  <2>1. CASE YieldNext(c) \/ Publish(c) \/ Requeue(c)
    BY <2>1, <1>same DEF YieldNext, Publish, Requeue, virqs, regs, saved, timers
  <2>2. CASE YieldStay(c)
    <3>1. UNCHANGED <<slr, hw, raised, vtm, vtlost>> /\ pc[c] = "next"
      BY <2>2 DEF YieldStay, saved, timers
    <3>2. CASE running[c] = NoTask
      BY <2>2, <3>1, <3>2, <1>same DEF YieldStay
    <3>3. CASE running[c] # NoTask
      <4> DEFINE u == running[c]
                 q == vq[u]
      <4>1. u \in Task /\ hw[c] = u /\ q \in Seq(Virq) /\ ToSet(vq[u]) \subseteq ToSet(q)
        BY <1>0, <1>own, <3>1, <3>3
      <4>2. /\ lr' = [lr EXCEPT ![c] = FlushLrs(q, lr[c])]
            /\ vq' = [vq EXCEPT ![u] = FlushQueue(q, lr[c])]
        BY <2>2, <3>3 DEF YieldStay, FlushLr
      <4> HIDE DEF u, q
      <4>3. OnWay(t, S) \subseteq OnWay(t, S)'
        BY <3>1, <4>1, <4>2, FlushOnWay
      <4> QED
        BY <3>1, <4>3 DEF Masked
    <3> QED
      BY <3>2, <3>3
  <2>3. CASE SwitchSave(c)
    <3>1. OnWay(t, S)' = OnWay(t, S)
      BY <2>3, SaveOnWay
    <3> QED
      BY <2>3, <3>1 DEF SwitchSave, virqs, timers, Masked
  <2>4. CASE SwitchRestore(c)
    <3>1. OnWay(t, S) \subseteq OnWay(t, S)'
      BY <2>4, RestoreOnWay
    <3> QED
      BY <2>4, <3>1 DEF SwitchRestore, timers, Masked
  <2> QED
    BY <1>1, <2>1, <2>2, <2>3, <2>4 DEF Yield
<1>2. CASE Irq(c)
  <2>1. CASE IrqIpi(c) \/ IrqHypTimer(c)
    BY <2>1, <1>same DEF IrqIpi, IrqHypTimer, virqs, regs, saved, timers
  <2>2. CASE IrqVirtTimer(c)
    <3>1. PICK u \in Task :
             /\ TimerIrq \in Virq /\ Inject(u, TimerIrq)
             /\ UNCHANGED <<lr, slr, hw>> /\ vtm' = [vtm EXCEPT ![u] = TRUE]
             /\ vtlost' = [vtlost EXCEPT ![u] = NoRoom(u, TimerIrq)]
      BY <1>0, <2>2, VirqAssumption DEF IrqVirtTimer, saved, regs
    <3>2. /\ OnWay(t, S) \subseteq OnWay(t, S)'
          /\ raised'[t] \subseteq raised[t] \cup OnWay(t, S)'
          /\ TimerIrq \in OnWay(u, S)' \/ NoRoom(u, TimerIrq)
      BY <3>1, InjectOnWay
    <3>3. /\ t # u => vtm'[t] = vtm[t] /\ vtlost'[t] = vtlost[t]
          /\ t = u => vtlost'[t] = NoRoom(u, TimerIrq)
      BY <1>0, <3>1
    <3> QED
      BY <3>2, <3>3 DEF Masked
  <2>3. CASE UartPoll(c)
    <3>1. UNCHANGED <<slr, hw, vtm, vtlost>> /\ pc[c] = "uart"
      BY <2>3 DEF UartPoll, saved, timers
    <3>2. UartRaise(c) \/ UNCHANGED <<vq, raised, lr>>
      BY <2>3 DEF UartPoll
    <3> QED
      BY <3>1, <3>2, <1>uart, <1>same
  <2>4. CASE IrqUart(c)
    BY <2>4, <1>uart DEF IrqUart, saved, timers
  <2> QED
    BY <1>2, <2>1, <2>2, <2>3, <2>4 DEF Irq
<1>3. CASE SgiAllStep(c)
  <2>1. arg[c] \in Virq
    BY <1>0, <1>3, VirqAssumption DEF SgiAllStep, TypeInv, LocalsOK
  <2>2. UNCHANGED <<lr, slr, hw, vtm, vtlost>>
    BY <1>3 DEF SgiAllStep, regs, saved, timers
  <2>3. UNCHANGED <<vq, raised>> \/ \E u \in Task : Inject(u, arg[c])
    BY <1>3 DEF SgiAllStep, virqs
  <2> QED
    BY <2>1, <2>2, <2>3, <1>same, <1>inj
<1>4. CASE Psci(c)
  BY <1>4, <1>same DEF Psci, CpuOnExists, CpuOnCreate, CpuOnFind, BindMpidr, BindAny, BindCpu,
     BindVcpu, virqs, regs, saved, timers
<1>5. ASSUME NEW m \in Vcpu, HvcCpuOn(c, m) PROVE Goal
  BY <1>5, <1>same DEF HvcCpuOn, virqs, regs, saved, timers
<1>6. ASSUME NEW m \in Vcpu, NEW v \in Sgi, GuestSgi(c, m, v) PROVE Goal
  <2>1. UNCHANGED <<lr, slr, hw, vtm, vtlost>> /\ v \in Virq
    BY <1>6, VirqAssumption DEF GuestSgi, regs, saved, timers
  <2>2. UNCHANGED <<vq, raised>> \/ \E u \in Task : Inject(u, v)
    BY <1>6 DEF GuestSgi, virqs
  <2> QED
    BY <2>1, <2>2, <1>same, <1>inj
<1>7. ASSUME NEW v \in SgiAll, GuestSgiAll(c, v) PROVE Goal
  BY <1>7, <1>same DEF GuestSgiAll, virqs, regs, saved, timers
<1>8. CASE HvcOther(c)
  BY <1>8, <1>same DEF HvcOther, virqs, regs, saved, timers
<1> HIDE DEF Goal
<1> QED
  BY <1>1, <1>2, <1>3, <1>4, <1>5, <1>6, <1>7, <1>8

(* A step of the guest on its own list registers: those of others stay.     *)
LEMMA GuestOnWay ==
    ASSUME VirqBase, NEW S, NEW c \in Cpu, InGuest(c), lr' = [lr EXCEPT ![c] = lr'[c]],
           UNCHANGED <<vq, slr, hw>>, NEW t \in Task
    PROVE  /\ t # running[c] => OnWay(t, S)' = OnWay(t, S)
           /\ t = running[c] => /\ OnWay(t, S) = ToSet(vq[t]) \cup LrVirqs(lr[c], S)
                                /\ OnWay(t, S)' = ToSet(vq[t]) \cup LrVirqs(lr'[c], S)
<1>1. hw[c] = running[c] /\ NoTask \notin Task /\ lr \in [Cpu -> Lrs]
  BY Constants DEF VirqBase, ContextInv, InGuest, OwnerInv, TypeInv, TypeOK
<1>2. CASE \E d \in Cpu : hw[d] = t
  <2>1. PICK d \in Cpu : hw[d] = t
    BY <1>2
  <2>2. \A e \in Cpu : hw[e] = t => e = d
    BY <1>1, <2>1 DEF VirqBase, OneLiveContext
  <2>3. LrsOf(t) = lr[d] /\ LrsOf(t)' = lr'[d]
    BY <2>1, <2>2, LrsAt DEF LrsOf
  <2>4. t = running[c] => d = c
    BY <1>1, <2>2
  <2>5. t # running[c] => d # c
    BY <1>1, <2>1
  <2>6. d # c => lr'[d] = lr[d]
    BY <1>1
  <2> QED
    BY <2>3, <2>4, <2>5, <2>6 DEF OnWay
<1>3. CASE ~\E d \in Cpu : hw[d] = t
  BY <1>1, <1>3 DEF OnWay, LrsOf
<1> QED
  BY <1>2, <1>3

(* The guest acknowledges a list register: its vIRQ is raised no more.      *)
LEMMA AckOnWay ==
    ASSUME VirqBase, NEW c \in Cpu, NEW i \in 1..NLr, GuestAck(c, i), NEW t \in Task
    PROVE  /\ raised[t] \subseteq OnWay(t, {"pending"}) => raised'[t] \subseteq OnWay(t, {"pending"})'
           /\ OnWay(t, {"pending", "active"}) \subseteq OnWay(t, {"pending", "active"})'
           /\ vtm' = vtm /\ vtlost' = vtlost
<1> DEFINE l == lr[c]
           m == [l EXCEPT ![i].state = "active"]
           v == l[i].vintid
           P == {"pending"}
           A == {"pending", "active"}
<1>1. /\ l \in Lrs /\ raised \in [Task -> SUBSET Virq]
  BY DEF VirqBase, OwnerInv, TypeInv, TypeOK
<1>2. /\ InGuest(c) /\ lr' = [lr EXCEPT ![c] = m] /\ UNCHANGED <<vq, slr, hw>>
      /\ raised' = [raised EXCEPT ![running[c]] = @ \ {v}] /\ l[i].state = "pending"
      /\ vtm' = vtm /\ vtlost' = vtlost
  BY DEF GuestAck, saved, timers
<1>3. /\ \A j \in 1..NLr : j # i => m[j] = l[j]
      /\ m[i].state = "active" /\ m[i].vintid = v
  BY <1>1 DEF Lrs
<1>9. lr'[c] = m /\ lr' = [lr EXCEPT ![c] = lr'[c]]
  <2>1. lr \in [Cpu -> Lrs]
    BY DEF VirqBase, OwnerInv, TypeInv, TypeOK
  <2> HIDE DEF m
  <2> QED
    BY <1>2, <2>1
<1> HIDE DEF m
<1>4. /\ LrVirqs(l, {"pending"}) \subseteq LrVirqs(m, {"pending"}) \cup {v}
      /\ LrVirqs(l, {"pending", "active"}) \subseteq LrVirqs(m, {"pending", "active"})
  BY <1>2, <1>3 DEF LrVirqs
<1>5. CASE t # running[c]
  <2>1. raised'[t] = raised[t]
    BY <1>1, <1>2, <1>5
  <2>2. OnWay(t, P)' = OnWay(t, P)
    BY <1>2, <1>5, <1>9, GuestOnWay
  <2>3. OnWay(t, A)' = OnWay(t, A)
    BY <1>2, <1>5, <1>9, GuestOnWay
  <2> QED
    BY <1>2, <2>1, <2>2, <2>3
<1>6. CASE t = running[c]
  <2>1. raised'[t] = raised[t] \ {v}
    BY <1>1, <1>2, <1>6
  <2>2. /\ OnWay(t, P) = ToSet(vq[t]) \cup LrVirqs(l, P)
        /\ OnWay(t, P)' = ToSet(vq[t]) \cup LrVirqs(lr'[c], P)
    BY <1>2, <1>6, <1>9, GuestOnWay
  <2>3. /\ OnWay(t, A) = ToSet(vq[t]) \cup LrVirqs(l, A)
        /\ OnWay(t, A)' = ToSet(vq[t]) \cup LrVirqs(lr'[c], A)
    BY <1>2, <1>6, <1>9, GuestOnWay
  <2> QED
    BY <1>2, <1>4, <1>9, <2>1, <2>2, <2>3
<1> QED
  BY <1>5, <1>6

(* The guest ends an interrupt: if it was the timer's, the timer is unmasked. *)
LEMMA EoiOnWay ==
    ASSUME VirqBase, NEW c \in Cpu, NEW i \in 1..NLr, GuestEoi(c, i), NEW t \in Task
    PROVE  /\ OnWay(t, {"pending"}) \subseteq OnWay(t, {"pending"})' /\ raised' = raised
           /\ (Masked(t) => TimerIrq \in OnWay(t, {"pending", "active"}))
                => (Masked(t)' => TimerIrq \in OnWay(t, {"pending", "active"})')
<1> DEFINE l == lr[c]
           m == [l EXCEPT ![i] = ZeroLrs[i]]
           v == l[i].vintid
           P == {"pending"}
           A == {"pending", "active"}
<1>1. /\ l \in Lrs /\ vtm \in [Task -> BOOLEAN]
  BY DEF VirqBase, OwnerInv, TypeInv, TypeOK
<1>2. /\ InGuest(c) /\ lr' = [lr EXCEPT ![c] = m] /\ UNCHANGED <<vq, slr, hw>>
      /\ raised' = raised /\ l[i].state = "active"
      /\ vtm' = IF v = TimerIrq THEN [vtm EXCEPT ![running[c]] = FALSE] ELSE vtm
      /\ vtlost' = vtlost
  BY DEF GuestEoi, saved, virqs
<1>3. \A j \in 1..NLr : j # i => m[j] = l[j]
  BY <1>1 DEF Lrs
<1>9. lr'[c] = m /\ lr' = [lr EXCEPT ![c] = lr'[c]]
  <2>1. lr \in [Cpu -> Lrs]
    BY DEF VirqBase, OwnerInv, TypeInv, TypeOK
  <2> HIDE DEF m
  <2> QED
    BY <1>2, <2>1
<1> HIDE DEF m
<1>4. /\ LrVirqs(l, {"pending"}) \subseteq LrVirqs(m, {"pending"})
      /\ LrVirqs(l, {"pending", "active"}) \subseteq LrVirqs(m, {"pending", "active"}) \cup {v}
  BY <1>2, <1>3 DEF LrVirqs
<1>5. CASE t # running[c]
  <2>1. vtm'[t] = vtm[t]
    BY <1>1, <1>2, <1>5
  <2>2. OnWay(t, P)' = OnWay(t, P)
    BY <1>2, <1>5, <1>9, GuestOnWay
  <2>3. OnWay(t, A)' = OnWay(t, A)
    BY <1>2, <1>5, <1>9, GuestOnWay
  <2> QED
    BY <1>2, <2>1, <2>2, <2>3 DEF Masked
<1>6. CASE t = running[c]
  <2>1. vtm'[t] => vtm[t] /\ v # TimerIrq
    BY <1>1, <1>2, <1>6
  <2>2. /\ OnWay(t, P) = ToSet(vq[t]) \cup LrVirqs(l, P)
        /\ OnWay(t, P)' = ToSet(vq[t]) \cup LrVirqs(lr'[c], P)
    BY <1>2, <1>6, <1>9, GuestOnWay
  <2>3. /\ OnWay(t, A) = ToSet(vq[t]) \cup LrVirqs(l, A)
        /\ OnWay(t, A)' = ToSet(vq[t]) \cup LrVirqs(lr'[c], A)
    BY <1>2, <1>6, <1>9, GuestOnWay
  <2> QED
    BY <1>2, <1>4, <1>9, <2>1, <2>2, <2>3 DEF Masked
<1> QED
  BY <1>5, <1>6

(* Both properties say what is on its way, and every step keeps them.       *)
LEMMA VirqStep ==
    /\ VirqBase /\ OneLiveContext' /\ NoLostVirq /\ [Next]_vars => NoLostVirq'
    /\ VirqBase /\ OneLiveContext' /\ TimerNotStuck /\ [Next]_vars => TimerNotStuck'
<1> DEFINE P == {"pending"}
           A == {"pending", "active"}
<1>0. ASSUME VirqBase, OneLiveContext', NEW t \in Task, [Next]_vars
      PROVE  /\ raised[t] \subseteq OnWay(t, P) => raised'[t] \subseteq OnWay(t, P)'
             /\ (Masked(t) => TimerIrq \in OnWay(t, A)) => (Masked(t)' => TimerIrq \in OnWay(t, A)')
  <2> DEFINE Goal == /\ raised[t] \subseteq OnWay(t, P) => raised'[t] \subseteq OnWay(t, P)'
                     /\ (Masked(t) => TimerIrq \in OnWay(t, A)) => (Masked(t)' => TimerIrq \in OnWay(t, A)')
  <2>1. ASSUME UNCHANGED vars PROVE Goal
    <3>1. /\ OnWay(t, P)' = OnWay(t, P) /\ OnWay(t, A)' = OnWay(t, A)
          /\ raised' = raised /\ Masked(t)' = Masked(t)
      BY <2>1, SameOnWay DEF vars, Masked
    <3> QED
      BY <3>1
  <2>2. ASSUME NEW c \in Cpu,
               \/ Yield(c) \/ Irq(c) \/ SgiAllStep(c) \/ Psci(c)
               \/ \E m \in Vcpu : HvcCpuOn(c, m) \/ (\E v \in Sgi : GuestSgi(c, m, v))
               \/ \E v \in SgiAll : GuestSgiAll(c, v)
               \/ HvcOther(c)
        PROVE  Goal
    <3>1. /\ "pending" \in P /\ "invalid" \notin P
          /\ "pending" \in A /\ "invalid" \notin A
      OBVIOUS
    <3> HIDE DEF P, A
    <3>2. /\ OnWay(t, P) \subseteq OnWay(t, P)'
          /\ raised'[t] \subseteq raised[t] \cup OnWay(t, P)'
      BY <1>0, <2>2, <3>1, HandlerOnWay
    <3>3. /\ OnWay(t, A) \subseteq OnWay(t, A)'
          /\ Masked(t)' => Masked(t) \/ TimerIrq \in OnWay(t, A)'
      BY <1>0, <2>2, <3>1, HandlerOnWay
    <3> QED
      BY <3>2, <3>3
  <2>3. ASSUME NEW c \in Cpu, NEW i \in 1..NLr, GuestAck(c, i) PROVE Goal
    BY <1>0, <2>3, AckOnWay DEF Masked
  <2>4. ASSUME NEW c \in Cpu, NEW i \in 1..NLr, GuestEoi(c, i) PROVE Goal
    BY <1>0, <2>4, EoiOnWay
  <2> HIDE DEF Goal
  <2>5. ASSUME NEW c \in Cpu, Guest(c) PROVE Goal
    <3>1. CASE \E i \in 1..NLr : GuestAck(c, i) \/ GuestEoi(c, i)
      BY <3>1, <2>3, <2>4
    <3>2. CASE ~\E i \in 1..NLr : GuestAck(c, i) \/ GuestEoi(c, i)
      BY <2>5, <3>2, <2>2 DEF Guest
    <3> QED
      BY <3>1, <3>2
  <2>6. ASSUME Next PROVE Goal
    <3>1. PICK c \in Cpu : Yield(c) \/ Irq(c) \/ SgiAllStep(c) \/ Psci(c) \/ Guest(c)
      BY <2>6 DEF Next
    <3> QED
      BY <3>1, <2>2, <2>5
  <2>7. Goal
    BY <1>0, <2>1, <2>6
  <2> QED
    BY <2>7 DEF Goal
<1> QED
  BY <1>0 DEF NoLostVirq, TimerNotStuck, Masked, OnWay

(* No vIRQ that gic_vcpu_inject_virq queued disappears before the guest has *)
(* acknowledged it, whatever the sizes of the queue and of the list         *)
(* registers: not in a flush into too few of them, not in a context switch, *)
(* not by an injection from another pCPU in between, while every context is *)
(* live once.  The drop of a full queue is the only way to lose one.        *)
THEOREM VirqsNotLost == Spec /\ []OneLiveContext => []NoLostVirq
<1>1. Init => NoLostVirq /\ SaveInv /\ ContextInv /\ QueueOK
  BY QMaxAssumption DEF Init, NoLostVirq, SaveInv, ContextInv, QueueOK, IsInjective
<1>2. OwnerInv /\ QueueOK /\ [Next]_vars => QueueOK'
  BY QueueStays DEF OwnerInv
<1>3. VirqBase /\ OneLiveContext' /\ NoLostVirq /\ [Next]_vars => NoLostVirq'
  BY VirqStep
<1>4. OwnerInv /\ ContextInv /\ SaveInv /\ QueueOK /\ OneLiveContext => VirqBase
  BY DEF VirqBase
<1> QED
  BY OwnerInit, OwnerStep, ContextStep, SaveStep, <1>1, <1>2, <1>3, <1>4, PTL DEF Spec

(* A virtual timer the hypervisor has masked has its vIRQ on the way to the *)
(* guest, whose handler unmasks it: the clock of a vCPU stops only when a   *)
(* full queue dropped the vIRQ of the very interrupt that masked it.        *)
THEOREM TimersNotStuck == Spec /\ []OneLiveContext => []TimerNotStuck
<1>1. Init => TimerNotStuck /\ SaveInv /\ ContextInv /\ QueueOK
  BY QMaxAssumption DEF Init, TimerNotStuck, SaveInv, ContextInv, QueueOK, IsInjective
<1>2. OwnerInv /\ QueueOK /\ [Next]_vars => QueueOK'
  BY QueueStays DEF OwnerInv
<1>3. VirqBase /\ OneLiveContext' /\ TimerNotStuck /\ [Next]_vars => TimerNotStuck'
  BY VirqStep
<1>4. OwnerInv /\ ContextInv /\ SaveInv /\ QueueOK /\ OneLiveContext => VirqBase
  BY DEF VirqBase
<1> QED
  BY OwnerInit, OwnerStep, ContextStep, SaveStep, <1>1, <1>2, <1>3, <1>4, PTL DEF Spec
=============================================================================
