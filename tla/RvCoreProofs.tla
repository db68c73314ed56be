---------------------------- MODULE RvCoreProofs ----------------------------
(***************************************************************************)
(* Theorems about RvCore for any number of pCPUs, vCPUs, operations of the  *)
(* guest, interrupt sources and received characters.                        *)
(***************************************************************************)
EXTENDS RvCore, SchedSimpleProofs

-----------------------------------------------------------------------------
(* Sequences of steps                                                       *)

Els(s) == {s[i] : i \in 1..Len(s)}

(* The elements of a concatenation.                                         *)
LEMMA ElsConcat ==
    ASSUME NEW S, NEW a \in Seq(S), NEW b \in Seq(S)
    PROVE  a \o b \in Seq(S) /\ Els(a \o b) = Els(a) \cup Els(b)
<1>1. /\ a \o b \in Seq(S) /\ Len(a \o b) = Len(a) + Len(b)
      /\ \A k \in 1..(Len(a) + Len(b)) : (a \o b)[k] = IF k <= Len(a) THEN a[k] ELSE b[k - Len(a)]
      /\ Len(a) \in Nat /\ Len(b) \in Nat
  BY ConcatProperties, LenProperties
<1> DEFINE c == a \o b
<1> HIDE DEF c
<1>2. ASSUME NEW k \in 1..Len(c) PROVE c[k] \in Els(a) \cup Els(b)
  <2>1. CASE k <= Len(a)
    BY <1>1, <2>1 DEF Els, c
  <2>2. CASE ~(k <= Len(a))
    <3>1. k - Len(a) \in 1..Len(b) /\ c[k] = b[k - Len(a)]
      BY <1>1, <2>2 DEF c
    <3> QED
      BY <3>1 DEF Els
  <2> QED
    BY <2>1, <2>2
<1>3. ASSUME NEW k \in 1..Len(a) PROVE a[k] \in Els(c)
  <2>1. k \in 1..Len(c) /\ c[k] = a[k]
    BY <1>1 DEF c
  <2> QED
    BY <2>1 DEF Els
<1>4. ASSUME NEW k \in 1..Len(b) PROVE b[k] \in Els(c)
  <2>1. Len(a) + k \in 1..Len(c) /\ c[Len(a) + k] = b[k]
    BY <1>1 DEF c
  <2> QED
    BY <2>1 DEF Els
<1>5. Els(c) = Els(a) \cup Els(b)
  BY <1>2, <1>3, <1>4 DEF Els
<1> QED
  BY <1>1, <1>5 DEF c

(* The elements of a sequence are its first one and those of its tail.      *)
LEMMA ElsTail ==
    ASSUME NEW S, NEW s \in Seq(S), s # <<>>
    PROVE  /\ Head(s) \in S /\ Tail(s) \in Seq(S)
           /\ Els(s) = {Head(s)} \cup Els(Tail(s))
           /\ Len(Tail(s)) = Len(s) - 1
<1>1. /\ Len(s) \in Nat \ {0} /\ Tail(s) \in Seq(S) /\ Len(Tail(s)) = Len(s) - 1
      /\ \A i \in 1..(Len(s) - 1) : Tail(s)[i] = s[i + 1]
      /\ Head(s) \in S
  BY LenProperties, EmptySeq, HeadTailProperties
<1>2. Head(s) = s[1]
  OBVIOUS
<1> DEFINE r == Tail(s)
<1> HIDE DEF r
<1>3. ASSUME NEW k \in 1..Len(s), k # 1 PROVE s[k] \in Els(r)
  <2>1. k - 1 \in 1..Len(r) /\ r[k - 1] = s[k]
    <3>1. k - 1 \in 1..(Len(s) - 1) /\ (k - 1) + 1 = k
      BY <1>1, <1>3
    <3> QED
      BY <1>1, <3>1 DEF r
  <2> QED
    BY <2>1 DEF Els
<1>4. ASSUME NEW k \in 1..Len(r) PROVE r[k] \in Els(s)
  <2>1. k + 1 \in 1..Len(s) /\ r[k] = s[k + 1]
    BY <1>1 DEF r
  <2> QED
    BY <2>1 DEF Els
<1>5. Head(s) \in Els(s)
  <2>1. 1 \in 1..Len(s)
    BY <1>1
  <2> QED
    BY <1>2, <2>1 DEF Els
<1>6. Els(s) = {Head(s)} \cup Els(r)
  <2>1. ASSUME NEW x \in Els(s) PROVE x \in {Head(s)} \cup Els(r)
    <3>1. PICK k \in 1..Len(s) : x = s[k]
      BY DEF Els
    <3> QED
      BY <1>2, <1>3, <3>1
  <2>2. ASSUME NEW x \in Els(r) PROVE x \in Els(s)
    <3>1. PICK k \in 1..Len(r) : x = r[k]
      BY DEF Els
    <3> QED
      BY <1>4, <3>1
  <2> QED
    BY <1>5, <2>1, <2>2
<1> QED
  BY <1>1, <1>6 DEF r

(* The head and tail of a concatenation.                                    *)
LEMMA ConcatHead ==
    ASSUME NEW S, NEW a \in Seq(S), NEW b \in Seq(S), a # <<>>
    PROVE  a \o b # <<>> /\ Head(a \o b) = Head(a) /\ Tail(a \o b) = Tail(a) \o b
<1> DEFINE c == a \o b
<1>1. /\ c \in Seq(S) /\ Len(c) = Len(a) + Len(b)
      /\ \A k \in 1..(Len(a) + Len(b)) : c[k] = IF k <= Len(a) THEN a[k] ELSE b[k - Len(a)]
      /\ Len(a) \in Nat \ {0} /\ Len(b) \in Nat
  BY ConcatProperties, LenProperties, EmptySeq
<1> HIDE DEF c
<1>2. c # <<>>
  BY <1>1
<1>3. Head(c) = c[1] /\ Head(a) = a[1]
  OBVIOUS
<1>4. /\ Tail(c) \in Seq(S) /\ Len(Tail(c)) = Len(c) - 1
      /\ \A i \in 1..(Len(c) - 1) : Tail(c)[i] = c[i + 1]
  BY <1>1, <1>2, HeadTailProperties
<1>5. /\ Tail(a) \in Seq(S) /\ Len(Tail(a)) = Len(a) - 1
      /\ \A i \in 1..(Len(a) - 1) : Tail(a)[i] = a[i + 1]
  BY HeadTailProperties
<1> DEFINE d == Tail(a) \o b
<1>6. /\ d \in Seq(S) /\ Len(d) = Len(a) - 1 + Len(b)
      /\ \A k \in 1..(Len(a) - 1 + Len(b)) :
            d[k] = IF k <= Len(a) - 1 THEN Tail(a)[k] ELSE b[k - (Len(a) - 1)]
  BY <1>5, ConcatProperties
<1> HIDE DEF d
<1>7. ASSUME NEW k \in 1..(Len(c) - 1) PROVE Tail(c)[k] = d[k]
  <2>1. Tail(c)[k] = c[k + 1] /\ k + 1 \in 1..(Len(a) + Len(b))
    BY <1>1, <1>4
  <2>2. CASE k <= Len(a) - 1
    BY <1>1, <1>5, <1>6, <2>1, <2>2
  <2>3. CASE ~(k <= Len(a) - 1)
    <3>1. c[k + 1] = b[(k + 1) - Len(a)] /\ d[k] = b[k - (Len(a) - 1)]
      BY <1>1, <1>6, <2>1, <2>3
    <3>2. (k + 1) - Len(a) = k - (Len(a) - 1)
      BY <1>1
    <3> QED
      BY <2>1, <3>1, <3>2
  <2> QED
    BY <2>2, <2>3
<1>8. Tail(c) = d
  <2>1. Len(Tail(c)) = Len(d) /\ Len(c) - 1 = Len(d)
    BY <1>1, <1>4, <1>6
  <2> QED
    BY <1>4, <1>6, <1>7, <2>1, SeqEqual
<1>9. Head(c) = Head(a)
  BY <1>1, <1>3
<1> QED
  BY <1>2, <1>8, <1>9 DEF c, d

(* The elements of the sequences that actions write out.                    *)
LEMMA ElsLiteral ==
    /\ Els(<<>>) = {}
    /\ \A x : Els(<<x>>) = {x}
    /\ \A x, y : Els(<<x, y>>) = {x, y}
    /\ \A x, y, z : Els(<<x, y, z>>) = {x, y, z}
    /\ \A x, y, z, w : Els(<<x, y, z, w>>) = {x, y, z, w}
BY DEF Els

(* ForEach makes one step for every number of the set, and no other.        *)
LEMMA NthIn ==
    ASSUME NEW S \in SUBSET Int, IsFiniteSet(S), NEW i \in 1..Cardinality(S)
    PROVE  Nth(S, i) \in S
<1>1. \E x \in S : Cardinality({y \in S : y <= x}) = i
  BY RankOnto
<1> QED
  BY <1>1 DEF Nth

-----------------------------------------------------------------------------
(* The steps of a trap, by the fields they carry                            *)

BareOps == {"service", "timer", "yield", "take", "refresh", "materialize", "hfence", "count",
            "requeue", "tx_clear", "update_irq", "raise", "lower", "levels", "fences"}
FindWhys == {"soft", "select", "ext_on", "ext_off"}
VcpuOps  == {"switch", "publish"} \cup FindWhys
ToOps    == {"kick", "sbi", "sync"}
SyncOps  == {"sync_send", "sync_sbi", "sync_wait"}
FindOps  == {"find", "find_ready"}

BareRec == [op : BareOps]
VcpuRec == [op : VcpuOps, vcpu : Vcpu]
ToRec   == [op : ToOps, to : Cpu]
SyncRec == [op : SyncOps, to : Cpu, before : Nat, ahead : BOOLEAN]
FindRec == [op : FindOps, hart : Vcpu \cup Ctx, why : FindWhys]
StepRec == BareRec \cup VcpuRec \cup ToRec \cup SyncRec \cup FindRec

AllOps == BareOps \cup VcpuOps \cup ToOps \cup SyncOps \cup FindOps

(* The op of a step says which fields it has.                               *)
LEMMA RecOf ==
    ASSUME NEW x \in StepRec
    PROVE  /\ x.op \in AllOps
           /\ x.op \in VcpuOps => x \in VcpuRec /\ x.vcpu \in Vcpu
           /\ x.op \in ToOps => x \in ToRec /\ x.to \in Cpu
           /\ x.op \in SyncOps => x \in SyncRec /\ x.to \in Cpu /\ x.before \in Nat /\ x.ahead \in BOOLEAN
           /\ x.op \in FindOps => x \in FindRec /\ x.hart \in Vcpu \cup Ctx /\ x.why \in FindWhys
<1> USE DEF BareOps, VcpuOps, ToOps, SyncOps, FindOps, FindWhys, AllOps
<1>1. CASE x \in BareRec
  BY <1>1 DEF BareRec
<1>2. CASE x \in VcpuRec
  BY <1>2 DEF VcpuRec
<1>3. CASE x \in ToRec
  BY <1>3 DEF ToRec
<1>4. CASE x \in SyncRec
  BY <1>4 DEF SyncRec
<1>5. CASE x \in FindRec
  BY <1>5 DEF FindRec
<1> QED
  BY <1>1, <1>2, <1>3, <1>4, <1>5 DEF StepRec

(* The steps that the actions make.                                         *)
LEMMA MakeRec ==
    /\ \A op \in BareOps : Step(op) \in StepRec /\ Step(op).op = op
    /\ \A op \in VcpuOps : \A v \in Vcpu :
          For(op, v) \in StepRec /\ For(op, v).op = op /\ For(op, v).vcpu = v
    /\ \A op \in ToOps : \A p \in Cpu : To(op, p) \in StepRec /\ To(op, p).op = op /\ To(op, p).to = p
    /\ \A why \in FindWhys : \A h \in Vcpu \cup Ctx :
          Find(why, h) \in StepRec /\ Find(why, h).op = "find" /\ Find(why, h).why = why
<1>1. ASSUME NEW op \in BareOps PROVE Step(op) \in StepRec /\ Step(op).op = op
  BY DEF Step, StepRec, BareRec
<1>2. ASSUME NEW op \in VcpuOps, NEW v \in Vcpu
      PROVE For(op, v) \in StepRec /\ For(op, v).op = op /\ For(op, v).vcpu = v
  BY DEF For, StepRec, VcpuRec
<1>3. ASSUME NEW op \in ToOps, NEW p \in Cpu
      PROVE To(op, p) \in StepRec /\ To(op, p).op = op /\ To(op, p).to = p
  BY DEF To, StepRec, ToRec
<1>4. ASSUME NEW why \in FindWhys, NEW h \in Vcpu \cup Ctx
      PROVE Find(why, h) \in StepRec /\ Find(why, h).op = "find" /\ Find(why, h).why = why
  BY DEF Find, StepRec, FindRec, FindOps
<1> QED
  BY <1>1, <1>2, <1>3, <1>4

(* riscv_ipi_send_cpu_sync moves from step to step with its locals.         *)
LEMMA MakeSync ==
    ASSUME NEW x \in StepRec, x.op \in SyncOps, NEW op \in SyncOps
    PROVE  LET y == [x EXCEPT !.op = op] IN
           y \in StepRec /\ y.op = op /\ y.to = x.to /\ y.before = x.before /\ y.ahead = x.ahead
<1>1. x \in SyncRec
  BY RecOf
<1>2. [x EXCEPT !.op = op] \in SyncRec
  BY <1>1 DEF SyncRec
<1> QED
  BY <1>1, <1>2 DEF SyncRec, StepRec

(* riscv_find_guest_vcpu goes on to the ready list with its arguments.      *)
LEMMA MakeFindReady ==
    ASSUME NEW x \in StepRec, x.op \in FindOps
    PROVE  LET y == [x EXCEPT !.op = "find_ready"] IN
           y \in StepRec /\ y.op = "find_ready" /\ y.hart = x.hart /\ y.why = x.why
<1>1. x \in FindRec
  BY RecOf
<1>2. [x EXCEPT !.op = "find_ready"] \in FindRec
  BY <1>1 DEF FindRec, FindOps
<1> QED
  BY <1>1, <1>2 DEF FindRec, StepRec

-----------------------------------------------------------------------------
(* The types of all the state                                               *)

Plics == [priority : [Irq -> Nat], pending : SUBSET Irq,
          enable : [Ctx -> SUBSET Irq], threshold : [Ctx -> Nat]]
Uarts == [rx : 0..FifoSize, ier : SUBSET {"RDI", "THRI"}, iir : {"none", "RDI", "THRI"},
          txPending : BOOLEAN, dlab : BOOLEAN]
Tags  == (Vcpu \cup {NoVcpu}) \X Nat
Regs  == [vs : Tags, state : [Units -> {"initial", "clean", "dirty"}], reg : [Units -> Tags]]
Owns  == [n : Nat, reg : [Units -> Nat]]

TodoOK == todo \in [Cpu -> Seq(StepRec)]

TypeInv ==
    /\ RvTypeOK /\ TodoOK
    /\ plic \in Plics /\ uart \in Uarts
    /\ csr \in [Cpu -> Regs] /\ ctx \in [Vcpu -> Regs] /\ own \in [Vcpu -> Owns]

(* The constants.                                                           *)
LEMMA RvConstants ==
    /\ NCpu \in Nat \ {0} /\ NVcpu \in Nat \ {0} /\ 0 \in Cpu /\ NoVcpu \notin Vcpu
    /\ Vcpu \in SUBSET Int /\ Cpu \in SUBSET Int /\ Ctx \in SUBSET Int
    /\ IsFiniteSet(Vcpu) /\ IsFiniteSet(Cpu) /\ IsFiniteSet(Ctx)
    /\ Affinity \in [Vcpu -> Cpu] /\ AnyCpu \notin Cpu
<1>1. NCpu \in Nat \ {0} /\ NVcpu \in Nat \ {0}
  BY RvAssumption
<1>2. \A v \in Vcpu : v % NCpu \in Cpu
  BY <1>1 DEF Vcpu, Cpu
<1>3. Affinity \in [Vcpu -> Cpu]
  BY <1>2 DEF Affinity
<1>4. IsFiniteSet(Vcpu) /\ IsFiniteSet(Cpu)
  BY <1>1, FS_Interval DEF Vcpu, Cpu
<1> QED
  BY <1>1, <1>3, <1>4, VPlicAssumption DEF Vcpu, Cpu, NoVcpu, AnyCpu

(* What the steps at the head of a trap and behind it are.                  *)
LEMMA NowType ==
    ASSUME TodoOK, NEW p \in Cpu, todo[p] # <<>>
    PROVE  /\ Now(p) \in StepRec /\ Tail(todo[p]) \in Seq(StepRec)
           /\ Els(todo[p]) = {Now(p)} \cup Els(Tail(todo[p]))
BY ElsTail DEF TodoOK, Now

-----------------------------------------------------------------------------
(* The shapes of a trap.  Most of its steps can come in any order.  But the *)
(* count of a fence follows the fence at once, riscv_ipi_send_cpu_sync is   *)
(* at its head when it is in it, and sched_yield's switch goes through its  *)
(* steps with nothing in between: the outgoing vCPU is pinned here, so      *)
(* simple_scheduler_sched kicks nobody.                                     *)

SwitchOps == {"requeue", "switch", "publish"}
LoneOps   == SwitchOps \cup SyncOps \cup {"count"}
Calm(s) == \A x \in Els(s) : x.op \notin LoneOps

Counting(s) == s # <<>> /\ Head(s).op = "count" /\ Calm(Tail(s))
Syncing(s)  == s # <<>> /\ Head(s).op \in SyncOps /\ Calm(Tail(s))
Fencing(s)  == s # <<>> /\ Head(s).op = "hfence" /\ Counting(Tail(s))

Publishing(s, n) ==
    /\ s # <<>> /\ Head(s) = For("publish", n) /\ Calm(Tail(s))
    /\ \E x \in Els(Tail(s)) : x.op = "materialize"
Switching(s, n)  == s # <<>> /\ Head(s) = For("switch", n) /\ Publishing(Tail(s), n)
Requeueing(s, n) == s # <<>> /\ Head(s) = Step("requeue") /\ Switching(Tail(s), n)

(* A trap outside the switch, and one in it.                                *)
Outside(s) == Calm(s) \/ Counting(s) \/ Fencing(s) \/ Syncing(s)
Inside(s, n) == Requeueing(s, n) \/ Switching(s, n) \/ Publishing(s, n)

Shape == \A p \in Cpu : Outside(todo[p]) \/ \E n \in Vcpu : Inside(todo[p], n)

(* A step of pCPU p that leaves the switch, and a count, alone: it begins a *)
(* trap, or replaces its first step.                                        *)
Special == LoneOps \cup {"hfence"}
LightStep(p) ==
    \E s \in Seq(StepRec) :
        /\ Calm(s)
        /\ \/ /\ todo[p] = <<>>
              /\ todo' = [todo EXCEPT ![p] = s]
           \/ /\ todo[p] # <<>> /\ Now(p).op \notin Special
              /\ todo' = [todo EXCEPT ![p] = s \o Tail(todo[p])]

(* Do and Trap with plain steps are light.                                  *)
LEMMA DoLight ==
    ASSUME NEW p, NEW op, op \notin Special, At(p, op), NEW s \in Seq(StepRec), Calm(s), Do(p, s)
    PROVE  LightStep(p)
BY DEF LightStep, At, Now, Do, SetTodo

(* A trap begun with plain steps.                                           *)
LEMMA TrapLight ==
    ASSUME NEW p, NEW s \in Seq(StepRec), Calm(s), Trap(p, s)
    PROVE  LightStep(p)
BY DEF LightStep, Trap, SetTodo

(* The sequences of steps that actions write out.                           *)
LEMMA CalmLiteral ==
    /\ <<>> \in Seq(StepRec) /\ Calm(<<>>)
    /\ \A x \in StepRec : x.op \notin LoneOps =>
          <<x>> \in Seq(StepRec) /\ Calm(<<x>>)
    /\ \A x, y \in StepRec : x.op \notin LoneOps /\ y.op \notin LoneOps =>
          <<x, y>> \in Seq(StepRec) /\ Calm(<<x, y>>)
BY ElsLiteral DEF Calm

(* Steps put in front of others.                                            *)
LEMMA StepsConcat ==
    ASSUME NEW a \in Seq(StepRec), NEW b \in Seq(StepRec)
    PROVE  a \o b \in Seq(StepRec) /\ Els(a \o b) = Els(a) \cup Els(b)
BY ElsConcat

(* The first of them.                                                       *)
LEMMA StepsHead ==
    ASSUME NEW a \in Seq(StepRec), NEW b \in Seq(StepRec), a # <<>>
    PROVE  a \o b # <<>> /\ Head(a \o b) = Head(a) /\ Tail(a \o b) = Tail(a) \o b
BY ConcatHead

(* Plain steps in front of plain steps.                                     *)
LEMMA CalmConcat ==
    ASSUME NEW a \in Seq(StepRec), NEW b \in Seq(StepRec), Calm(a), Calm(b)
    PROVE  a \o b \in Seq(StepRec) /\ Calm(a \o b)
BY ElsConcat DEF Calm

(* Steps made for each number of a set.                                     *)
LEMMA CalmEach ==
    ASSUME NEW S \in SUBSET Int, IsFiniteSet(S), NEW f, f = [i \in 1..Cardinality(S) |-> f[i]],
           \A i \in 1..Cardinality(S) : f[i] \in StepRec /\ f[i].op \notin LoneOps
    PROVE  f \in Seq(StepRec) /\ Calm(f)
<1>1. Cardinality(S) \in Nat
  BY FS_CardinalityType
<1>2. f \in [1..Cardinality(S) -> StepRec]
  OBVIOUS
<1>3. f \in Seq(StepRec) /\ Len(f) = Cardinality(S)
  BY <1>1, <1>2
<1> QED
  BY <1>3 DEF Calm, Els

(* Every handler's step, those of the switch and of the fence apart, is     *)
(* light.                                                                   *)
LightAction(p) ==
    \/ Tick(p) \/ Soft(p) \/ Ext(p)
    \/ (Take(p) /\ "fence" \notin ipi[p])
    \/ (Yield(p) /\ UNCHANGED ready)
    \/ Materialize(p) \/ TimerRefresh(p)
    \/ FindRunning(p) \/ FindReady(p) \/ Inject(p) \/ Retract(p) \/ Kick(p) \/ SbiSendIpi(p)
    \/ Refresh(p) \/ Levels(p) \/ UartLine(p) \/ UpdateIrq(p) \/ Service(p) \/ IirTx(p)
    \/ Select(p) \/ Fences(p) \/ Redirect(p) \/ NoEffect(p) \/ SetTimer(p) \/ SendIpi(p) \/ ClearIpi(p) \/ RemoteFence(p)
    \/ UartLoad(p) \/ UartStore(p) \/ PlicLoad(p) \/ PlicStore(p)

(* The steps of remote fences, of the target and of the pCPU that waits.    *)
SyncAction(p) == SyncRead(p) \/ SyncSend(p) \/ SyncSbi(p) \/ SyncDone(p) \/ SyncTimeout(p)
FenceAction(p) == (Take(p) /\ "fence" \in ipi[p]) \/ Hfence(p) \/ Count(p) \/ SyncAction(p)

(* Tick, Soft and Ext begin a trap.                                         *)
LEMMA InterruptLight ==
    ASSUME TypeInv, NEW p \in Cpu, Tick(p) \/ Soft(p) \/ Ext(p)
    PROVE  LightStep(p)
<1> USE MakeRec DEF BareOps, SwitchOps, LoneOps, SyncOps
<1>1. CASE Tick(p)
  <2> DEFINE s == (IF p = 0 THEN <<Step("service")>> ELSE <<>>) \o <<Step("timer"), Step("yield")>>
  <2>0. Step("service") \in StepRec /\ Step("timer") \in StepRec /\ Step("yield") \in StepRec
    OBVIOUS
  <2>1. /\ <<Step("service")>> \in Seq(StepRec) /\ Calm(<<Step("service")>>)
        /\ <<>> \in Seq(StepRec) /\ Calm(<<>>)
        /\ <<Step("timer"), Step("yield")>> \in Seq(StepRec) /\ Calm(<<Step("timer"), Step("yield")>>)
    BY <2>0, CalmLiteral
  <2>2. s \in Seq(StepRec) /\ Calm(s)
    BY <2>1, CalmConcat
  <2>3. Trap(p, s)
    BY <1>1 DEF Tick
  <2> QED
    BY <2>2, <2>3, TrapLight
<1>2. CASE Soft(p)
  <2>0. /\ Step("take") \in StepRec /\ Step("refresh") \in StepRec
        /\ Step("materialize") \in StepRec /\ Step("yield") \in StepRec
    OBVIOUS
  <2>1. SoftSteps \in Seq(StepRec) /\ Calm(SoftSteps)
    BY <2>0, ElsLiteral DEF SoftSteps, Calm
  <2> QED
    BY <1>2, <2>1, TrapLight DEF Soft
<1>3. CASE Ext(p)
  <2>0. Step("service") \in StepRec
    OBVIOUS
  <2> QED
    BY <1>3, <2>0, CalmLiteral, TrapLight DEF Ext
<1> QED
  BY <1>1, <1>2, <1>3

(* riscv_find_guest_vcpu: the search goes on, or its caller does.           *)
LEMMA FindLight ==
    ASSUME TypeInv, NEW p \in Cpu, FindRunning(p) \/ FindReady(p)
    PROVE  LightStep(p)
<1>0. todo[p] # <<>> /\ Now(p) \in StepRec /\ Now(p).op \in FindOps
  BY NowType DEF TypeInv, FindRunning, FindReady, At, Now, FindOps
<1>1. Now(p).why \in FindWhys /\ Now(p).hart \in Vcpu \cup Ctx
  BY <1>0, RecOf
<1>2. CASE FindRunning(p)
  <2>1. CASE \E q \in Cpu : cur[q] = Now(p).hart
    <3>1. Now(p).hart \in Vcpu
      BY <1>1, <2>1, RvConstants, VPlicAssumption DEF TypeInv, RvTypeOK, NoVcpu
    <3> DEFINE x == For(Now(p).why, Now(p).hart)
    <3>2. x \in StepRec /\ x.op \notin LoneOps
      BY <1>1, <3>1, MakeRec DEF VcpuOps, FindWhys, SwitchOps, LoneOps, SyncOps
    <3>3. Do(p, <<x>>) /\ At(p, "find")
      BY <1>2, <2>1 DEF FindRunning
    <3> HIDE DEF x
    <3> QED
      BY <3>2, <3>3, CalmLiteral, DoLight DEF Special, SwitchOps, LoneOps, SyncOps
  <2>2. CASE ~\E q \in Cpu : cur[q] = Now(p).hart
    <3> DEFINE x == [Now(p) EXCEPT !.op = "find_ready"]
    <3>2. x \in StepRec /\ x.op \notin LoneOps
      BY <1>0, MakeFindReady DEF SwitchOps, LoneOps, SyncOps
    <3>3. Do(p, <<x>>) /\ At(p, "find")
      BY <1>2, <2>2 DEF FindRunning
    <3> HIDE DEF x
    <3> QED
      BY <3>2, <3>3, CalmLiteral, DoLight DEF Special, SwitchOps, LoneOps, SyncOps
  <2> QED
    BY <2>1, <2>2
<1>3. CASE FindReady(p)
  <2>1. CASE \E i \in 1..Len(ready) : ready[i] = Now(p).hart
    <3>1. Now(p).hart \in Vcpu
      BY <2>1, ElementOfSeq DEF TypeInv, RvTypeOK
    <3> DEFINE x == For(Now(p).why, Now(p).hart)
    <3>2. x \in StepRec /\ x.op \notin LoneOps
      BY <1>1, <3>1, MakeRec DEF VcpuOps, FindWhys, SwitchOps, LoneOps, SyncOps
    <3>3. Do(p, <<x>>) /\ At(p, "find_ready")
      BY <1>3, <2>1 DEF FindReady
    <3> HIDE DEF x
    <3> QED
      BY <3>2, <3>3, CalmLiteral, DoLight DEF Special, SwitchOps, LoneOps, SyncOps
  <2>2. CASE ~\E i \in 1..Len(ready) : ready[i] = Now(p).hart
    <3>1. Do(p, <<>>) /\ At(p, "find_ready")
      BY <1>3, <2>2 DEF FindReady
    <3> QED
      BY <3>1, CalmLiteral, DoLight DEF Special, SwitchOps, LoneOps, SyncOps
  <2> QED
    BY <2>1, <2>2
<1> QED
  BY <1>2, <1>3

(* Finite sets of numbers that the loops over harts and pCPUs run through.  *)
LEMMA EachLight ==
    ASSUME TypeInv, NEW p \in Cpu,
           SendIpi(p) \/ RemoteFence(p) \/ Levels(p) \/ Fences(p)
    PROVE  LightStep(p)
<1>0. \A S : S \subseteq Vcpu \/ S \subseteq Cpu \/ S = Ctx =>
        S \in SUBSET Int /\ IsFiniteSet(S) /\ \A i \in 1..Cardinality(S) : Nth(S, i) \in S
  <2> SUFFICES ASSUME NEW S, S \subseteq Vcpu \/ S \subseteq Cpu \/ S = Ctx
               PROVE  S \in SUBSET Int /\ IsFiniteSet(S) /\ \A i \in 1..Cardinality(S) : Nth(S, i) \in S
    OBVIOUS
  <2>1. S \in SUBSET Int
    BY RvConstants
  <2>2. IsFiniteSet(S)
    BY RvConstants, FS_Subset
  <2> QED
    BY <2>1, <2>2, NthIn
<1>1. CASE SendIpi(p)
  <2>1. PICK call \in Calls : LET soft(h) == Find("soft", h) IN Trap(p, ForEach(SendIpiHarts(call), soft))
    BY <1>1 DEF SendIpi
  <2> DEFINE S == SendIpiHarts(call)
             s == [i \in 1..Cardinality(S) |-> Find("soft", Nth(S, i))]
  <2>2. Trap(p, s)
    BY <2>1 DEF ForEach
  <2>3. S \subseteq Vcpu
    BY DEF SendIpiHarts
  <2> HIDE DEF S
  <2>4. \A i \in 1..Cardinality(S) : s[i] \in StepRec /\ s[i].op \notin LoneOps
    BY <1>0, <2>3, MakeRec DEF FindWhys, SwitchOps, LoneOps, SyncOps
  <2>5. s = [i \in 1..Cardinality(S) |-> s[i]]
    OBVIOUS
  <2> HIDE DEF s
  <2>6. s \in Seq(StepRec) /\ Calm(s)
    BY <1>0, <2>3, <2>4, <2>5, CalmEach
  <2> QED
    BY <2>2, <2>6, TrapLight
<1>2. CASE RemoteFence(p)
  <2>1. PICK call \in Calls :
          LET select(h) == Find("select", h)
          IN  Trap(p, ForEach({h \in Vcpu : GuestHartSelected(h, call)}, select) \o <<Step("fences")>>)
    BY <1>2 DEF RemoteFence
  <2> DEFINE S == {h \in Vcpu : GuestHartSelected(h, call)}
             s == [i \in 1..Cardinality(S) |-> Find("select", Nth(S, i))]
  <2>2. Trap(p, s \o <<Step("fences")>>)
    BY <2>1 DEF ForEach
  <2>3. S \subseteq Vcpu
    OBVIOUS
  <2> HIDE DEF S
  <2>4. \A i \in 1..Cardinality(S) : s[i] \in StepRec /\ s[i].op \notin LoneOps
    BY <1>0, <2>3, MakeRec DEF FindWhys, SwitchOps, LoneOps, SyncOps
  <2>5. s = [i \in 1..Cardinality(S) |-> s[i]]
    OBVIOUS
  <2> HIDE DEF s
  <2>6. s \in Seq(StepRec) /\ Calm(s)
    BY <1>0, <2>3, <2>4, <2>5, CalmEach
  <2>7. <<Step("fences")>> \in Seq(StepRec) /\ Calm(<<Step("fences")>>)
    BY MakeRec, CalmLiteral DEF BareOps, SwitchOps, LoneOps, SyncOps
  <2>8. s \o <<Step("fences")>> \in Seq(StepRec) /\ Calm(s \o <<Step("fences")>>)
    BY <2>6, <2>7, CalmConcat
  <2> QED
    BY <2>2, <2>8, TrapLight
<1>3. CASE Levels(p)
  <2> DEFINE s == [i \in 1..Cardinality(Ctx) |->
                      Find(IF HasDeliverable(plic, Nth(Ctx, i)) THEN "ext_on" ELSE "ext_off", Nth(Ctx, i))]
  <2>2. At(p, "levels") /\ Do(p, s)
    BY <1>3 DEF Levels, ForEach
  <2>4. \A i \in 1..Cardinality(Ctx) : s[i] \in StepRec /\ s[i].op \notin LoneOps
    BY <1>0, MakeRec DEF FindWhys, SwitchOps, LoneOps, SyncOps
  <2>5. s = [i \in 1..Cardinality(Ctx) |-> s[i]]
    OBVIOUS
  <2> HIDE DEF s
  <2>6. s \in Seq(StepRec) /\ Calm(s)
    BY <1>0, <2>4, <2>5, CalmEach
  <2> QED
    BY <2>2, <2>6, DoLight DEF Special, SwitchOps, LoneOps, SyncOps
<1>4. CASE Fences(p)
  <2> DEFINE S == sel[p]
             s == [i \in 1..Cardinality(S) |->
                      IF Nth(S, i) = p THEN Step("hfence") ELSE To("sync", Nth(S, i))]
  <2>2. At(p, "fences") /\ Do(p, s)
    BY <1>4 DEF Fences, ForEach
  <2>3. S \subseteq Cpu
    BY DEF TypeInv, RvTypeOK
  <2> HIDE DEF S
  <2>4. \A i \in 1..Cardinality(S) : s[i] \in StepRec /\ s[i].op \notin LoneOps
    BY <1>0, <2>3, MakeRec DEF BareOps, ToOps, SwitchOps, LoneOps, SyncOps
  <2>5. s = [i \in 1..Cardinality(S) |-> s[i]]
    OBVIOUS
  <2> HIDE DEF s
  <2>6. s \in Seq(StepRec) /\ Calm(s)
    BY <1>0, <2>3, <2>4, <2>5, CalmEach
  <2> QED
    BY <2>2, <2>6, DoLight DEF Special, SwitchOps, LoneOps, SyncOps
<1> QED
  BY <1>1, <1>2, <1>3, <1>4

(* inject_guest_soft_irq, vplic_set_task_vseip, riscv_vplic_refresh and     *)
(* ipi_send_reschedule push at most one step.                               *)
LEMMA PushLight ==
    ASSUME TypeInv, NEW p \in Cpu, Inject(p) \/ Kick(p) \/ Refresh(p)
    PROVE  LightStep(p)
<1>0. todo[p] # <<>> /\ Now(p) \in StepRec
  BY NowType DEF TypeInv, Inject, Kick, Refresh, At
<1>1. CASE Inject(p)
  <2>1. PICK op \in {"soft", "ext_on"} : At(p, op)
    BY <1>1 DEF Inject
  <2>2. Now(p).vcpu \in Vcpu
    BY <1>0, <2>1, RecOf DEF At, Now, VcpuOps, FindWhys
  <2>3. /\ To("kick", Affinity[Now(p).vcpu]) \in StepRec
        /\ To("kick", Affinity[Now(p).vcpu]).op \notin LoneOps
    BY <2>2, RvConstants, MakeRec DEF ToOps, SwitchOps, LoneOps, SyncOps
  <2>4. Do(p, <<>>) \/ Do(p, <<To("kick", Affinity[Now(p).vcpu])>>)
    BY <1>1 DEF Inject
  <2> QED
    BY <2>1, <2>3, <2>4, CalmLiteral, DoLight DEF Special, SwitchOps, LoneOps, SyncOps
<1>2. CASE Kick(p)
  <2>1. At(p, "kick") /\ Do(p, <<To("sbi", Now(p).to)>>)
    BY <1>2 DEF Kick
  <2>2. Now(p).to \in Cpu
    BY <1>0, <2>1, RecOf DEF At, Now, ToOps
  <2>3. To("sbi", Now(p).to) \in StepRec /\ To("sbi", Now(p).to).op \notin LoneOps
    BY <2>2, MakeRec DEF ToOps, SwitchOps, LoneOps, SyncOps
  <2> QED
    BY <2>1, <2>3, CalmLiteral, DoLight DEF Special, SwitchOps, LoneOps, SyncOps
<1>3. CASE Refresh(p)
  <2>1. /\ At(p, "refresh")
        /\ \/ Do(p, <<>>)
           \/ cur[p] # NoVcpu /\ Do(p, <<For("ext_on", cur[p])>>)
           \/ cur[p] # NoVcpu /\ Do(p, <<For("ext_off", cur[p])>>)
    BY <1>3 DEF Refresh
  <2>2. cur[p] # NoVcpu => cur[p] \in Vcpu
    BY DEF TypeInv, RvTypeOK
  <2>3. cur[p] # NoVcpu => /\ For("ext_on", cur[p]) \in StepRec /\ For("ext_off", cur[p]) \in StepRec
                           /\ For("ext_on", cur[p]).op \notin LoneOps
                           /\ For("ext_off", cur[p]).op \notin LoneOps
    BY <2>2, MakeRec DEF VcpuOps, FindWhys, SwitchOps, LoneOps, SyncOps
  <2> QED
    BY <2>1, <2>3, CalmLiteral, DoLight DEF Special, SwitchOps, LoneOps, SyncOps
<1> QED
  BY <1>1, <1>2, <1>3

(* The devices' steps.                                                      *)
LEMMA DeviceLight ==
    ASSUME TypeInv, NEW p \in Cpu,
           \/ UartLine(p) \/ UpdateIrq(p) \/ Service(p) \/ IirTx(p)
           \/ UartLoad(p) \/ UartStore(p) \/ PlicLoad(p) \/ PlicStore(p)
    PROVE  LightStep(p)
<1> USE CalmLiteral DEF Special, SwitchOps, LoneOps, SyncOps
<1>0. \A op \in {"levels", "lower", "raise", "update_irq", "service", "tx_clear"} :
         Step(op) \in StepRec /\ Step(op).op \notin LoneOps
  BY MakeRec DEF BareOps
<1>1. CASE UartLine(p)
  <2>1. (At(p, "raise") \/ At(p, "lower")) /\ Do(p, <<Step("levels")>>)
    BY <1>1 DEF UartLine
  <2> QED
    BY <1>0, <2>1, DoLight
<1>2. CASE UpdateIrq(p)
  <2>1. At(p, "update_irq") /\ (Do(p, <<Step("lower")>>) \/ Do(p, <<Step("raise")>>))
    BY <1>2 DEF UpdateIrq
  <2> QED
    BY <1>0, <2>1, DoLight
<1>3. CASE Service(p)
  <2> DEFINE a == <<Step("update_irq")>>
             b == IF RxFull(uart) THEN <<>> ELSE <<Step("service")>>
  <2>1. At(p, "service") /\ (Do(p, <<>>) \/ Do(p, a \o b))
    BY <1>3 DEF Service
  <2>2. a \in Seq(StepRec) /\ Calm(a) /\ b \in Seq(StepRec) /\ Calm(b)
    BY <1>0
  <2> HIDE DEF a, b
  <2>3. a \o b \in Seq(StepRec) /\ Calm(a \o b)
    BY <2>2, CalmConcat
  <2> QED
    BY <2>1, <2>3, DoLight
<1>4. CASE IirTx(p)
  BY <1>4, DoLight DEF IirTx
<1>5. CASE UartLoad(p)
  <2>1. PICK reg \in {"RBR", "IIR", "LSR"} :
           Trap(p, (IF reg = "IIR" /\ uart.iir = "THRI" THEN <<Step("tx_clear")>> ELSE <<>>)
                   \o IF UpdatesAfterRead(uart, reg) THEN <<Step("update_irq")>> ELSE <<>>)
    BY <1>5 DEF UartLoad
  <2> DEFINE a == IF reg = "IIR" /\ uart.iir = "THRI" THEN <<Step("tx_clear")>> ELSE <<>>
             b == IF UpdatesAfterRead(uart, reg) THEN <<Step("update_irq")>> ELSE <<>>
  <2>2. a \in Seq(StepRec) /\ Calm(a) /\ b \in Seq(StepRec) /\ Calm(b)
    BY <1>0
  <2>3. Trap(p, a \o b)
    BY <2>1
  <2> HIDE DEF a, b
  <2>4. a \o b \in Seq(StepRec) /\ Calm(a \o b)
    BY <2>2, CalmConcat
  <2> QED
    BY <2>3, <2>4, TrapLight
<1>6. CASE UartStore(p)
  <2>1. Trap(p, <<>>) \/ Trap(p, <<Step("update_irq")>>)
    BY <1>6 DEF UartStore
  <2> QED
    BY <1>0, <2>1, TrapLight
<1>7. CASE PlicLoad(p) \/ PlicStore(p)
  <2>1. Trap(p, <<Step("levels")>>)
    BY <1>7 DEF PlicLoad, PlicStore
  <2> QED
    BY <1>0, <2>1, TrapLight
<1> QED
  BY <1>1, <1>2, <1>3, <1>4, <1>5, <1>6, <1>7

(* All of them.                                                             *)
LEMMA AllLight ==
    ASSUME TypeInv, NEW p \in Cpu, LightAction(p)
    PROVE  LightStep(p)
<1> USE CalmLiteral DEF Special, SwitchOps, LoneOps, SyncOps
<1>1. CASE Take(p) /\ "fence" \notin ipi[p]
  <2>1. At(p, "take") /\ Do(p, <<>>)
    BY <1>1 DEF Take
  <2> QED
    BY <2>1, DoLight
<1>2. CASE Yield(p) /\ UNCHANGED ready
  <2>1. At(p, "yield")
    BY <1>2 DEF Yield
  <2>2. ASSUME NEW i \in 1..Len(ready), ready' = RemoveAt(ready, i) PROVE FALSE
    <3>1. Len(RemoveAt(ready, i)) = Len(ready) - 1 /\ Len(ready) \in Nat
      BY RemoveAtEntries, LenProperties DEF TypeInv, RvTypeOK
    <3>2. ready = RemoveAt(ready, i)
      BY <1>2, <2>2
    <3>3. Len(ready) = Len(ready) - 1
      BY <3>1, <3>2
    <3> QED
      BY <3>1, <3>3
  <2>3. Do(p, <<>>)
    BY <1>2, <2>2 DEF Yield
  <2> QED
    BY <2>1, <2>3, DoLight
<1>3. CASE Materialize(p) \/ TimerRefresh(p) \/ Retract(p) \/ SbiSendIpi(p) \/ Select(p)
  <2>1. \E op \in {"materialize", "timer", "ext_off", "sbi", "select"} :
          At(p, op) /\ Do(p, <<>>)
    BY <1>3 DEF Materialize, TimerRefresh, Retract, SbiSendIpi, Select
  <2> QED
    BY <2>1, DoLight
<1>4. CASE Redirect(p) \/ NoEffect(p) \/ ClearIpi(p)
  <2>1. Trap(p, <<>>)
    BY <1>4 DEF Redirect, NoEffect, ClearIpi
  <2> QED
    BY <2>1, TrapLight
<1>5. CASE SetTimer(p)
  <2>1. Trap(p, <<Step("timer")>>) /\ Step("timer") \in StepRec /\ Step("timer").op = "timer"
    BY <1>5, MakeRec DEF SetTimer, BareOps
  <2> QED
    BY <2>1, TrapLight
<1> QED
  BY <1>1, <1>2, <1>3, <1>4, <1>5, InterruptLight, FindLight, EachLight, PushLight, DeviceLight
  DEF LightAction

(* A light step happens in a trap outside the switch and leaves one.        *)
LEMMA LightCalm ==
    ASSUME TodoOK, NEW p \in Cpu, LightStep(p),
           Outside(todo[p]) \/ \E n \in Vcpu : Inside(todo[p], n)
    PROVE  /\ TodoOK' /\ Calm(todo[p]) /\ Calm(todo'[p])
           /\ \A q \in Cpu \ {p} : todo'[q] = todo[q]
           /\ todo[p] # <<>> => Els(Tail(todo[p])) \subseteq Els(todo'[p])
<1>1. CASE todo[p] = <<>>
  <2>1. PICK s \in Seq(StepRec) : Calm(s) /\ todo' = [todo EXCEPT ![p] = s]
    BY <1>1 DEF LightStep
  <2>2. Calm(todo[p])
    BY <1>1, ElsLiteral DEF Calm
  <2>3. todo'[p] = s
    BY <2>1 DEF TodoOK
  <2>4. TodoOK' /\ \A q \in Cpu \ {p} : todo'[q] = todo[q]
    BY <2>1 DEF TodoOK
  <2> QED
    BY <1>1, <2>1, <2>2, <2>3, <2>4
<1>2. CASE todo[p] # <<>>
  <2>1. PICK s \in Seq(StepRec) :
          Calm(s) /\ Now(p).op \notin Special /\ todo' = [todo EXCEPT ![p] = s \o Tail(todo[p])]
    BY <1>2 DEF LightStep
  <2>2. Now(p) \in StepRec /\ Tail(todo[p]) \in Seq(StepRec) /\ Els(todo[p]) = {Now(p)} \cup Els(Tail(todo[p]))
    BY <1>2, NowType
  <2>3. Calm(todo[p])
    <3>1. ~Counting(todo[p]) /\ ~Fencing(todo[p]) /\ ~Syncing(todo[p])
      BY <2>1 DEF Counting, Fencing, Syncing, Special, Now, LoneOps
    <3>2. ASSUME NEW n \in Vcpu, Inside(todo[p], n) PROVE FALSE
      <4>1. For("publish", n).op = "publish" /\ For("switch", n).op = "switch" /\ Step("requeue").op = "requeue"
        BY DEF For, Step
      <4> QED
        BY <2>1, <3>2, <4>1 DEF Inside, Requeueing, Switching, Publishing, Special, SwitchOps, LoneOps, SyncOps, Now
    <3> QED
      BY <3>1, <3>2 DEF Outside
  <2>4. Calm(Tail(todo[p]))
    BY <2>2, <2>3 DEF Calm
  <2> DEFINE t == s \o Tail(todo[p])
  <2>5. t \in Seq(StepRec) /\ Calm(t)
    BY <2>1, <2>2, <2>4, CalmConcat
  <2>6. Els(Tail(todo[p])) \subseteq Els(t)
    <3>1. Els(t) = Els(s) \cup Els(Tail(todo[p]))
      BY <2>2, StepsConcat
    <3> QED
      BY <3>1
  <2> HIDE DEF t
  <2>7. todo'[p] = t /\ \A q \in Cpu \ {p} : todo'[q] = todo[q]
    BY <2>1 DEF TodoOK, t
  <2>8. TodoOK'
    BY <2>1, <2>5 DEF TodoOK, t
  <2> QED
    BY <2>3, <2>5, <2>6, <2>7, <2>8
<1> QED
  BY <1>1, <1>2

-----------------------------------------------------------------------------
(* Where the vCPUs are                                                      *)

(* pCPU p has its own vCPUs only, and is in one of the shapes.  Outside the *)
(* switch its current vCPU is not on the list; in it the incoming one is on *)
(* no list, and the outgoing one is on it from its requeue on.              *)
AtHome(p) ==
    /\ cur[p] # NoVcpu => Affinity[cur[p]] = p
    /\ \/ Outside(todo[p]) /\ cur[p] \notin Listed
       \/ \E n \in Vcpu :
            /\ Affinity[n] = p /\ n \notin Listed /\ n # cur[p]
            /\ \/ Requeueing(todo[p], n) /\ cur[p] # NoVcpu /\ cur[p] \notin Listed
               \/ Switching(todo[p], n) /\ cur[p] \in Listed \cup {NoVcpu}
               \/ Publishing(todo[p], n) /\ cur[p] \in Listed \cup {NoVcpu}

Everyone == (Listed \cup UNION {Incoming(p) \cup {cur[p]} : p \in Cpu}) \ {NoVcpu}

PlaceInv ==
    /\ \A p \in Cpu : AtHome(p)
    /\ \A i, j \in 1..Len(ready) : ready[i] = ready[j] => i = j
    /\ \E last \in Vcpu : Everyone = 0..last

(* The incoming vCPU of a trap, by its shape.                               *)
Coming(s) == {x.vcpu : x \in {y \in Els(s) : y.op = "publish"}}

(* There is one while the trap is in the switch, none outside it.           *)
LEMMA ComingIs ==
    ASSUME NEW t \in Seq(StepRec)
    PROVE  /\ Outside(t) => Coming(t) = {}
           /\ \A n \in Vcpu : Inside(t, n) => Coming(t) = {n}
<1>2. ASSUME NEW s, Calm(s) PROVE Coming(s) = {}
  BY <1>2 DEF Calm, SwitchOps, LoneOps, SyncOps, Coming
<1>3. ASSUME NEW s \in Seq(StepRec), s # <<>>
      PROVE  /\ Tail(s) \in Seq(StepRec)
             /\ Coming(s) = Coming(Tail(s)) \cup (IF Head(s).op = "publish" THEN {Head(s).vcpu} ELSE {})
  <2>1. Tail(s) \in Seq(StepRec) /\ Els(s) = {Head(s)} \cup Els(Tail(s))
    BY <1>3, ElsTail
  <2> QED
    BY <2>1 DEF Coming
<1>5. Counting(t) => Coming(t) = {}
  BY <1>2, <1>3 DEF Counting
<1>6. Fencing(t) => Coming(t) = {}
  BY <1>2, <1>3 DEF Counting, Fencing
<1>4. Syncing(t) => Coming(t) = {}
  BY <1>2, <1>3 DEF Syncing, SyncOps
<1>7. ASSUME NEW n \in Vcpu
      PROVE  /\ For("publish", n).op = "publish" /\ For("publish", n).vcpu = n
             /\ For("switch", n).op # "publish" /\ Step("requeue").op # "publish"
  BY DEF For, Step
<1>8. ASSUME NEW n \in Vcpu, NEW s \in Seq(StepRec), Publishing(s, n) PROVE Coming(s) = {n}
  BY <1>2, <1>3, <1>7, <1>8 DEF Publishing
<1>9. ASSUME NEW n \in Vcpu, NEW s \in Seq(StepRec), Switching(s, n) PROVE Coming(s) = {n}
  BY <1>3, <1>7, <1>8, <1>9 DEF Switching
<1>10. ASSUME NEW n \in Vcpu, NEW s \in Seq(StepRec), Requeueing(s, n) PROVE Coming(s) = {n}
  BY <1>3, <1>7, <1>9, <1>10 DEF Requeueing
<1> QED
  BY <1>2, <1>4, <1>5, <1>6, <1>8, <1>9, <1>10 DEF Outside, Inside

(* A trap is not both in the switch and outside it.                         *)
LEMMA NotBoth ==
    ASSUME NEW t \in Seq(StepRec), Outside(t), NEW n \in Vcpu
    PROVE  ~Inside(t, n)
BY ComingIs

(* OnePlace's Incoming is Coming of the trap.                               *)
LEMMA IncomingIs == \A p \in Cpu : Incoming(p) = Coming(todo[p]) /\ Incoming(p)' = Coming(todo'[p])
BY DEF Incoming, Coming, Els

(* Who is in Everyone.                                                      *)
LEMMA EveryoneIs ==
    /\ \A x : x \in Everyone <=>
          x # NoVcpu /\ (x \in Listed \/ \E q \in Cpu : x \in Incoming(q) \/ x = cur[q])
    /\ \A x : x \in Everyone' <=>
          x # NoVcpu /\ (x \in Listed' \/ \E q \in Cpu : x \in Incoming(q)' \/ x = cur'[q])
BY DEF Everyone

(* PlaceInv fixes the shape of every trap.                                  *)
LEMMA PlaceShape ==
    ASSUME PlaceInv, NEW p \in Cpu
    PROVE  Outside(todo[p]) \/ \E n \in Vcpu : Inside(todo[p], n)
BY DEF PlaceInv, AtHome, Inside

(* A vCPU is pinned, so it is current on one pCPU at most.                  *)
LEMMA OneCurrent ==
    ASSUME PlaceInv, NEW p \in Cpu, NEW q \in Cpu, cur[p] = cur[q], cur[p] # NoVcpu
    PROVE  p = q
BY DEF PlaceInv, AtHome

(* A step that moves no vCPU and keeps each trap outside or in its place in *)
(* the switch keeps PlaceInv.                                               *)
LEMMA PlaceKept ==
    ASSUME PlaceInv, TodoOK, TodoOK', UNCHANGED <<ready, cur>>, NEW p \in Cpu,
           Outside(todo[p]), Outside(todo'[p]), \A q \in Cpu \ {p} : todo'[q] = todo[q]
    PROVE  PlaceInv' /\ Everyone' = Everyone /\ \A q \in Cpu : Incoming(q)' = Incoming(q)
<1>1. Listed' = Listed
  BY DEF Listed
<1>2. \A q \in Cpu : AtHome(q)'
  <2> SUFFICES ASSUME NEW q \in Cpu PROVE AtHome(q)'
    OBVIOUS
  <2>1. CASE q = p
    <3>1. cur[p] \notin Listed
      <4>1. \A n \in Vcpu : ~Inside(todo[p], n)
        BY NotBoth DEF TodoOK
      <4> QED
        BY <4>1 DEF PlaceInv, AtHome, Inside
    <3> QED
      BY <1>1, <2>1, <3>1 DEF PlaceInv, AtHome
  <2>2. CASE q # p
    <3>1. todo'[q] = todo[q] /\ cur'[q] = cur[q] /\ AtHome(q)
      BY <2>2 DEF PlaceInv
    <3> QED
      BY <1>1, <3>1 DEF AtHome
  <2> QED
    BY <2>1, <2>2
<1>3. \A q \in Cpu : Incoming(q)' = Incoming(q)
  <2> SUFFICES ASSUME NEW q \in Cpu PROVE Incoming(q)' = Incoming(q)
    OBVIOUS
  <2>1. CASE q = p
    <3>1. Coming(todo[p]) = {} /\ Coming(todo'[p]) = {}
      BY ComingIs DEF TodoOK
    <3> QED
      BY <2>1, <3>1, IncomingIs
  <2>2. CASE q # p
    BY <2>2 DEF Incoming
  <2> QED
    BY <2>1, <2>2
<1>4. Everyone' = Everyone
  <2>1. {Incoming(q)' \cup {cur[q]'} : q \in Cpu} = {Incoming(q) \cup {cur[q]} : q \in Cpu}
    BY <1>3
  <2> QED
    BY <1>1, <2>1 DEF Everyone
<1> QED
  BY <1>2, <1>3, <1>4 DEF PlaceInv

(* A trap outside the switch whose first step is not special is calm.       *)
LEMMA CalmHead ==
    ASSUME PlaceInv, TodoOK, NEW p \in Cpu, todo[p] # <<>>, Now(p).op \notin SwitchOps
    PROVE  /\ Outside(todo[p])
           /\ Now(p).op \notin SyncOps \cup {"count", "hfence"} => Calm(todo[p])
           /\ Now(p).op = "hfence" => Calm(todo[p]) \/ Fencing(todo[p])
           /\ Now(p).op = "count" => Counting(todo[p])
           /\ Now(p).op \in SyncOps => Syncing(todo[p])
<1>1. ASSUME NEW n \in Vcpu, Inside(todo[p], n) PROVE FALSE
  <2>1. For("publish", n).op = "publish" /\ For("switch", n).op = "switch" /\ Step("requeue").op = "requeue"
    BY DEF For, Step
  <2> QED
    BY <1>1, <2>1 DEF Inside, Requeueing, Switching, Publishing, SwitchOps, LoneOps, SyncOps, Now
<1>2. Outside(todo[p])
  BY <1>1, PlaceShape
<1>3. Now(p).op \in SyncOps \cup {"count"} => ~Calm(todo[p])
  BY NowType DEF Calm, LoneOps
<1> QED
  BY <1>2, <1>3 DEF Outside, Counting, Fencing, Syncing, SyncOps, Now

(* ipi_handle's fence and its count                                         *)
LEMMA FenceShape ==
    ASSUME TodoOK, PlaceInv, NEW p \in Cpu, (Take(p) /\ "fence" \in ipi[p]) \/ Hfence(p) \/ Count(p)
    PROVE  /\ TodoOK' /\ Outside(todo[p]) /\ Outside(todo'[p])
           /\ \A q \in Cpu \ {p} : todo'[q] = todo[q]
           /\ Els(Tail(todo[p])) \subseteq Els(todo'[p])
           /\ todo[p] # <<>>
<1>0. /\ todo[p] # <<>> /\ Now(p).op \in {"take", "hfence", "count"}
      /\ Now(p) \in StepRec /\ Tail(todo[p]) \in Seq(StepRec)
      /\ Els(todo[p]) = {Now(p)} \cup Els(Tail(todo[p]))
  BY NowType DEF Take, Hfence, Count, At, Now
<1>1. Outside(todo[p])
  BY <1>0, CalmHead DEF SwitchOps, LoneOps, SyncOps
<1>2. CASE Take(p) /\ "fence" \in ipi[p]
  <2> DEFINE a == <<Step("hfence"), Step("count")>>
             r == Tail(todo[p])
  <2>1. todo' = [todo EXCEPT ![p] = a \o r] /\ Now(p).op = "take"
    BY <1>2 DEF Take, Do, SetTodo, At, Now
  <2>2. Calm(r)
    BY <1>0, <2>1, CalmHead DEF SwitchOps, LoneOps, SyncOps, Calm
  <2>3. Step("hfence") \in StepRec /\ Step("count") \in StepRec /\ Step("count").op = "count" /\ Step("hfence").op = "hfence"
    BY MakeRec DEF BareOps
  <2>4. a \in Seq(StepRec) /\ a # <<>> /\ Head(a) = Step("hfence") /\ Tail(a) = <<Step("count")>>
    BY <2>3
  <2>5. Tail(a) \in Seq(StepRec) /\ Tail(a) # <<>> /\ Head(Tail(a)) = Step("count") /\ Tail(Tail(a)) = <<>>
    BY <2>3, <2>4
  <2>6. /\ a \o r # <<>> /\ Head(a \o r) = Step("hfence") /\ Tail(a \o r) = Tail(a) \o r
    BY <1>0, <2>4, ConcatHead
  <2>7. /\ Tail(a) \o r # <<>> /\ Head(Tail(a) \o r) = Step("count") /\ Tail(Tail(a) \o r) = Tail(Tail(a)) \o r
    BY <1>0, <2>5, ConcatHead
  <2>8. <<>> \o r = r
    BY <1>0
  <2>9. a \o r \in Seq(StepRec) /\ Els(r) \subseteq Els(a \o r)
    <3>1. a \o r \in Seq(StepRec) /\ Els(a \o r) = Els(a) \cup Els(r)
      BY <1>0, <2>4, StepsConcat
    <3> QED
      BY <3>1
  <2> HIDE DEF a, r
  <2>10. Counting(Tail(a) \o r)
    BY <2>2, <2>3, <2>5, <2>7, <2>8 DEF Counting
  <2>11. Fencing(a \o r)
    BY <2>3, <2>6, <2>10 DEF Fencing
  <2>12. todo'[p] = a \o r /\ TodoOK' /\ \A q \in Cpu \ {p} : todo'[q] = todo[q]
    BY <2>1, <2>9 DEF TodoOK
  <2> QED
    BY <1>0, <1>1, <2>9, <2>11, <2>12 DEF Outside, r
<1>3. CASE Hfence(p) \/ Count(p)
  <2>1. todo' = [todo EXCEPT ![p] = <<>> \o Tail(todo[p])] /\ Now(p).op \in {"hfence", "count"}
    BY <1>3 DEF Hfence, Count, Do, SetTodo, At, Now
  <2>2. <<>> \o Tail(todo[p]) = Tail(todo[p])
    BY <1>0
  <2>3. todo'[p] = Tail(todo[p]) /\ TodoOK' /\ \A q \in Cpu \ {p} : todo'[q] = todo[q]
    BY <1>0, <2>1, <2>2 DEF TodoOK
  <2>4. Calm(todo[p]) => Calm(Tail(todo[p]))
    BY <1>0 DEF Calm
  <2>5. Outside(Tail(todo[p]))
    BY <1>0, <1>1, <2>1, <2>4 DEF Outside, Counting, Fencing, Syncing, SyncOps, Now
  <2> QED
    BY <1>0, <1>1, <2>3, <2>5
<1> QED
  BY <1>2, <1>3

(* A step that pushes nothing drops the first one.                          *)
LEMMA Pop ==
    ASSUME TodoOK, NEW p \in Cpu, todo[p] # <<>>, Do(p, <<>>)
    PROVE  todo'[p] = Tail(todo[p]) /\ TodoOK' /\ \A q \in Cpu \ {p} : todo'[q] = todo[q]
<1>1. Tail(todo[p]) \in Seq(StepRec)
  BY NowType
<1>2. <<>> \o Tail(todo[p]) = Tail(todo[p])
  BY <1>1
<1> QED
  BY <1>1, <1>2 DEF TodoOK, Do, SetTodo

(* riscv_ipi_send_cpu_sync: one step takes the place of another, until it   *)
(* returns.                                                                 *)
LEMMA SyncShape ==
    ASSUME TypeInv, PlaceInv, NEW p \in Cpu, SyncAction(p)
    PROVE  /\ TodoOK' /\ Outside(todo[p]) /\ Outside(todo'[p])
           /\ \A q \in Cpu \ {p} : todo'[q] = todo[q]
           /\ Els(Tail(todo[p])) \subseteq Els(todo'[p])
           /\ todo[p] # <<>>
           /\ SyncDone(p) \/ SyncTimeout(p) => Calm(todo'[p])
           /\ SyncRead(p) => /\ todo'[p] # <<>> /\ Now(p).to \in Cpu
                             /\ Head(todo'[p]) = [op |-> "sync_send", to |-> Now(p).to, before |-> done[Now(p).to],
                                                  ahead |-> At(Now(p).to, "count")]
           /\ SyncSend(p) \/ SyncSbi(p) => /\ todo'[p] # <<>> /\ Head(todo'[p]).op \in SyncOps
                                           /\ Head(todo'[p]).to = Now(p).to /\ Head(todo'[p]).before = Now(p).before
                                           /\ Head(todo'[p]).ahead = Now(p).ahead
<1> DEFINE r == Tail(todo[p])
           first == [op |-> "sync_send", to |-> Now(p).to, before |-> done[Now(p).to], ahead |-> At(Now(p).to, "count")]
<1>0. /\ TodoOK /\ todo[p] # <<>> /\ Now(p) \in StepRec /\ Now(p).op \in SyncOps \cup {"sync"}
      /\ r \in Seq(StepRec) /\ Els(todo[p]) = {Now(p)} \cup Els(r)
      /\ SyncRead(p) => Now(p).op = "sync"
      /\ SyncSend(p) => Now(p).op = "sync_send"
      /\ SyncSbi(p) => Now(p).op = "sync_sbi"
      /\ SyncDone(p) \/ SyncTimeout(p) => Now(p).op = "sync_wait"
  BY NowType DEF TypeInv, SyncAction, SyncRead, SyncSend, SyncSbi, SyncDone, SyncTimeout, Acknowledged, At, Now, SyncOps
<1>1. Outside(todo[p]) /\ Calm(r)
  <2>1. Outside(todo[p]) /\ (Calm(todo[p]) \/ Syncing(todo[p]))
    BY <1>0, CalmHead DEF SwitchOps, SyncOps
  <2>2. Calm(todo[p]) => Calm(r)
    BY <1>0 DEF Calm
  <2> QED
    BY <2>1, <2>2 DEF Syncing
<1> HIDE DEF r
<1>2. ASSUME NEW x \in StepRec, x.op \in SyncOps, Do(p, <<x>>)
      PROVE  /\ TodoOK' /\ Outside(todo'[p]) /\ todo'[p] # <<>> /\ Head(todo'[p]) = x
             /\ \A q \in Cpu \ {p} : todo'[q] = todo[q]
             /\ Els(r) \subseteq Els(todo'[p])
  <2> DEFINE t == <<x>> \o r
  <2>1. <<x>> \in Seq(StepRec) /\ <<x>> # <<>> /\ Head(<<x>>) = x /\ Tail(<<x>>) = <<>>
    OBVIOUS
  <2>2. t # <<>> /\ Head(t) = x /\ Tail(t) = <<>> \o r
    BY <1>0, <2>1, StepsHead
  <2>3. t \in Seq(StepRec) /\ Els(t) = Els(<<x>>) \cup Els(r)
    BY <1>0, <2>1, StepsConcat
  <2>4. <<>> \o r = r
    BY <1>0
  <2>5. todo' = [todo EXCEPT ![p] = t]
    BY <1>2 DEF Do, SetTodo, r
  <2> HIDE DEF t
  <2>6. Syncing(t)
    BY <1>1, <1>2, <2>2, <2>4 DEF Syncing
  <2>7. todo'[p] = t /\ \A q \in Cpu \ {p} : todo'[q] = todo[q]
    BY <1>0, <2>5 DEF TodoOK
  <2>8. TodoOK'
    BY <1>0, <2>3, <2>5 DEF TodoOK
  <2> QED
    BY <2>2, <2>3, <2>6, <2>7, <2>8 DEF Outside
<1>3. CASE SyncRead(p)
  <2>1. Now(p).to \in Cpu /\ Now(p).op = "sync"
    BY <1>0, <1>3, RecOf DEF ToOps
  <2>2. first.op = "sync_send" /\ first \in SyncRec
    BY <2>1 DEF TypeInv, RvTypeOK, SyncRec, SyncOps, At
  <2>3. first \in StepRec /\ first.op \in SyncOps
    BY <2>2 DEF StepRec, SyncOps
  <2>4. Do(p, <<first>>)
    BY <1>3 DEF SyncRead
  <2> HIDE DEF first
  <2>5. ~SyncDone(p) /\ ~SyncTimeout(p) /\ ~SyncSend(p) /\ ~SyncSbi(p)
    BY <1>0, <2>1
  <2>6. /\ TodoOK' /\ Outside(todo'[p]) /\ todo'[p] # <<>> /\ Head(todo'[p]) = first
        /\ \A q \in Cpu \ {p} : todo'[q] = todo[q]
        /\ Els(r) \subseteq Els(todo'[p])
    BY <1>2, <2>3, <2>4
  <2> QED
    BY <1>0, <1>1, <2>1, <2>5, <2>6 DEF first, r
<1>4. CASE SyncSend(p) \/ SyncSbi(p)
  <2>0. Now(p).op \in SyncOps /\ Now(p).op # "sync_wait" /\ Now(p).op # "sync"
    BY <1>0, <1>4 DEF SyncOps
  <2>1. PICK op \in SyncOps : Do(p, <<[Now(p) EXCEPT !.op = op]>>)
    BY <1>4 DEF SyncSend, SyncSbi, SyncOps
  <2> DEFINE x == [Now(p) EXCEPT !.op = op]
  <2>2. x \in StepRec /\ x.op = op /\ x.to = Now(p).to /\ x.before = Now(p).before /\ x.ahead = Now(p).ahead
    BY <1>0, <2>0, MakeSync
  <2> HIDE DEF x
  <2>3. ~SyncDone(p) /\ ~SyncTimeout(p) /\ ~SyncRead(p)
    BY <1>0, <2>0
  <2>4. /\ TodoOK' /\ Outside(todo'[p]) /\ todo'[p] # <<>> /\ Head(todo'[p]) = x
        /\ \A q \in Cpu \ {p} : todo'[q] = todo[q]
        /\ Els(r) \subseteq Els(todo'[p])
    BY <1>2, <2>1, <2>2 DEF x
  <2> QED
    BY <1>0, <1>1, <2>2, <2>3, <2>4 DEF r
<1>5. CASE SyncDone(p) \/ SyncTimeout(p)
  <2>1. Do(p, <<>>) /\ Now(p).op = "sync_wait"
    BY <1>0, <1>5 DEF SyncDone, SyncTimeout
  <2>2. todo'[p] = r /\ TodoOK' /\ \A q \in Cpu \ {p} : todo'[q] = todo[q]
    BY <1>0, <2>1, Pop DEF r
  <2>3. ~SyncSend(p) /\ ~SyncSbi(p) /\ ~SyncRead(p)
    BY <1>0, <2>1
  <2> QED
    BY <1>0, <1>1, <2>2, <2>3 DEF Outside, r
<1> QED
  BY <1>3, <1>4, <1>5 DEF SyncAction

(* sched_yield's first step: a vCPU comes in.                               *)
LEMMA YieldPlace ==
    ASSUME TypeInv, PlaceInv, NEW p \in Cpu, NEW i \in 1..Len(ready), At(p, "yield"),
           IsNext(ready, Priority, Affinity, p, cur[p], NoVcpu, i),
           ready' = RemoveAt(ready, i), Do(p, SwitchTo(p, ready[i])), cur' = cur
    PROVE  /\ TodoOK' /\ PlaceInv' /\ ready' \in Seq(Vcpu)
           /\ Calm(todo[p]) /\ (Requeueing(todo'[p], ready[i]) \/ Switching(todo'[p], ready[i]))
           /\ \A q \in Cpu \ {p} : todo'[q] = todo[q]
           /\ Els(Tail(todo[p])) \subseteq Els(todo'[p])
           /\ Everyone' = Everyone /\ Listed' = Listed \ {ready[i]}
<1> DEFINE n == ready[i]
           r == Tail(todo[p])
           body == <<For("switch", n), For("publish", n), Step("timer"), Step("refresh"), Step("materialize")>>
           pre == IF cur[p] = NoVcpu THEN <<>> ELSE <<Step("requeue")>>
<1>0. /\ todo[p] # <<>> /\ Now(p).op = "yield" /\ Now(p) \in StepRec /\ r \in Seq(StepRec)
      /\ Els(todo[p]) = {Now(p)} \cup Els(r)
  BY NowType DEF At, Now, TypeInv
<1>1. Calm(todo[p]) /\ Calm(r)
  BY <1>0, CalmHead DEF SwitchOps, LoneOps, SyncOps, Calm, TypeInv
<1>2. n \in Vcpu /\ n \in Listed /\ ready \in Seq(Vcpu)
  BY ElementOfSeq DEF TypeInv, RvTypeOK, Listed
<1>3. Affinity[n] = p
  <2>1. Affinity[n] \in {AnyCpu, p}
    BY DEF IsNext, IsFirstEligible, Eligible
  <2> QED
    BY <1>2, <2>1, RvConstants
<1>4. /\ ready' \in Seq(Vcpu) /\ Listed' = Listed \ {n}
      /\ \A k, j \in 1..Len(ready') : ready'[k] = ready'[j] => k = j
  <2>1. Len(ready) \in Nat /\ DOMAIN ready = 1..Len(ready)
    BY <1>2, LenProperties
  <2>2. IsInjective(ready)
    BY <2>1 DEF PlaceInv, IsInjective
  <2>3. /\ ready' \in Seq(Vcpu) /\ IsInjective(ready')
        /\ ToSet(ready') = ToSet(ready) \ {n}
    BY <1>2, <2>2, RemoveKeepsUnique
  <2>4. Len(ready') \in Nat /\ DOMAIN ready' = 1..Len(ready')
    BY <2>3, LenProperties
  <2>5. ToSet(ready) = Listed /\ ToSet(ready') = Listed'
    BY <2>1, <2>4 DEF ToSet, Listed
  <2> QED
    BY <2>3, <2>4, <2>5 DEF IsInjective
<1>5. /\ For("switch", n) \in StepRec /\ For("publish", n) \in StepRec /\ Step("timer") \in StepRec
      /\ Step("refresh") \in StepRec /\ Step("materialize") \in StepRec /\ Step("requeue") \in StepRec
      /\ Step("materialize").op = "materialize" /\ Step("refresh").op = "refresh" /\ Step("timer").op = "timer"
  BY <1>2, MakeRec DEF BareOps, VcpuOps
<1> DEFINE b1 == <<For("publish", n), Step("timer"), Step("refresh"), Step("materialize")>>
           b2 == <<Step("timer"), Step("refresh"), Step("materialize")>>
<1> HIDE DEF n, r
<1>6. /\ body \in Seq(StepRec) /\ body # <<>> /\ Head(body) = For("switch", n) /\ Tail(body) = b1
      /\ b1 \in Seq(StepRec) /\ b1 # <<>> /\ Head(b1) = For("publish", n) /\ Tail(b1) = b2
      /\ b2 \in Seq(StepRec) /\ Els(b2) = {Step("timer"), Step("refresh"), Step("materialize")}
      /\ pre \in Seq(StepRec)
  BY <1>5, ElsLiteral
<1> HIDE DEF body, b1, b2
<1>7. Switching(body \o r, n)
  <2>1. body \o r # <<>> /\ Head(body \o r) = For("switch", n) /\ Tail(body \o r) = b1 \o r
    BY <1>0, <1>6, ConcatHead
  <2>2. b1 \o r # <<>> /\ Head(b1 \o r) = For("publish", n) /\ Tail(b1 \o r) = b2 \o r
    BY <1>0, <1>6, ConcatHead
  <2>3. Els(b2 \o r) = Els(b2) \cup Els(r)
    BY <1>0, <1>6, StepsConcat
  <2>4. Calm(b2 \o r) /\ \E x \in Els(b2 \o r) : x.op = "materialize"
    BY <1>1, <1>5, <1>6, <2>3 DEF Calm, SwitchOps, LoneOps, SyncOps
  <2> QED
    BY <2>1, <2>2, <2>4 DEF Switching, Publishing
<1>8. body \o r \in Seq(StepRec) /\ Els(r) \subseteq Els(body \o r)
  <2>1. body \o r \in Seq(StepRec) /\ Els(body \o r) = Els(body) \cup Els(r)
    BY <1>0, <1>6, StepsConcat
  <2> QED
    BY <2>1
<1>9. todo' = [todo EXCEPT ![p] = (pre \o body) \o r]
  BY DEF Do, SetTodo, SwitchTo, n, r, body
<1>10. /\ (pre \o body) \o r \in Seq(StepRec)
       /\ Els(r) \subseteq Els((pre \o body) \o r)
       /\ cur[p] = NoVcpu => Switching((pre \o body) \o r, n)
       /\ cur[p] # NoVcpu => Requeueing((pre \o body) \o r, n)
  <2>1. CASE cur[p] = NoVcpu
    <3>1. pre \o body = body
      BY <1>6, <2>1
    <3> QED
      BY <1>7, <1>8, <2>1, <3>1
  <2>2. CASE cur[p] # NoVcpu
    <3>1. pre = <<Step("requeue")>>
      BY <2>2
    <3>2. pre \in Seq(StepRec) /\ pre # <<>> /\ Head(pre) = Step("requeue") /\ Tail(pre) = <<>>
      BY <1>5, <3>1
    <3> HIDE DEF pre
    <3>3. pre \o body \in Seq(StepRec)
      BY <1>6, <3>2, StepsConcat
    <3>4. pre \o body # <<>> /\ Head(pre \o body) = Head(pre) /\ Tail(pre \o body) = Tail(pre) \o body
      BY <1>6, <3>2, StepsHead
    <3>5. /\ (pre \o body) \o r # <<>> /\ Head((pre \o body) \o r) = Step("requeue")
          /\ Tail((pre \o body) \o r) = body \o r
      <4>1. /\ (pre \o body) \o r # <<>> /\ Head((pre \o body) \o r) = Head(pre \o body)
            /\ Tail((pre \o body) \o r) = Tail(pre \o body) \o r
        BY <1>0, <3>3, <3>4, StepsHead
      <4>2. <<>> \o body = body
        BY <1>6
      <4> QED
        BY <3>2, <3>4, <4>1, <4>2
    <3>6. (pre \o body) \o r \in Seq(StepRec) /\ Els((pre \o body) \o r) = Els(pre \o body) \cup Els(r)
      BY <1>0, <3>3, StepsConcat
    <3> QED
      BY <1>7, <2>2, <3>5, <3>6 DEF Requeueing
  <2> QED
    BY <2>1, <2>2
<1> DEFINE t == (pre \o body) \o r
<1> HIDE DEF t, pre
<1>11. todo'[p] = t /\ TodoOK' /\ \A q \in Cpu \ {p} : todo'[q] = todo[q]
  BY <1>9, <1>10 DEF TodoOK, TypeInv, t
<1>12. cur[p] \notin Listed /\ cur[p] # n
  <2>1. \A m \in Vcpu : ~Inside(todo[p], m)
    BY <1>1, NotBoth DEF TodoOK, TypeInv, Outside
  <2>2. cur[p] \notin Listed
    BY <2>1 DEF PlaceInv, AtHome, Inside
  <2> QED
    BY <1>2, <2>2
<1>13. \A q \in Cpu : AtHome(q)'
  <2> SUFFICES ASSUME NEW q \in Cpu PROVE AtHome(q)'
    OBVIOUS
  <2>0. AtHome(q)
    BY DEF PlaceInv
  <2>1. CASE q = p
    <3>1. cur'[p] # NoVcpu => Affinity[cur'[p]] = p
      BY <2>0, <2>1 DEF AtHome
    <3>2. n \notin Listed' /\ n # cur'[p] /\ cur'[p] \notin Listed'
      BY <1>4, <1>12
    <3>3. cur'[p] = NoVcpu => Switching(todo'[p], n)
      BY <1>10, <1>11 DEF t
    <3>4. cur'[p] # NoVcpu => Requeueing(todo'[p], n)
      BY <1>10, <1>11 DEF t
    <3> QED
      BY <1>2, <1>3, <2>1, <3>1, <3>2, <3>3, <3>4 DEF AtHome
  <2>2. CASE q # p
    <3>1. todo'[q] = todo[q] /\ cur'[q] = cur[q]
      BY <1>11, <2>2
    <3>2. cur[q] # n
      BY <1>2, <1>3, <2>0, <2>2, RvConstants DEF AtHome
    <3>3. cur[q] \in Listed <=> cur[q] \in Listed'
      BY <1>4, <3>2
    <3>4. \A m \in Vcpu : m \notin Listed => m \notin Listed'
      BY <1>4
    <3> QED
      BY <2>0, <3>1, <3>3, <3>4 DEF AtHome
  <2> QED
    BY <2>1, <2>2
<1>14. Everyone' = Everyone
  <2>1. Incoming(p) = {} /\ Incoming(p)' = {n}
    <3>1. Outside(todo[p]) /\ Inside(todo'[p], n)
      BY <1>1, <1>10, <1>11 DEF Outside, Inside, t
    <3>2. todo[p] \in Seq(StepRec) /\ todo'[p] \in Seq(StepRec)
      BY <1>11 DEF TypeInv, TodoOK
    <3>3. Coming(todo[p]) = {} /\ Coming(todo'[p]) = {n}
      BY <1>2, <3>1, <3>2, ComingIs
    <3> QED
      BY <3>3, IncomingIs
  <2>2. \A q \in Cpu \ {p} : Incoming(q)' = Incoming(q)
    BY <1>11, IncomingIs
  <2>3. \A x : x \in Everyone' <=> x \in Everyone
    BY <1>2, <1>4, <2>1, <2>2, EveryoneIs, RvConstants
  <2> QED
    BY <2>3
<1>15. PlaceInv'
  BY <1>4, <1>13, <1>14 DEF PlaceInv
<1> QED
  BY <1>1, <1>4, <1>10, <1>11, <1>14, <1>15 DEF n, r, t

(* A first step of the switch says where in it the trap is.                 *)
LEMMA InsideHead ==
    ASSUME PlaceInv, TodoOK, NEW p \in Cpu, NEW op \in SwitchOps, At(p, op)
    PROVE  \E n \in Vcpu :
            /\ Affinity[n] = p /\ n \notin Listed /\ n # cur[p]
            /\ op = "requeue" => Requeueing(todo[p], n) /\ cur[p] # NoVcpu /\ cur[p] \notin Listed
            /\ op = "switch" => /\ Switching(todo[p], n) /\ Now(p).vcpu = n
                                /\ cur[p] \in Listed \cup {NoVcpu}
            /\ op = "publish" => /\ Publishing(todo[p], n) /\ Now(p).vcpu = n
                                 /\ cur[p] \in Listed \cup {NoVcpu}
<1>1. todo[p] # <<>> /\ Now(p).op = op /\ Now(p) = Head(todo[p])
  BY DEF At, Now
<1>2. ~Outside(todo[p])
  <2>1. ~Calm(todo[p])
    BY <1>1, NowType DEF Calm, LoneOps
  <2> QED
    BY <1>1, <2>1 DEF Outside, Counting, Fencing, Syncing, SwitchOps, LoneOps, SyncOps
<1>3. PICK n \in Vcpu :
         /\ Affinity[n] = p /\ n \notin Listed /\ n # cur[p]
         /\ \/ Requeueing(todo[p], n) /\ cur[p] # NoVcpu /\ cur[p] \notin Listed
            \/ Switching(todo[p], n) /\ cur[p] \in Listed \cup {NoVcpu}
            \/ Publishing(todo[p], n) /\ cur[p] \in Listed \cup {NoVcpu}
  BY <1>2 DEF PlaceInv, AtHome
<1>4. /\ For("publish", n).op = "publish" /\ For("switch", n).op = "switch" /\ Step("requeue").op = "requeue"
      /\ For("publish", n).vcpu = n /\ For("switch", n).vcpu = n
  BY DEF For, Step
<1>5. /\ op = "requeue" => Requeueing(todo[p], n) /\ cur[p] # NoVcpu /\ cur[p] \notin Listed
      /\ op = "switch" => Switching(todo[p], n) /\ Now(p).vcpu = n /\ cur[p] \in Listed \cup {NoVcpu}
      /\ op = "publish" => Publishing(todo[p], n) /\ Now(p).vcpu = n /\ cur[p] \in Listed \cup {NoVcpu}
  BY <1>1, <1>3, <1>4 DEF Requeueing, Switching, Publishing
<1> QED
  BY <1>3, <1>5

(* simple_scheduler_sched of the outgoing vCPU, which is pinned here.       *)
LEMMA RequeuePlace ==
    ASSUME TypeInv, PlaceInv, NEW p \in Cpu, Requeue(p)
    PROVE  /\ TodoOK' /\ PlaceInv' /\ ready' \in Seq(Vcpu)
           /\ Everyone' = Everyone /\ Listed' = Listed \cup {cur[p]}
           /\ todo'[p] = Tail(todo[p]) /\ \A q \in Cpu \ {p} : todo'[q] = todo[q]
<1>0. At(p, "requeue") /\ TodoOK
  BY DEF Requeue, TypeInv
<1>1. PICK n \in Vcpu :
        /\ Affinity[n] = p /\ n \notin Listed /\ n # cur[p]
        /\ Requeueing(todo[p], n) /\ cur[p] # NoVcpu /\ cur[p] \notin Listed
  BY <1>0, InsideHead DEF SwitchOps, LoneOps, SyncOps
<1>2. cur[p] \in Vcpu /\ Affinity[cur[p]] = p
  BY <1>1 DEF PlaceInv, AtHome, TypeInv, RvTypeOK
<1>3. /\ todo'[p] = Tail(todo[p]) /\ TodoOK' /\ \A q \in Cpu \ {p} : todo'[q] = todo[q]
  <2>1. Do(p, <<>>) /\ todo[p] # <<>>
    BY <1>0, <1>2 DEF Requeue, At
  <2> QED
    BY <1>0, <2>1, Pop
<1>4. Switching(todo'[p], n)
  BY <1>1, <1>3 DEF Requeueing
<1>5. /\ ready' \in Seq(Vcpu) /\ Listed' = Listed \cup {cur[p]}
      /\ \A k, j \in 1..Len(ready') : ready'[k] = ready'[j] => k = j
  <2>0. ready \in Seq(Vcpu)
    BY DEF TypeInv, RvTypeOK
  <2>1. Len(ready) \in Nat /\ DOMAIN ready = 1..Len(ready)
    BY <2>0, LenProperties
  <2>2. IsInjective(ready) /\ ToSet(ready) = Listed
    BY <2>1 DEF PlaceInv, IsInjective, ToSet, Listed
  <2>3. Insert(ready, Priority, cur[p], ready')
    BY DEF Requeue
  <2>4. /\ ready' \in Seq(Vcpu) /\ IsInjective(ready') /\ ToSet(ready') = Listed \cup {cur[p]}
    BY <1>1, <1>2, <2>0, <2>2, <2>3, InsertKeepsUnique
  <2>5. Len(ready') \in Nat /\ DOMAIN ready' = 1..Len(ready')
    BY <2>4, LenProperties
  <2>6. ToSet(ready') = Listed'
    BY <2>5 DEF ToSet, Listed
  <2> QED
    BY <2>4, <2>5, <2>6 DEF IsInjective
<1>6. cur' = cur
  BY DEF Requeue
<1>7. \A q \in Cpu : AtHome(q)'
  <2> SUFFICES ASSUME NEW q \in Cpu PROVE AtHome(q)'
    OBVIOUS
  <2>0. AtHome(q)
    BY DEF PlaceInv
  <2>1. CASE q = p
    BY <1>1, <1>2, <1>4, <1>5, <1>6, <2>1 DEF AtHome
  <2>2. CASE q # p
    <3>1. todo'[q] = todo[q] /\ cur'[q] = cur[q]
      BY <1>3, <1>6, <2>2
    <3>2. cur[q] # cur[p]
      BY <1>2, <2>0, <2>2, RvConstants DEF AtHome
    <3>3. cur[q] \in Listed <=> cur[q] \in Listed'
      BY <1>5, <3>2
    <3>4. \A m \in Vcpu : Affinity[m] = q /\ m \notin Listed => m \notin Listed'
      BY <1>2, <1>5, <2>2
    <3> QED
      BY <2>0, <3>1, <3>3, <3>4 DEF AtHome
  <2> QED
    BY <2>1, <2>2
<1>8. Everyone' = Everyone
  <2>1. Incoming(p) = {n} /\ Incoming(p)' = {n}
    <3>1. Inside(todo[p], n) /\ Inside(todo'[p], n)
      BY <1>1, <1>4 DEF Inside
    <3>2. todo[p] \in Seq(StepRec) /\ todo'[p] \in Seq(StepRec)
      BY <1>0, <1>3 DEF TodoOK
    <3>3. Coming(todo[p]) = {n} /\ Coming(todo'[p]) = {n}
      BY <3>1, <3>2, ComingIs
    <3> QED
      BY <3>3, IncomingIs
  <2>2. \A q \in Cpu \ {p} : Incoming(q)' = Incoming(q)
    BY <1>3, IncomingIs
  <2>3. \A x : x \in Everyone' <=> x \in Everyone
    BY <1>5, <1>6, <2>1, <2>2, EveryoneIs
  <2> QED
    BY <2>3
<1> QED
  BY <1>3, <1>5, <1>7, <1>8 DEF PlaceInv

(* __vcpu_switch moves no vCPU.                                             *)
LEMMA SwitchPlace ==
    ASSUME TypeInv, PlaceInv, NEW p \in Cpu, Switch(p)
    PROVE  /\ TodoOK' /\ PlaceInv' /\ Everyone' = Everyone
           /\ todo'[p] = Tail(todo[p]) /\ \A q \in Cpu \ {p} : todo'[q] = todo[q]
<1>0. At(p, "switch") /\ TodoOK
  BY DEF Switch, TypeInv
<1>1. PICK n \in Vcpu :
        /\ Affinity[n] = p /\ n \notin Listed /\ n # cur[p]
        /\ Switching(todo[p], n) /\ cur[p] \in Listed \cup {NoVcpu}
  BY <1>0, InsideHead DEF SwitchOps, LoneOps, SyncOps
<1>3. /\ todo'[p] = Tail(todo[p]) /\ TodoOK' /\ \A q \in Cpu \ {p} : todo'[q] = todo[q]
  <2>1. Do(p, <<>>) /\ todo[p] # <<>>
    BY <1>0 DEF Switch, At
  <2> QED
    BY <1>0, <2>1, Pop
<1>4. Publishing(todo'[p], n)
  BY <1>1, <1>3 DEF Switching
<1>5. ready' = ready /\ cur' = cur /\ Listed' = Listed
  BY DEF Switch, schedVars, Listed
<1>7. \A q \in Cpu : AtHome(q)'
  <2> SUFFICES ASSUME NEW q \in Cpu PROVE AtHome(q)'
    OBVIOUS
  <2>0. AtHome(q)
    BY DEF PlaceInv
  <2>1. CASE q = p
    BY <1>1, <1>4, <1>5, <2>0, <2>1 DEF AtHome
  <2>2. CASE q # p
    <3>1. todo'[q] = todo[q]
      BY <1>3, <2>2
    <3> QED
      BY <1>5, <2>0, <3>1 DEF AtHome
  <2> QED
    BY <2>1, <2>2
<1>8. Everyone' = Everyone
  <2>1. Incoming(p) = {n} /\ Incoming(p)' = {n}
    <3>1. Inside(todo[p], n) /\ Inside(todo'[p], n)
      BY <1>1, <1>4 DEF Inside
    <3>2. todo[p] \in Seq(StepRec) /\ todo'[p] \in Seq(StepRec)
      BY <1>0, <1>3 DEF TodoOK
    <3>3. Coming(todo[p]) = {n} /\ Coming(todo'[p]) = {n}
      BY <3>1, <3>2, ComingIs
    <3> QED
      BY <3>3, IncomingIs
  <2>2. \A q \in Cpu \ {p} : Incoming(q)' = Incoming(q)
    BY <1>3, IncomingIs
  <2>3. \A x : x \in Everyone' <=> x \in Everyone
    BY <1>5, <2>1, <2>2, EveryoneIs
  <2> QED
    BY <2>3
<1> QED
  BY <1>3, <1>5, <1>7, <1>8 DEF PlaceInv

(* set_current: the incoming vCPU is current, the outgoing one on the list. *)
LEMMA PublishPlace ==
    ASSUME TypeInv, PlaceInv, NEW p \in Cpu, Publish(p)
    PROVE  /\ TodoOK' /\ PlaceInv' /\ Everyone' = Everyone /\ cur' \in [Cpu -> Vcpu \cup {NoVcpu}]
           /\ todo'[p] = Tail(todo[p]) /\ \A q \in Cpu \ {p} : todo'[q] = todo[q]
<1>0. At(p, "publish") /\ TodoOK /\ cur \in [Cpu -> Vcpu \cup {NoVcpu}] /\ ready \in Seq(Vcpu)
  BY DEF Publish, TypeInv, RvTypeOK
<1>1. PICK n \in Vcpu :
        /\ Affinity[n] = p /\ n \notin Listed /\ n # cur[p]
        /\ Publishing(todo[p], n) /\ Now(p).vcpu = n /\ cur[p] \in Listed \cup {NoVcpu}
  BY <1>0, InsideHead DEF SwitchOps, LoneOps, SyncOps
<1>3. /\ todo'[p] = Tail(todo[p]) /\ TodoOK' /\ \A q \in Cpu \ {p} : todo'[q] = todo[q]
  <2>1. Do(p, <<>>) /\ todo[p] # <<>>
    BY <1>0 DEF Publish, At
  <2> QED
    BY <1>0, <2>1, Pop
<1>4. Outside(todo'[p])
  BY <1>1, <1>3 DEF Publishing, Outside
<1>5. ready' = ready /\ cur' = [cur EXCEPT ![p] = n] /\ Listed' = Listed
  BY <1>1 DEF Publish, Listed
<1>6. n # NoVcpu /\ NoVcpu \notin Listed
  <2>1. \A x \in Listed : x \in Vcpu
    BY <1>0, ElementOfSeq DEF Listed
  <2> QED
    BY <2>1, RvConstants
<1>7. \A q \in Cpu : AtHome(q)'
  <2> SUFFICES ASSUME NEW q \in Cpu PROVE AtHome(q)'
    OBVIOUS
  <2>0. AtHome(q)
    BY DEF PlaceInv
  <2>1. CASE q = p
    <3>1. cur'[p] = n
      BY <1>0, <1>5
    <3> QED
      BY <1>1, <1>4, <1>5, <2>1, <3>1 DEF AtHome
  <2>2. CASE q # p
    <3>1. todo'[q] = todo[q] /\ cur'[q] = cur[q]
      BY <1>0, <1>3, <1>5, <2>2
    <3> QED
      BY <1>5, <2>0, <3>1 DEF AtHome
  <2> QED
    BY <2>1, <2>2
<1>8. Everyone' = Everyone
  <2>1. Incoming(p) = {n} /\ Incoming(p)' = {}
    <3>1. Inside(todo[p], n)
      BY <1>1 DEF Inside
    <3>2. todo[p] \in Seq(StepRec) /\ todo'[p] \in Seq(StepRec)
      BY <1>0, <1>3 DEF TodoOK
    <3>3. Coming(todo[p]) = {n} /\ Coming(todo'[p]) = {}
      BY <1>4, <3>1, <3>2, ComingIs
    <3> QED
      BY <3>3, IncomingIs
  <2>2. \A q \in Cpu \ {p} : Incoming(q)' = Incoming(q) /\ cur'[q] = cur[q]
    BY <1>0, <1>3, <1>5, IncomingIs
  <2>3. cur'[p] = n
    BY <1>0, <1>5
  <2>4. \A x : x \in Everyone' <=> x \in Everyone
    BY <1>1, <1>5, <1>6, <2>1, <2>2, <2>3, EveryoneIs
  <2> QED
    BY <2>4
<1> QED
  BY <1>0, <1>3, <1>5, <1>7, <1>8 DEF PlaceInv

-----------------------------------------------------------------------------
(* Types                                                                    *)

(* vplic_write, vplic_read and the level of a source keep the vPLIC typed.  *)
LEMMA PlicTyped ==
    ASSUME NEW pl \in Plics
    PROVE  /\ Raise(pl, GuestUartIrq) \in Plics
           /\ \A i : Lower(pl, i) \in Plics
           /\ \A c : PlicRead(pl, [reg |-> "claim", ctx |-> c]) \in Plics
           /\ \A c : \A w \in PlicStores(c) : PlicWrite(pl, w) \in Plics
<1>1. Raise(pl, GuestUartIrq) \in Plics
  BY DEF Raise, Plics
<1>2. \A i : Lower(pl, i) \in Plics
  BY DEF Lower, Plics
<1>3. \A c : PlicRead(pl, [reg |-> "claim", ctx |-> c]) \in Plics
  BY <1>2 DEF PlicRead, Claim
<1>4. ASSUME NEW c, NEW w \in PlicStores(c) PROVE PlicWrite(pl, w) \in Plics
  <2>0. 0 % (MaxPriority + 1) \in Nat
    BY VPlicAssumption
  <2>1. CASE w = [reg |-> "enable", ctx |-> c, val |-> {GuestUartIrq}]
    <3>1. PlicWrite(pl, w) = IF c \in Ctx THEN [pl EXCEPT !.enable[c] = {GuestUartIrq}] ELSE pl
      BY <2>1 DEF PlicWrite
    <3>2. {GuestUartIrq} \in SUBSET Irq
      BY RvAssumption
    <3> QED
      BY <3>1, <3>2 DEF Plics
  <2>2. CASE w = [reg |-> "threshold", ctx |-> c, val |-> 1]
    <3>1. PlicWrite(pl, w) = IF c \in Ctx THEN [pl EXCEPT !.threshold[c] = 1] ELSE pl
      BY <2>2 DEF PlicWrite
    <3> QED
      BY <3>1 DEF Plics
  <2>3. CASE w = [reg |-> "priority", irq |-> GuestUartIrq, val |-> 0]
    <3>1. PlicWrite(pl, w) = [pl EXCEPT !.priority[GuestUartIrq] = 0 % (MaxPriority + 1)]
      BY <2>3, RvAssumption DEF PlicWrite
    <3> QED
      BY <2>0, <3>1 DEF Plics
  <2>4. CASE w = [reg |-> "pending", val |-> {}]
    <3>1. PlicWrite(pl, w) = pl
      BY <2>4 DEF PlicWrite
    <3> QED
      BY <3>1
  <2> QED
    BY <2>1, <2>2, <2>3, <2>4 DEF PlicStores
<1> QED
  BY <1>1, <1>2, <1>3, <1>4

(* ns16550a_read, ns16550a_write, ns16550a_update_irq and the receive ring  *)
(* keep the UART typed: a full ring is not pushed, an empty one not popped. *)
LEMMA UartTyped ==
    ASSUME NEW u \in Uarts
    PROVE  /\ UpdateIir(u) \in Uarts /\ RxPush(u) \in Uarts /\ TxClear(u) \in Uarts
           /\ \A reg : UartRead(u, reg) \in Uarts
           /\ \A w \in UartStores : UartWrite(u, w[1], w[2]) \in Uarts
<1>0. FifoSize \in Nat \ {0}
  BY FifoAssumption
<1>1. Source(u) \in {"none", "RDI", "THRI"}
  BY DEF Source
<1>2. UpdateIir(u) \in Uarts
  BY <1>1 DEF UpdateIir, Uarts
<1>3. RxPush(u) \in Uarts
  <2>1. CASE RxFull(u)
    BY <2>1 DEF RxPush
  <2>2. CASE ~RxFull(u)
    <3>1. u.rx + 1 \in 0..FifoSize
      BY <1>0, <2>2 DEF RxFull, Uarts
    <3>2. RxPush(u) = [u EXCEPT !.rx = u.rx + 1]
      BY <2>2 DEF RxPush
    <3> QED
      BY <3>1, <3>2 DEF Uarts
  <2> QED
    BY <2>1, <2>2
<1>6. TxClear(u) \in Uarts
  BY DEF TxClear, Uarts
<1>4. \A reg : UartRead(u, reg) \in Uarts
  <2>1. CASE u.rx = 0
    BY <2>1 DEF UartRead, RxPop
  <2>2. CASE u.rx # 0
    <3>1. u.rx - 1 \in 0..FifoSize
      BY <1>0, <2>2 DEF Uarts
    <3>2. RxPop(u) = [u EXCEPT !.rx = u.rx - 1]
      BY <2>2 DEF RxPop
    <3>3. RxPop(u) \in Uarts
      BY <3>1, <3>2 DEF Uarts
    <3> QED
      BY <3>3 DEF UartRead
  <2> QED
    BY <2>1, <2>2
<1>5. ASSUME NEW w \in UartStores PROVE UartWrite(u, w[1], w[2]) \in Uarts
  <2>1. CASE w = <<"THR", {}>>
    <3>1. w[1] = "THR" /\ u.dlab \in BOOLEAN
      BY <2>1 DEF Uarts
    <3>2. CASE u.dlab
      <4>1. UartWrite(u, w[1], w[2]) = u
        BY <3>1, <3>2 DEF UartWrite
      <4> QED
        BY <4>1
    <3>3. CASE ~u.dlab
      <4>1. UartWrite(u, w[1], w[2]) = [u EXCEPT !.txPending = TRUE]
        BY <3>1, <3>3 DEF UartWrite
      <4> QED
        BY <4>1 DEF Uarts
    <3> QED
      BY <3>1, <3>2, <3>3
  <2>2. CASE w = <<"IER", {"THRI"}>> \/ w = <<"IER", {"RDI", "THRI"}>>
    <3>1. w[1] = "IER" /\ u.dlab \in BOOLEAN /\ w[2] \in SUBSET {"RDI", "THRI"}
      BY <2>2 DEF Uarts
    <3>2. CASE u.dlab
      <4>1. UartWrite(u, w[1], w[2]) = u
        BY <3>1, <3>2 DEF UartWrite
      <4> QED
        BY <4>1
    <3>3. CASE ~u.dlab
      <4>1. UartWrite(u, w[1], w[2]) = [u EXCEPT !.ier = w[2], !.txPending = u.txPending \/ "THRI" \in w[2]]
        BY <3>1, <3>3 DEF UartWrite
      <4> QED
        BY <3>1, <4>1 DEF Uarts
    <3> QED
      BY <3>1, <3>2, <3>3
  <2>3. CASE w = <<"FCR", {"RXRST"}>>
    <3>1. UartWrite(u, w[1], w[2]) = [u EXCEPT !.rx = 0]
      BY <2>3 DEF UartWrite
    <3> QED
      BY <1>0, <3>1 DEF Uarts
  <2>4. CASE w = <<"LCR", {"DLAB"}>>
    <3>1. UartWrite(u, w[1], w[2]) = [u EXCEPT !.dlab = TRUE]
      BY <2>4 DEF UartWrite
    <3> QED
      BY <3>1 DEF Uarts
  <2> QED
    BY <2>1, <2>2, <2>3, <2>4 DEF UartStores
<1> QED
  BY <1>2, <1>3, <1>4, <1>5, <1>6

(* The pCPUs' own data.                                                     *)
LEMMA RacedTyped ==
    ASSUME raced \in BOOLEAN, NEW p, NEW s, SetTodo(p, s)
    PROVE  raced' \in BOOLEAN
BY DEF SetTodo

(* The parts of TypeInv that do not concern the scheduler.                  *)
FlagOK  == started \in BOOLEAN /\ raced \in BOOLEAN
IrqOK   == virq \in [Vcpu -> SUBSET Virq] /\ hvip \in [Cpu -> SUBSET Virq] /\ timer \in [Vcpu -> {"off", "armed", "due"}]
IpiOK   == sip \in [Cpu -> BOOLEAN] /\ ipi \in [Cpu -> SUBSET Vec] /\ done \in [Cpu -> Nat] /\ fenced \in [Cpu -> BOOLEAN]
FenceOK == sel \in [Cpu -> SUBSET Cpu] /\ status \in [Cpu -> {"ok", "failed"}]
DevOK   == plic \in Plics /\ uart \in Uarts
CtxOK   == csr \in [Cpu -> Regs] /\ ctx \in [Vcpu -> Regs] /\ own \in [Vcpu -> Owns]
SchedOK == ready \in Seq(Vcpu) /\ cur \in [Cpu -> Vcpu \cup {NoVcpu}]

(* They make up TypeInv.                                                    *)
LEMMA TypeParts ==
    TypeInv <=> TodoOK /\ SchedOK /\ FlagOK /\ IrqOK /\ IpiOK /\ FenceOK /\ DevOK /\ CtxOK
<1>1. plic \in Plics => plic.pending \subseteq Irq /\ plic.enable \in [Ctx -> SUBSET Irq]
  BY DEF Plics
<1>2. uart \in Uarts => uart.rx \in 0..FifoSize /\ uart.iir \in {"none", "RDI", "THRI"}
  BY DEF Uarts
<1> QED
  BY <1>1, <1>2 DEF TypeInv, RvTypeOK, SchedOK, FlagOK, IrqOK, IpiOK, FenceOK, DevOK, CtxOK

(* vcpu_context_save and vcpu_context_restore: a unit moves when it is      *)
(* dirty in what is read, and only then.                                    *)
LEMMA ContextMoves ==
    ASSUME NEW a \in Regs, NEW b \in Regs
    PROVE  /\ ContextSave(a, b) \in Regs /\ ContextSave(a, b).vs = b.vs /\ ContextSave(a, b).state = b.state
           /\ ContextRestore(a, b) \in Regs /\ ContextRestore(a, b).vs = a.vs /\ ContextRestore(a, b).state = a.state
           /\ \A u \in Units : /\ b.state[u] = "dirty" => ContextSave(a, b).reg[u] = b.reg[u]
                               /\ a.state[u] = "dirty" => ContextRestore(a, b).reg[u] = a.reg[u]
<1>0. \A u \in Units : u = "f" \/ u = "v"
  BY RvAssumption
<1>1. ASSUME NEW u \in Units
      PROVE  /\ (IF u = "f" THEN FpuSave(a, b) ELSE VectorSave(a, b)) = IF b.state[u] = "dirty" THEN b.reg[u] ELSE a.reg[u]
             /\ (IF u = "f" THEN FpuRestore(a, b) ELSE VectorRestore(a, b)) = IF a.state[u] = "dirty" THEN a.reg[u] ELSE b.reg[u]
  BY <1>0 DEF FpuSave, VectorSave, VectorRegsSave, FpuRestore, VectorRestore, VectorRegsRestore
<1>2. ContextSave(a, b) = [vs |-> b.vs, state |-> b.state,
                           reg |-> [u \in Units |-> IF b.state[u] = "dirty" THEN b.reg[u] ELSE a.reg[u]]]
  BY <1>1 DEF ContextSave
<1>3. ContextRestore(a, b) = [vs |-> a.vs, state |-> a.state,
                              reg |-> [u \in Units |-> IF a.state[u] = "dirty" THEN a.reg[u] ELSE b.reg[u]]]
  BY <1>1 DEF ContextRestore
<1>4. ContextSave(a, b) \in Regs
  BY <1>2 DEF Regs
<1>5. ContextRestore(a, b) \in Regs
  BY <1>3 DEF Regs
<1> QED
  BY <1>2, <1>3, <1>4, <1>5

(* A step of one pCPU.                                                      *)
Act(p) == Tick(p) \/ Soft(p) \/ Ext(p) \/ Continue(p) \/ GuestStep(p)

(* Who changes what: each group of variables belongs to a few steps.        *)
LEMMA Frame ==
    ASSUME NEW p, Act(p)
    PROVE  /\ \/ UNCHANGED irqVars
              \/ Switch(p) \/ Materialize(p) \/ TimerRefresh(p) \/ Inject(p) \/ Retract(p) \/ SetTimer(p) \/ ClearIpi(p)
           /\ \/ UNCHANGED ipiVars
              \/ Soft(p) \/ Take(p) \/ Hfence(p) \/ Count(p) \/ Kick(p) \/ SbiSendIpi(p)
              \/ SyncRead(p) \/ SyncSend(p) \/ SyncSbi(p) \/ SyncDone(p) \/ SyncTimeout(p)
           /\ UNCHANGED fenceVars \/ Select(p) \/ RemoteFence(p) \/ SyncTimeout(p)
           /\ \/ UNCHANGED <<plic, uart>>
              \/ UartLine(p) \/ UpdateIrq(p) \/ Service(p) \/ IirTx(p)
              \/ UartLoad(p) \/ UartStore(p) \/ PlicLoad(p) \/ PlicStore(p)
           /\ UNCHANGED ctxVars \/ Switch(p) \/ Compute(p) \/ Redirect(p)
           /\ UNCHANGED schedVars \/ Yield(p) \/ Requeue(p) \/ Publish(p)
           /\ \/ UNCHANGED <<started, todo, raced>>
              \/ /\ \E s : SetTodo(p, s)
                 /\ started' = started \/ started' = (started \/ cur[p] = 0)
<1> USE DEF Do, Trap, schedVars, irqVars, ipiVars, fenceVars, devVars, ctxVars, Guest
<1>1. CASE Tick(p) \/ Soft(p) \/ Ext(p)
  BY <1>1 DEF Tick, Soft, Ext
<1>2. CASE Take(p) \/ Hfence(p) \/ Count(p) \/ Requeue(p) \/ Switch(p) \/ Publish(p)
  BY <1>2 DEF Take, Hfence, Count, Requeue, Switch, Publish
<1>3. CASE Yield(p)
  BY <1>3 DEF Yield
<1>4. CASE Materialize(p) \/ TimerRefresh(p) \/ FindRunning(p) \/ FindReady(p) \/ Inject(p) \/ Retract(p)
           \/ Kick(p) \/ SbiSendIpi(p)
  BY <1>4 DEF Materialize, TimerRefresh, FindRunning, FindReady, Inject, Retract, Kick, SbiSendIpi
<1>5. CASE Refresh(p) \/ Levels(p) \/ UartLine(p) \/ UpdateIrq(p) \/ Service(p) \/ IirTx(p)
  BY <1>5 DEF Refresh, Levels, UartLine, UpdateIrq, Service, IirTx
<1>6. CASE Select(p) \/ Fences(p) \/ SyncRead(p) \/ SyncSend(p) \/ SyncSbi(p) \/ SyncDone(p) \/ SyncTimeout(p)
  BY <1>6 DEF Select, Fences, SyncRead, SyncSend, SyncSbi, SyncDone, SyncTimeout
<1>7. CASE Compute(p) \/ Redirect(p) \/ NoEffect(p) \/ SetTimer(p) \/ SendIpi(p) \/ ClearIpi(p) \/ RemoteFence(p)
  BY <1>7 DEF Compute, Redirect, NoEffect, SetTimer, SendIpi, ClearIpi, RemoteFence
<1>8. CASE UartLoad(p) \/ UartStore(p) \/ PlicLoad(p) \/ PlicStore(p)
  BY <1>8 DEF UartLoad, UartStore, PlicLoad, PlicStore
<1> QED
  BY <1>1, <1>2, <1>3, <1>4, <1>5, <1>6, <1>7, <1>8 DEF Act, Continue, GuestStep

(* riscv_virt_irq_assert and riscv_virt_irq_clear keep the types.           *)
LEMMA VirqTyped ==
    ASSUME IrqOK, NEW p \in Cpu, NEW v \in Vcpu, NEW i \in Virq, VirqAssert(p, v, i) \/ VirqClear(p, v, i)
    PROVE  virq' \in [Vcpu -> SUBSET Virq] /\ hvip' \in [Cpu -> SUBSET Virq]
BY DEF IrqOK, VirqAssert, VirqClear

(* The interrupt images, HVIP and the timers stay typed.                    *)
LEMMA IrqTyped ==
    ASSUME TypeInv, NEW p \in Cpu, Act(p)
    PROVE  IrqOK'
<1>0. IrqOK /\ SchedOK /\ TodoOK /\ cur[p] \in Vcpu \cup {NoVcpu}
  BY TypeParts DEF SchedOK
<1>1. CASE UNCHANGED irqVars
  BY <1>0, <1>1 DEF IrqOK, irqVars
<1>2. CASE Switch(p)
  BY <1>0, <1>2 DEF IrqOK, Switch
<1>3. CASE Materialize(p)
  BY <1>0, <1>3 DEF IrqOK, Materialize
<1>4. CASE TimerRefresh(p)
  <2>1. CASE UNCHANGED irqVars
    BY <1>1, <2>1
  <2>2. CASE cur[p] # NoVcpu /\ timer' = [timer EXCEPT ![cur[p]] = "off"] /\ VirqAssert(p, cur[p], "timer")
    <3>1. virq' \in [Vcpu -> SUBSET Virq] /\ hvip' \in [Cpu -> SUBSET Virq]
      BY <1>0, <2>2, VirqTyped DEF Virq
    <3> QED
      BY <1>0, <2>2, <3>1 DEF IrqOK
  <2> QED
    BY <1>4, <2>1, <2>2 DEF TimerRefresh
<1>5. CASE Inject(p) \/ Retract(p)
  <2>1. /\ todo[p] # <<>> /\ Now(p).op \in VcpuOps /\ timer' = timer
        /\ \E i \in Virq : VirqAssert(p, Now(p).vcpu, i) \/ VirqClear(p, Now(p).vcpu, i)
    BY <1>5 DEF Inject, Retract, At, Now, VcpuOps, FindWhys, Virq
  <2>2. Now(p).vcpu \in Vcpu
    BY <1>0, <2>1, NowType, RecOf
  <2>3. virq' \in [Vcpu -> SUBSET Virq] /\ hvip' \in [Cpu -> SUBSET Virq]
    BY <1>0, <2>1, <2>2, VirqTyped
  <2> QED
    BY <1>0, <2>1, <2>3 DEF IrqOK
<1>6. CASE SetTimer(p) \/ ClearIpi(p)
  <2>1. /\ cur[p] # NoVcpu /\ \E i \in Virq : VirqClear(p, cur[p], i)
        /\ timer' = timer \/ \E when \in {"armed", "due"} : timer' = [timer EXCEPT ![cur[p]] = when]
    BY <1>6 DEF SetTimer, ClearIpi, Guest, Virq
  <2>2. virq' \in [Vcpu -> SUBSET Virq] /\ hvip' \in [Cpu -> SUBSET Virq]
    BY <1>0, <2>1, VirqTyped
  <2> QED
    BY <1>0, <2>1, <2>2 DEF IrqOK
<1> QED
  BY <1>1, <1>2, <1>3, <1>4, <1>5, <1>6, Frame

(* SSIP, the pending vectors, the counts and the history of fences.         *)
LEMMA IpiTyped ==
    ASSUME TypeInv, NEW p \in Cpu, Act(p)
    PROVE  IpiOK'
<1>0. IpiOK /\ TodoOK
  BY TypeParts
<1>1. CASE UNCHANGED ipiVars
  BY <1>0, <1>1 DEF IpiOK, ipiVars
<1>2. CASE Soft(p) \/ Take(p) \/ Count(p)
  <2>1. CASE Soft(p)
    BY <1>0, <2>1 DEF IpiOK, Soft
  <2>2. CASE Take(p)
    BY <1>0, <2>2 DEF IpiOK, Take
  <2>3. CASE Count(p)
    <3>1. done[p] + 1 \in Nat
      BY <1>0 DEF IpiOK
    <3> QED
      BY <1>0, <2>3, <3>1 DEF IpiOK, Count
  <2> QED
    BY <1>2, <2>1, <2>2, <2>3
<1>3. CASE Hfence(p)
  <2>1. \A q \in Cpu : (fenced[q] \/ Waits(q, p)) \in BOOLEAN
    BY <1>0 DEF IpiOK, Waits
  <2> QED
    BY <1>0, <1>3, <2>1 DEF IpiOK, Hfence
<1>4. CASE Kick(p) \/ SbiSendIpi(p) \/ SyncSend(p) \/ SyncSbi(p)
  <2>1. todo[p] # <<>> /\ Now(p).op \in ToOps \cup SyncOps
    BY <1>4 DEF Kick, SbiSendIpi, SyncSend, SyncSbi, At, Now, ToOps, SyncOps
  <2>2. Now(p).to \in Cpu
    BY <1>0, <2>1, NowType, RecOf
  <2>3. CASE Kick(p) \/ SyncSend(p)
    <3>1. \E x \in Vec : ipi' = [ipi EXCEPT ![Now(p).to] = ipi[Now(p).to] \cup {x}]
      BY <2>3 DEF Kick, SyncSend, Vec
    <3>2. sip' = sip /\ done' = done /\ fenced' = fenced
      BY <2>3 DEF Kick, SyncSend
    <3> QED
      BY <1>0, <2>2, <3>1, <3>2 DEF IpiOK
  <2>4. CASE SbiSendIpi(p) \/ SyncSbi(p)
    BY <1>0, <2>2, <2>4 DEF IpiOK, SbiSendIpi, SyncSbi
  <2> QED
    BY <1>4, <2>3, <2>4
<1>5. CASE SyncRead(p) \/ SyncDone(p) \/ SyncTimeout(p)
  BY <1>0, <1>5 DEF IpiOK, SyncRead, SyncDone, SyncTimeout
<1> QED
  BY <1>1, <1>2, <1>3, <1>4, <1>5, Frame

(* The selection and the status of riscv_remote_fence.                      *)
LEMMA FenceTyped ==
    ASSUME TypeInv, NEW p \in Cpu, Act(p)
    PROVE  FenceOK'
<1>0. FenceOK /\ TodoOK
  BY TypeParts
<1>1. CASE UNCHANGED fenceVars
  BY <1>0, <1>1 DEF FenceOK, fenceVars
<1>2. CASE Select(p)
  <2>1. todo[p] # <<>> /\ Now(p).op \in VcpuOps
    BY <1>2 DEF Select, At, Now, VcpuOps, FindWhys
  <2>2. Affinity[Now(p).vcpu] \in Cpu
    BY <1>0, <2>1, NowType, RecOf, RvConstants
  <2> QED
    BY <1>0, <1>2, <2>2 DEF FenceOK, Select
<1>3. CASE RemoteFence(p) \/ SyncTimeout(p)
  BY <1>0, <1>3 DEF FenceOK, RemoteFence, SyncTimeout
<1> QED
  BY <1>1, <1>2, <1>3, Frame

(* The vPLIC and the emulated UART.                                         *)
LEMMA DevTyped ==
    ASSUME TypeInv, NEW p \in Cpu, Act(p)
    PROVE  DevOK'
<1>0. DevOK
  BY TypeParts
<1>1. CASE UNCHANGED <<plic, uart>>
  BY <1>0, <1>1 DEF DevOK
<1>2. CASE UartLine(p)
  <2>1. uart' = uart /\ (plic' = Raise(plic, GuestUartIrq) \/ plic' = Lower(plic, GuestUartIrq))
    BY <1>2 DEF UartLine
  <2> QED
    BY <1>0, <2>1, PlicTyped DEF DevOK
<1>3. CASE UpdateIrq(p) \/ Service(p) \/ IirTx(p)
  <2>1. plic' = plic /\ (uart' = uart \/ uart' = UpdateIir(uart) \/ uart' = RxPush(uart) \/ uart' = TxClear(uart))
    BY <1>3 DEF UpdateIrq, Service, IirTx
  <2> QED
    BY <1>0, <2>1, UartTyped DEF DevOK
<1>4. CASE UartLoad(p) \/ UartStore(p)
  <2>1. plic' = plic /\ ((\E reg : uart' = UartRead(uart, reg)) \/ \E w \in UartStores : uart' = UartWrite(uart, w[1], w[2]))
    BY <1>4 DEF UartLoad, UartStore
  <2> QED
    BY <1>0, <2>1, UartTyped DEF DevOK
<1>5. CASE PlicLoad(p) \/ PlicStore(p)
  <2>1. /\ uart' = uart
        /\ \/ plic' = PlicRead(plic, [reg |-> "claim", ctx |-> cur[p]])
           \/ \E w \in PlicStores(cur[p]) : plic' = PlicWrite(plic, w)
    BY <1>5 DEF PlicLoad, PlicStore
  <2> QED
    BY <1>0, <2>1, PlicTyped DEF DevOK
<1> QED
  BY <1>1, <1>2, <1>3, <1>4, <1>5, Frame

(* The contexts.                                                            *)
LEMMA CtxTyped ==
    ASSUME TypeInv, NEW p \in Cpu, Act(p)
    PROVE  CtxOK'
<1>0. CtxOK /\ SchedOK /\ TodoOK /\ cur[p] \in Vcpu \cup {NoVcpu} /\ csr[p] \in Regs
  BY TypeParts DEF SchedOK, CtxOK
<1>1. CASE UNCHANGED ctxVars
  BY <1>0, <1>1 DEF CtxOK, ctxVars
<1>2. CASE Switch(p)
  <2> DEFINE n == Now(p).vcpu
             left == IF cur[p] = NoVcpu THEN ctx ELSE [ctx EXCEPT ![cur[p]] = ContextSave(@, csr[p])]
  <2>1. ctx' = left /\ csr' = [csr EXCEPT ![p] = ContextRestore(left[n], csr[p])] /\ own' = own
    BY <1>2 DEF Switch
  <2>2. n \in Vcpu
    <3>1. todo[p] # <<>> /\ Now(p).op \in VcpuOps
      BY <1>2 DEF Switch, At, Now, VcpuOps
    <3> QED
      BY <1>0, <3>1, NowType, RecOf
  <2>3. left \in [Vcpu -> Regs]
    <3>1. CASE cur[p] = NoVcpu
      BY <1>0, <3>1 DEF CtxOK
    <3>2. CASE cur[p] # NoVcpu
      <4>1. ctx[cur[p]] \in Regs
        BY <1>0, <3>2 DEF CtxOK
      <4>2. ContextSave(ctx[cur[p]], csr[p]) \in Regs
        BY <1>0, <4>1, ContextMoves
      <4> QED
        BY <1>0, <3>2, <4>2 DEF CtxOK
    <3> QED
      BY <3>1, <3>2
  <2> HIDE DEF left, n
  <2>4. ContextRestore(left[n], csr[p]) \in Regs
    BY <1>0, <2>2, <2>3, ContextMoves
  <2> QED
    BY <1>0, <2>1, <2>3, <2>4 DEF CtxOK
<1>3. CASE Compute(p)
  <2>1. cur[p] \in Vcpu /\ own[cur[p]] \in Owns /\ Fresh(p) \in Nat
    BY <1>0, <1>3 DEF Compute, Guest, CtxOK, Owns, Fresh
  <2>2. <<cur[p], Fresh(p)>> \in Tags
    BY <2>1 DEF Tags
  <2>3. PICK used \in {{}} \cup {{u} : u \in Units}, mark \in {"dirty", "clean"} :
        /\ csr' = [csr EXCEPT ![p] =
                     [vs    |-> <<cur[p], Fresh(p)>>,
                      state |-> [u \in Units |-> IF u \in used THEN mark ELSE csr[p].state[u]],
                      reg   |-> [u \in Units |-> IF u \in used THEN <<cur[p], Fresh(p)>> ELSE csr[p].reg[u]]]]
        /\ own' = [own EXCEPT ![cur[p]] = [n |-> Fresh(p),
                      reg |-> [u \in Units |-> IF u \in used THEN Fresh(p) ELSE own[cur[p]].reg[u]]]]
        /\ ctx' = ctx
    BY <1>3 DEF Compute
  <2>4. csr'[p] \in Regs
    BY <1>0, <2>2, <2>3 DEF CtxOK, Regs
  <2>5. own'[cur[p]] \in Owns
    BY <1>0, <2>1, <2>3 DEF CtxOK, Owns
  <2> QED
    BY <1>0, <2>1, <2>3, <2>4, <2>5 DEF CtxOK
<1>4. CASE Redirect(p)
  <2>1. cur[p] \in Vcpu /\ own[cur[p]] \in Owns /\ Fresh(p) \in Nat
    BY <1>0, <1>4 DEF Redirect, Guest, CtxOK, Owns, Fresh
  <2>2. <<cur[p], Fresh(p)>> \in Tags
    BY <2>1 DEF Tags
  <2>3. /\ csr' = [csr EXCEPT ![p] = [csr[p] EXCEPT !.vs = <<cur[p], Fresh(p)>>]]
        /\ own' = [own EXCEPT ![cur[p]] = [own[cur[p]] EXCEPT !.n = Fresh(p)]] /\ ctx' = ctx
    BY <1>4 DEF Redirect
  <2>4. [csr[p] EXCEPT !.vs = <<cur[p], Fresh(p)>>] \in Regs
    BY <1>0, <2>2 DEF Regs
  <2>5. [own[cur[p]] EXCEPT !.n = Fresh(p)] \in Owns
    BY <2>1 DEF Owns
  <2> QED
    BY <1>0, <2>1, <2>3, <2>4, <2>5 DEF CtxOK
<1> QED
  BY <1>1, <1>2, <1>3, <1>4, Frame

(* g_boot_vcpu_started, and the history of overlapping updates.             *)
LEMMA FlagTyped ==
    ASSUME TypeInv, NEW p \in Cpu, Act(p)
    PROVE  FlagOK'
<1>0. FlagOK
  BY TypeParts
<1>1. CASE UNCHANGED <<started, todo, raced>>
  BY <1>0, <1>1 DEF FlagOK
<1>2. CASE \E s : SetTodo(p, s) /\ (started' = started \/ started' = (started \/ cur[p] = 0))
  BY <1>0, <1>2, RacedTyped DEF FlagOK
<1> QED
  BY <1>1, <1>2, Frame

-----------------------------------------------------------------------------
(* A vCPU is in one place                                                   *)

(* A light step moves no vCPU.                                              *)
LEMMA LightStill ==
    ASSUME NEW p, LightAction(p)
    PROVE  UNCHANGED <<ready, cur>> /\ Act(p)
<1> USE DEF schedVars, Guest, Act, Continue, GuestStep
<1>1. CASE Tick(p) \/ Soft(p) \/ Ext(p) \/ Take(p) \/ (Yield(p) /\ UNCHANGED ready)
  BY <1>1 DEF Tick, Soft, Ext, Take, Yield
<1>2. CASE Materialize(p) \/ TimerRefresh(p) \/ FindRunning(p) \/ FindReady(p) \/ Inject(p) \/ Retract(p)
           \/ Kick(p) \/ SbiSendIpi(p)
  BY <1>2 DEF Materialize, TimerRefresh, FindRunning, FindReady, Inject, Retract, Kick, SbiSendIpi
<1>3. CASE Refresh(p) \/ Levels(p) \/ UartLine(p) \/ UpdateIrq(p) \/ Service(p) \/ IirTx(p)
  BY <1>3 DEF Refresh, Levels, UartLine, UpdateIrq, Service, IirTx
<1>4. CASE Select(p) \/ Fences(p) \/ SyncRead(p) \/ SyncSend(p) \/ SyncSbi(p) \/ SyncDone(p) \/ SyncTimeout(p)
  BY <1>4 DEF Select, Fences, SyncRead, SyncSend, SyncSbi, SyncDone, SyncTimeout
<1>5. CASE Redirect(p) \/ NoEffect(p) \/ SetTimer(p) \/ SendIpi(p) \/ ClearIpi(p) \/ RemoteFence(p)
  BY <1>5 DEF Redirect, NoEffect, SetTimer, SendIpi, ClearIpi, RemoteFence
<1>6. CASE UartLoad(p) \/ UartStore(p) \/ PlicLoad(p) \/ PlicStore(p)
  BY <1>6 DEF UartLoad, UartStore, PlicLoad, PlicStore
<1> QED
  BY <1>1, <1>2, <1>3, <1>4, <1>5, <1>6 DEF LightAction

(* The steps of a pCPU, by what they do to its trap.                        *)
YieldTo(p, i) ==
    /\ At(p, "yield")
    /\ IsNext(ready, Priority, Affinity, p, cur[p], NoVcpu, i)
    /\ ready' = RemoveAt(ready, i) /\ Do(p, SwitchTo(p, ready[i]))
    /\ UNCHANGED <<cur, irqVars, ipiVars, ctxVars>>

(* There are no others.                                                     *)
LEMMA ActKinds ==
    ASSUME NEW p, Act(p)
    PROVE  \/ LightAction(p) \/ FenceAction(p) \/ Requeue(p) \/ Switch(p) \/ Publish(p) \/ Compute(p)
           \/ \E i \in 1..Len(ready) : YieldTo(p, i)
<1>1. CASE Yield(p)
  BY <1>1 DEF Yield, YieldTo, LightAction
<1>2. CASE Act(p) /\ ~Yield(p)
  BY <1>2 DEF Act, Continue, GuestStep, LightAction, FenceAction, SyncAction
<1> QED
  BY <1>1, <1>2

(* What every step keeps of the trap and of the vCPUs' places.              *)
LEMMA SchedStep ==
    ASSUME TypeInv, PlaceInv, NEW p \in Cpu, Act(p)
    PROVE  TodoOK' /\ SchedOK' /\ PlaceInv' /\ Everyone' = Everyone
<1>0. TodoOK /\ SchedOK
  BY TypeParts
<1>1. CASE LightAction(p)
  <2>1. LightStep(p) /\ UNCHANGED <<ready, cur>>
    BY <1>1, AllLight, LightStill
  <2>2. /\ TodoOK' /\ Calm(todo[p]) /\ Calm(todo'[p]) /\ \A q \in Cpu \ {p} : todo'[q] = todo[q]
    BY <1>0, <2>1, LightCalm, PlaceShape
  <2>3. Outside(todo[p]) /\ Outside(todo'[p])
    BY <2>2 DEF Outside
  <2> QED
    BY <1>0, <2>1, <2>2, <2>3, PlaceKept DEF SchedOK
<1>2. CASE FenceAction(p)
  <2>1. UNCHANGED <<ready, cur>>
    BY <1>2 DEF FenceAction, Take, Hfence, Count, SyncAction, SyncRead, SyncSend, SyncSbi, SyncDone, SyncTimeout, schedVars
  <2>2. /\ TodoOK' /\ Outside(todo[p]) /\ Outside(todo'[p]) /\ \A q \in Cpu \ {p} : todo'[q] = todo[q]
    BY <1>0, <1>2, FenceShape, SyncShape DEF FenceAction
  <2> QED
    BY <1>0, <2>1, <2>2, PlaceKept DEF SchedOK
<1>3. CASE Requeue(p)
  <2>1. TodoOK' /\ PlaceInv' /\ Everyone' = Everyone /\ ready' \in Seq(Vcpu)
    BY <1>3, RequeuePlace
  <2> QED
    BY <1>0, <1>3, <2>1 DEF SchedOK, Requeue
<1>4. CASE Switch(p)
  <2>1. TodoOK' /\ PlaceInv' /\ Everyone' = Everyone
    BY <1>4, SwitchPlace
  <2> QED
    BY <1>0, <1>4, <2>1 DEF SchedOK, Switch, schedVars
<1>5. CASE Publish(p)
  <2>1. TodoOK' /\ PlaceInv' /\ Everyone' = Everyone /\ cur' \in [Cpu -> Vcpu \cup {NoVcpu}]
    BY <1>5, PublishPlace
  <2> QED
    BY <1>0, <1>5, <2>1 DEF SchedOK, Publish
<1>6. CASE Compute(p)
  <2>1. UNCHANGED <<todo, ready, cur>>
    BY <1>6 DEF Compute, Guest, schedVars
  <2>2. TodoOK' /\ SchedOK'
    BY <1>0, <2>1 DEF TodoOK, SchedOK
  <2>3. PlaceInv' /\ Everyone' = Everyone
    BY <2>1 DEF PlaceInv, AtHome, Everyone, Listed, Incoming
  <2> QED
    BY <2>2, <2>3
<1>7. ASSUME NEW i \in 1..Len(ready), YieldTo(p, i) 
      PROVE  TodoOK' /\ SchedOK' /\ PlaceInv' /\ Everyone' = Everyone
  <2>1. TodoOK' /\ PlaceInv' /\ Everyone' = Everyone /\ ready' \in Seq(Vcpu)
    BY <1>7, YieldPlace DEF YieldTo
  <2> QED
    BY <1>0, <1>7, <2>1 DEF SchedOK, YieldTo
<1> QED
  BY <1>1, <1>2, <1>3, <1>4, <1>5, <1>6, <1>7, ActKinds

(* Every step of the system.                                                *)
LEMMA TypeStep ==
    ASSUME TypeInv, PlaceInv, [RvNext]_vars
    PROVE  TypeInv' /\ PlaceInv'
<1>0. TodoOK /\ SchedOK /\ FlagOK /\ IrqOK /\ IpiOK /\ FenceOK /\ DevOK /\ CtxOK
  BY TypeParts
<1>1. ASSUME NEW p \in Cpu, Act(p) PROVE TypeInv' /\ PlaceInv'
  <2>1. TodoOK' /\ SchedOK' /\ PlaceInv'
    BY <1>1, SchedStep
  <2>2. FlagOK' /\ IrqOK' /\ IpiOK' /\ FenceOK' /\ DevOK' /\ CtxOK'
    BY <1>1, FlagTyped, IrqTyped, IpiTyped, FenceTyped, DevTyped, CtxTyped
  <2>3. TypeInv'
    BY <2>1, <2>2, TypeParts, PTL
  <2> QED
    BY <2>1, <2>3
<1>2. ASSUME NEW v \in Vcpu, Expire(v) PROVE TypeInv' /\ PlaceInv'
  <2>1. TodoOK' /\ SchedOK' /\ FlagOK' /\ IpiOK' /\ FenceOK' /\ DevOK' /\ CtxOK'
    BY <1>0, <1>2 DEF Expire, TodoOK, SchedOK, FlagOK, IpiOK, FenceOK, DevOK, CtxOK,
                      schedVars, ipiVars, fenceVars, devVars, ctxVars
  <2>2. IrqOK'
    BY <1>0, <1>2 DEF Expire, IrqOK
  <2>3. PlaceInv'
    BY <1>2 DEF Expire, schedVars, PlaceInv, AtHome, Everyone, Listed, Incoming
  <2>4. TypeInv'
    BY <2>1, <2>2, TypeParts, PTL
  <2> QED
    BY <2>3, <2>4
<1>3. CASE UNCHANGED vars
  <2>1. TypeInv'
    BY <1>3 DEF vars, TypeInv, RvTypeOK, TodoOK, schedVars, irqVars, ipiVars, fenceVars, devVars, ctxVars
  <2>2. PlaceInv'
    BY <1>3 DEF vars, schedVars, PlaceInv, AtHome, Everyone, Listed, Incoming
  <2> QED
    BY <2>1, <2>2
<1> QED
  BY <1>1, <1>2, <1>3 DEF RvNext, Act

(* After boot: the first vCPUs are on the list, in order, nobody runs.      *)
LEMMA TypeInit ==
    ASSUME RvInit
    PROVE  TypeInv /\ PlaceInv
<1>0. PICK n \in Created : ready = [i \in 1..n |-> i - 1]
  BY DEF RvInit
<1>1. n \in 1..NVcpu /\ NVcpu \in Nat /\ n - 1 \in Vcpu
  BY RvAssumption DEF Vcpu
<1>2. ready \in Seq(Vcpu) /\ Len(ready) = n /\ \A i \in 1..n : ready[i] = i - 1
  <2>1. ready \in [1..n -> Vcpu]
    BY <1>0, <1>1 DEF Vcpu
  <2> QED
    BY <1>0, <1>1, <2>1
<1>3. \A p \in Cpu : todo[p] = <<>> /\ cur[p] = NoVcpu
  BY DEF RvInit
<1>4. Listed = 0..(n - 1)
  <2>1. ASSUME NEW x \in 0..(n - 1) PROVE x \in Listed
    <3>1. x + 1 \in 1..n /\ (x + 1) - 1 = x
      BY <1>1
    <3>2. ready[x + 1] = x
      BY <1>2, <3>1
    <3> QED
      BY <1>2, <3>1, <3>2 DEF Listed
  <2>2. ASSUME NEW x \in Listed PROVE x \in 0..(n - 1)
    <3>1. PICK i \in 1..n : x = i - 1
      BY <1>2 DEF Listed
    <3> QED
      BY <1>1, <3>1
  <2> QED
    BY <2>1, <2>2
<1>5. \A p \in Cpu : Incoming(p) = {} /\ Outside(todo[p])
  BY <1>3, ElsLiteral DEF Incoming, Outside, Calm
<1>6. Everyone = 0..(n - 1)
  <2>1. NoVcpu \notin 0..(n - 1)
    BY <1>1 DEF NoVcpu
  <2>2. \A x : x \in Everyone <=> x # NoVcpu /\ x \in 0..(n - 1)
    BY <1>3, <1>4, <1>5, EveryoneIs
  <2> QED
    BY <2>1, <2>2
<1>7. PlaceInv
  <2>1. \A p \in Cpu : AtHome(p)
    <3>1. NoVcpu \notin Listed
      BY <1>1, <1>4 DEF NoVcpu
    <3> QED
      BY <1>3, <1>5, <3>1 DEF AtHome
  <2>2. \A i, j \in 1..Len(ready) : ready[i] = ready[j] => i = j
    BY <1>1, <1>2
  <2> QED
    BY <1>1, <1>6, <2>1, <2>2 DEF PlaceInv
<1>8. TodoOK /\ SchedOK /\ FlagOK
  <2>1. TodoOK
    <3>1. <<>> \in Seq(StepRec) /\ todo = [p \in Cpu |-> <<>>]
      BY CalmLiteral DEF RvInit
    <3> QED
      BY <3>1 DEF TodoOK
  <2>2. cur \in [Cpu -> Vcpu \cup {NoVcpu}]
    BY DEF RvInit
  <2> QED
    BY <1>2, <2>1, <2>2 DEF RvInit, SchedOK, FlagOK
<1>9. IrqOK /\ FenceOK
  BY DEF RvInit, IrqOK, FenceOK
<1>10. IpiOK
  BY DEF RvInit, IpiOK, Vec
<1>11. DevOK
  <2>1. PlicRegisterEmul \in Plics
    BY DEF PlicRegisterEmul, Plics
  <2>2. UartRegisterEmul \in Uarts
    BY FifoAssumption DEF UartRegisterEmul, Uarts
  <2> QED
    BY <2>1, <2>2 DEF RvInit, DevOK
<1>12. CtxOK
  <2>1. <<NoVcpu, 0>> \in Tags /\ \A v \in Vcpu : <<v, 0>> \in Tags
    BY DEF Tags
  <2>2. csr \in [Cpu -> Regs]
    BY <2>1 DEF RvInit, Regs
  <2>3. ctx \in [Vcpu -> Regs]
    BY <2>1 DEF RvInit, Regs
  <2>4. own \in [Vcpu -> Owns]
    BY DEF RvInit, Owns
  <2> QED
    BY <2>2, <2>3, <2>4 DEF CtxOK
<1> QED
  BY <1>7, <1>8, <1>9, <1>10, <1>11, <1>12, TypeParts

(* PlaceInv is what OnePlace asks, and more.                                *)
LEMMA PlaceMeans ==
    ASSUME TypeInv, PlaceInv
    PROVE  OnePlace
<1>1. ASSUME NEW p \in Cpu
      PROVE  /\ \A v \in Incoming(p) \cup ({cur[p]} \ {NoVcpu}) : Affinity[v] = p
             /\ Incoming(p) \cap Listed = {}
             /\ todo[p] = <<>> => cur[p] \notin Listed
  <2>1. todo[p] \in Seq(StepRec) /\ AtHome(p)
    BY DEF TypeInv, TodoOK, PlaceInv
  <2>2. Incoming(p) = Coming(todo[p])
    BY IncomingIs
  <2>3. CASE Outside(todo[p]) /\ cur[p] \notin Listed
    <3>1. Incoming(p) = {}
      BY <2>1, <2>2, <2>3, ComingIs
    <3> QED
      BY <2>1, <2>3, <3>1 DEF AtHome
  <2>4. ASSUME NEW n \in Vcpu, Inside(todo[p], n), Affinity[n] = p, n \notin Listed
        PROVE  Incoming(p) = {n} /\ todo[p] # <<>>
    BY <2>1, <2>2, <2>4, ComingIs DEF Inside, Requeueing, Switching, Publishing
  <2> QED
    BY <2>1, <2>3, <2>4 DEF AtHome, Inside
<1> QED
  BY <1>1 DEF PlaceInv, OnePlace, Everyone

(* The invariant under every behaviour.                                     *)
THEOREM RvInductive == RvSpec => [](TypeInv /\ PlaceInv)
<1>1. RvInit => TypeInv /\ PlaceInv
  BY TypeInit
<1>2. TypeInv /\ PlaceInv /\ [RvNext]_vars => TypeInv' /\ PlaceInv'
  BY TypeStep
<1> QED
  BY <1>1, <1>2, PTL DEF RvSpec

(* The shared state of the RISC-V side keeps its types.                     *)
THEOREM RvTypes == RvSpec => []RvTypeOK
<1>1. TypeInv => RvTypeOK
  BY DEF TypeInv
<1> QED
  BY <1>1, RvInductive, PTL

(* sched_yield never loses a vCPU and never has it in two places.           *)
THEOREM VcpuInOnePlace == RvSpec => []OnePlace
<1>1. TypeInv /\ PlaceInv => OnePlace
  BY PlaceMeans
<1> QED
  BY <1>1, RvInductive, PTL

-----------------------------------------------------------------------------
(* A vCPU has its own context                                               *)

(* The vCPU whose registers a pCPU holds: the current one, and between the  *)
(* switch and set_current the incoming one.                                 *)
LiveIn(s, c) == IF s # <<>> /\ Head(s).op = "publish" THEN Head(s).vcpu ELSE c
Live(p) == LiveIn(todo[p], cur[p])

Matches(r, o, v) ==
    /\ r.vs = <<v, o.n>>
    /\ \A u \in Units : r.state[u] = "dirty" => r.reg[u] = <<v, o.reg[u]>>

(* The registers a pCPU holds are those of its live vCPU, the saved ones of *)
(* every other vCPU are its own: this is OwnContext made inductive.         *)
CtxInv ==
    /\ \A p \in Cpu : Live(p) # NoVcpu => Matches(csr[p], own[Live(p)], Live(p))
    /\ \A v \in Vcpu : (\A p \in Cpu : Live(p) # v) => Matches(ctx[v], own[v], v)

(* Whose registers they are, by the shape of the trap.                      *)
LEMMA LiveShape ==
    ASSUME NEW s \in Seq(StepRec), NEW c
    PROVE  /\ Outside(s) => LiveIn(s, c) = c
           /\ \A n \in Vcpu : /\ Requeueing(s, n) \/ Switching(s, n) => LiveIn(s, c) = c
                              /\ Publishing(s, n) => LiveIn(s, c) = n
<1>1. \A n \in Vcpu : /\ For("publish", n).op = "publish" /\ For("publish", n).vcpu = n
                      /\ For("switch", n).op # "publish" /\ Step("requeue").op # "publish"
  BY DEF For, Step
<1>2. s # <<>> => Head(s) \in Els(s)
  BY ElsTail
<1>3. Outside(s) => LiveIn(s, c) = c
  BY <1>2 DEF Outside, Calm, Counting, Fencing, Syncing, LiveIn, SwitchOps, LoneOps, SyncOps
<1>4. ASSUME NEW n \in Vcpu
      PROVE  /\ Requeueing(s, n) \/ Switching(s, n) => LiveIn(s, c) = c
             /\ Publishing(s, n) => LiveIn(s, c) = n
  BY <1>1 DEF Requeueing, Switching, Publishing, LiveIn
<1> QED
  BY <1>3, <1>4

(* A live vCPU is pinned to the pCPU it lives on.                           *)
LEMMA LiveHome ==
    ASSUME TypeInv, PlaceInv, NEW p \in Cpu, Live(p) # NoVcpu
    PROVE  Live(p) \in Vcpu /\ Affinity[Live(p)] = p
<1>1. todo[p] \in Seq(StepRec) /\ AtHome(p) /\ cur[p] \in Vcpu \cup {NoVcpu}
  BY DEF TypeInv, TodoOK, PlaceInv, RvTypeOK
<1>2. CASE Outside(todo[p])
  BY <1>1, <1>2, LiveShape DEF Live, AtHome
<1>3. ASSUME NEW n \in Vcpu, Affinity[n] = p, Inside(todo[p], n) PROVE Live(p) \in Vcpu /\ Affinity[Live(p)] = p
  BY <1>1, <1>3, LiveShape DEF Live, AtHome, Inside
<1> QED
  BY <1>1, <1>2, <1>3 DEF AtHome, Inside

(* Only the switch makes another vCPU live.                                 *)
LEMMA LiveKept ==
    ASSUME TypeInv, PlaceInv, NEW p \in Cpu, Act(p), ~Switch(p)
    PROVE  \A q \in Cpu : Live(q)' = Live(q)
<1>0. TodoOK /\ SchedOK /\ TodoOK' /\ todo[p] \in Seq(StepRec) /\ todo'[p] \in Seq(StepRec)
  BY TypeParts, SchedStep DEF TodoOK
<1>1. ASSUME UNCHANGED cur, \A q \in Cpu \ {p} : todo'[q] = todo[q],
             LiveIn(todo'[p], cur[p]) = LiveIn(todo[p], cur[p])
      PROVE  \A q \in Cpu : Live(q)' = Live(q)
  BY <1>1 DEF Live
<1>2. CASE LightAction(p)
  <2>1. LightStep(p) /\ UNCHANGED <<ready, cur>>
    BY <1>2, AllLight, LightStill
  <2>2. Calm(todo[p]) /\ Calm(todo'[p]) /\ \A q \in Cpu \ {p} : todo'[q] = todo[q]
    BY <1>0, <2>1, LightCalm, PlaceShape
  <2>3. LiveIn(todo[p], cur[p]) = cur[p] /\ LiveIn(todo'[p], cur[p]) = cur[p]
    BY <1>0, <2>2, LiveShape DEF Outside
  <2> QED
    BY <1>1, <2>1, <2>2, <2>3
<1>3. CASE FenceAction(p)
  <2>1. UNCHANGED cur
    BY <1>3 DEF FenceAction, Take, Hfence, Count, SyncAction, SyncRead, SyncSend, SyncSbi, SyncDone, SyncTimeout, schedVars
  <2>2. Outside(todo[p]) /\ Outside(todo'[p]) /\ \A q \in Cpu \ {p} : todo'[q] = todo[q]
    BY <1>0, <1>3, FenceShape, SyncShape DEF FenceAction
  <2>3. LiveIn(todo[p], cur[p]) = cur[p] /\ LiveIn(todo'[p], cur[p]) = cur[p]
    BY <1>0, <2>2, LiveShape
  <2> QED
    BY <1>1, <2>1, <2>2, <2>3
<1>4. CASE Requeue(p)
  <2>1. At(p, "requeue") /\ UNCHANGED cur
    BY <1>4 DEF Requeue
  <2>2. todo'[p] = Tail(todo[p]) /\ \A q \in Cpu \ {p} : todo'[q] = todo[q]
    BY <1>4, RequeuePlace
  <2>3. PICK n \in Vcpu : Requeueing(todo[p], n)
    BY <1>0, <2>1, InsideHead DEF SwitchOps, LoneOps, SyncOps
  <2>4. Switching(todo'[p], n)
    BY <2>2, <2>3 DEF Requeueing
  <2>5. LiveIn(todo[p], cur[p]) = cur[p] /\ LiveIn(todo'[p], cur[p]) = cur[p]
    BY <1>0, <2>3, <2>4, LiveShape
  <2> QED
    BY <1>1, <2>1, <2>2, <2>5
<1>5. CASE Publish(p)
  <2>1. At(p, "publish") /\ cur' = [cur EXCEPT ![p] = Now(p).vcpu]
    BY <1>5 DEF Publish
  <2>2. todo'[p] = Tail(todo[p]) /\ \A q \in Cpu \ {p} : todo'[q] = todo[q]
    BY <1>5, PublishPlace
  <2>3. PICK n \in Vcpu : Publishing(todo[p], n)
    BY <1>0, <2>1, InsideHead DEF SwitchOps, LoneOps, SyncOps
  <2>4. Calm(todo'[p]) /\ Now(p).vcpu = n
    BY <2>2, <2>3 DEF Publishing, Now, For
  <2>5. LiveIn(todo[p], cur[p]) = n /\ cur'[p] = n /\ \A q \in Cpu \ {p} : cur'[q] = cur[q]
    BY <1>0, <2>1, <2>3, <2>4, LiveShape DEF SchedOK
  <2>6. LiveIn(todo'[p], cur'[p]) = n
    BY <1>0, <2>4, <2>5, LiveShape DEF Outside
  <2> QED
    BY <2>2, <2>5, <2>6 DEF Live
<1>6. CASE Compute(p)
  BY <1>6 DEF Compute, Guest, schedVars, Live
<1>7. ASSUME NEW i \in 1..Len(ready), YieldTo(p, i) PROVE \A q \in Cpu : Live(q)' = Live(q)
  <2>1. /\ Calm(todo[p]) /\ (Requeueing(todo'[p], ready[i]) \/ Switching(todo'[p], ready[i]))
        /\ \A q \in Cpu \ {p} : todo'[q] = todo[q]
    BY <1>7, YieldPlace DEF YieldTo
  <2>2. ready[i] \in Vcpu
    BY <1>0, ElementOfSeq DEF SchedOK
  <2>3. LiveIn(todo[p], cur[p]) = cur[p] /\ LiveIn(todo'[p], cur[p]) = cur[p]
    BY <1>0, <2>1, <2>2, LiveShape DEF Outside
  <2> QED
    BY <1>1, <1>7, <2>1, <2>3 DEF YieldTo
<1> QED
  BY <1>2, <1>3, <1>4, <1>5, <1>6, <1>7, ActKinds

(* The guest changes its own registers only.                                *)
LEMMA CtxWritten ==
    ASSUME TypeInv, PlaceInv, CtxInv, NEW p \in Cpu, NEW v \in Vcpu, Live(p) = v,
           \A q \in Cpu : Live(q)' = Live(q), ctx' = ctx, CtxOK',
           \A q \in Cpu \ {p} : csr'[q] = csr[q], \A w \in Vcpu \ {v} : own'[w] = own[w],
           Matches(csr'[p], own'[v], v)
    PROVE  CtxInv'
<1>0. v # NoVcpu
  BY RvConstants
<1>1. \A q \in Cpu \ {p} : Live(q) # v
  BY <1>0, LiveHome
<1>2. ASSUME NEW q \in Cpu, Live(q)' # NoVcpu PROVE Matches(csr'[q], own'[Live(q)'], Live(q)')
  <2>1. CASE q = p
    BY <2>1
  <2>2. CASE q # p
    <3>1. Live(q) \in Vcpu \ {v} /\ Live(q)' = Live(q)
      BY <1>1, <1>2, <2>2, LiveHome
    <3>2. csr'[q] = csr[q] /\ own'[Live(q)] = own[Live(q)] /\ Matches(csr[q], own[Live(q)], Live(q))
      BY <2>2, <3>1, RvConstants DEF CtxInv
    <3> QED
      BY <3>1, <3>2
  <2> QED
    BY <2>1, <2>2
<1>3. ASSUME NEW w \in Vcpu, \A q \in Cpu : Live(q)' # w PROVE Matches(ctx'[w], own'[w], w)
  <2>1. \A q \in Cpu : Live(q) # w
    BY <1>3
  <2>2. w # v /\ Matches(ctx[w], own[w], w)
    BY <2>1 DEF CtxInv
  <2> QED
    BY <2>2
<1> QED
  BY <1>2, <1>3 DEF CtxInv

(* __vcpu_switch: the outgoing vCPU's registers are saved, and the incoming *)
(* one's, which no pCPU held, are loaded.                                   *)
LEMMA CtxSwitched ==
    ASSUME TypeInv, PlaceInv, CtxInv, NEW p \in Cpu, Switch(p)
    PROVE  CtxInv'
<1>0. /\ TodoOK /\ SchedOK /\ CtxOK /\ csr[p] \in Regs /\ todo[p] \in Seq(StepRec)
      /\ cur[p] \in Vcpu \cup {NoVcpu} /\ At(p, "switch")
  BY TypeParts DEF CtxOK, TodoOK, SchedOK, Switch
<1>1. PICK n \in Vcpu : Affinity[n] = p /\ n # cur[p] /\ Switching(todo[p], n) /\ Now(p).vcpu = n
  BY <1>0, InsideHead DEF SwitchOps, LoneOps, SyncOps
<1> DEFINE left == IF cur[p] = NoVcpu THEN ctx ELSE [ctx EXCEPT ![cur[p]] = ContextSave(@, csr[p])]
<1>2. ctx' = left /\ csr' = [csr EXCEPT ![p] = ContextRestore(left[n], csr[p])] /\ own' = own /\ cur' = cur
  BY <1>1 DEF Switch, schedVars
<1>3. todo'[p] = Tail(todo[p]) /\ TodoOK' /\ \A q \in Cpu \ {p} : todo'[q] = todo[q]
  BY <1>0, Pop DEF Switch, At
<1>4. Live(p) = cur[p] /\ Live(p)' = n /\ \A q \in Cpu \ {p} : Live(q)' = Live(q)
  <2>1. Publishing(todo'[p], n) /\ todo'[p] \in Seq(StepRec)
    BY <1>1, <1>3 DEF Switching, TodoOK
  <2>2. LiveIn(todo'[p], cur'[p]) = n /\ LiveIn(todo[p], cur[p]) = cur[p]
    BY <1>0, <1>1, <2>1, LiveShape
  <2> QED
    BY <1>2, <1>3, <2>2 DEF Live
<1>5. \A q \in Cpu \ {p} : Live(q) # n /\ (Live(q) # NoVcpu => Live(q) # cur[p])
  <2>1. cur[p] # NoVcpu => Affinity[cur[p]] = p
    BY <1>4, LiveHome
  <2> QED
    BY <1>1, <2>1, LiveHome, RvConstants
<1>6. Matches(ctx[n], own[n], n) /\ ctx[n] \in Regs
  BY <1>0, <1>1, <1>4, <1>5 DEF CtxInv, CtxOK
<1>7. left[n] = ctx[n]
  BY <1>0, <1>1 DEF CtxOK
<1>8. cur[p] # NoVcpu => Matches(left[cur[p]], own[cur[p]], cur[p])
  <2> SUFFICES ASSUME cur[p] # NoVcpu PROVE Matches(left[cur[p]], own[cur[p]], cur[p])
    OBVIOUS
  <2>1. ctx[cur[p]] \in Regs /\ left[cur[p]] = ContextSave(ctx[cur[p]], csr[p])
    BY <1>0 DEF CtxOK
  <2>2. Matches(csr[p], own[cur[p]], cur[p])
    BY <1>4 DEF CtxInv
  <2> HIDE DEF left
  <2>3. /\ left[cur[p]].vs = csr[p].vs /\ left[cur[p]].state = csr[p].state
        /\ \A u \in Units : csr[p].state[u] = "dirty" => left[cur[p]].reg[u] = csr[p].reg[u]
    <3> DEFINE a == ctx[cur[p]]
               b == csr[p]
    <3>1. a \in Regs /\ b \in Regs
      BY <1>0, <2>1
    <3> HIDE DEF a, b
    <3>2. /\ ContextSave(a, b).vs = b.vs /\ ContextSave(a, b).state = b.state
          /\ \A u \in Units : b.state[u] = "dirty" => ContextSave(a, b).reg[u] = b.reg[u]
      BY <3>1, ContextMoves
    <3> QED
      BY <2>1, <3>2 DEF a, b
  <2> QED
    BY <2>2, <2>3 DEF Matches
<1>9. \A w \in Vcpu : w # cur[p] => left[w] = ctx[w]
  BY <1>0 DEF CtxOK
<1> HIDE DEF left
<1>10. Matches(csr'[p], own[n], n)
  <2>1. csr'[p] = ContextRestore(ctx[n], csr[p])
    BY <1>0, <1>2, <1>7 DEF CtxOK
  <2>2. /\ csr'[p].vs = ctx[n].vs /\ csr'[p].state = ctx[n].state
        /\ \A u \in Units : ctx[n].state[u] = "dirty" => csr'[p].reg[u] = ctx[n].reg[u]
    <3> DEFINE a == ctx[n]
               b == csr[p]
    <3>1. a \in Regs /\ b \in Regs
      BY <1>0, <1>6
    <3> HIDE DEF a, b
    <3>2. /\ ContextRestore(a, b).vs = a.vs /\ ContextRestore(a, b).state = a.state
          /\ \A u \in Units : a.state[u] = "dirty" => ContextRestore(a, b).reg[u] = a.reg[u]
      BY <3>1, ContextMoves
    <3> QED
      BY <2>1, <3>2 DEF a, b
  <2> QED
    BY <1>6, <2>2 DEF Matches
<1>11. ASSUME NEW q \in Cpu, Live(q)' # NoVcpu PROVE Matches(csr'[q], own'[Live(q)'], Live(q)')
  <2>1. CASE q = p
    BY <1>2, <1>4, <1>10, <2>1
  <2>2. CASE q # p
    <3>1. Live(q)' = Live(q) /\ csr'[q] = csr[q] /\ own' = own
      BY <1>0, <1>2, <1>4, <2>2 DEF CtxOK
    <3>2. Matches(csr[q], own[Live(q)], Live(q))
      BY <1>11, <3>1 DEF CtxInv
    <3> QED
      BY <3>1, <3>2
  <2> QED
    BY <2>1, <2>2
<1>12. ASSUME NEW w \in Vcpu, \A q \in Cpu : Live(q)' # w PROVE Matches(ctx'[w], own'[w], w)
  <2>1. CASE w = cur[p]
    BY <1>2, <1>8, <2>1, RvConstants
  <2>2. CASE w # cur[p]
    <3>1. \A q \in Cpu : Live(q) # w
      BY <1>4, <1>12, <2>2
    <3>2. Matches(ctx[w], own[w], w) /\ left[w] = ctx[w]
      BY <1>9, <2>2, <3>1 DEF CtxInv
    <3> QED
      BY <1>2, <3>2
  <2> QED
    BY <2>1, <2>2
<1> QED
  BY <1>11, <1>12 DEF CtxInv

(* Every step.                                                              *)
LEMMA CtxStep ==
    ASSUME TypeInv, PlaceInv, CtxInv, [RvNext]_vars
    PROVE  CtxInv'
<1>1. ASSUME \A q \in Cpu : Live(q)' = Live(q), UNCHANGED ctxVars PROVE CtxInv'
  BY <1>1 DEF CtxInv, ctxVars
<1>2. ASSUME NEW p \in Cpu, Act(p), ~Switch(p), ~UNCHANGED ctxVars PROVE CtxInv'
  <2>0. /\ CtxOK /\ SchedOK /\ CtxOK' /\ todo[p] = <<>> /\ cur[p] \in Vcpu
        /\ \A q \in Cpu : Live(q)' = Live(q)
    <3>1. Compute(p) \/ Redirect(p)
      BY <1>2, Frame
    <3>2. todo[p] = <<>> /\ cur[p] # NoVcpu
      BY <3>1 DEF Compute, Redirect, Guest
    <3> QED
      BY <1>2, <3>2, TypeParts, CtxTyped, LiveKept DEF SchedOK
  <2>1. Live(p) = cur[p]
    BY <2>0 DEF Live, LiveIn
  <2>2. Matches(csr[p], own[cur[p]], cur[p])
    BY <2>0, <2>1, RvConstants DEF CtxInv
  <2>3. /\ ctx' = ctx /\ (\A q \in Cpu \ {p} : csr'[q] = csr[q])
        /\ \A w \in Vcpu \ {cur[p]} : own'[w] = own[w]
        /\ Matches(csr'[p], own'[cur[p]], cur[p])
    <3>1. CASE Compute(p)
      <4>1. PICK used \in {{}} \cup {{u} : u \in Units}, mark \in {"dirty", "clean"} :
            /\ csr' = [csr EXCEPT ![p] =
                         [vs    |-> <<cur[p], Fresh(p)>>,
                          state |-> [u \in Units |-> IF u \in used THEN mark ELSE csr[p].state[u]],
                          reg   |-> [u \in Units |-> IF u \in used THEN <<cur[p], Fresh(p)>> ELSE csr[p].reg[u]]]]
            /\ own' = [own EXCEPT ![cur[p]] = [n |-> Fresh(p),
                          reg |-> [u \in Units |-> IF u \in used THEN Fresh(p) ELSE own[cur[p]].reg[u]]]]
            /\ ctx' = ctx
        BY <3>1 DEF Compute
      <4>2. /\ csr'[p] = [vs    |-> <<cur[p], Fresh(p)>>,
                          state |-> [u \in Units |-> IF u \in used THEN mark ELSE csr[p].state[u]],
                          reg   |-> [u \in Units |-> IF u \in used THEN <<cur[p], Fresh(p)>> ELSE csr[p].reg[u]]]
            /\ own'[cur[p]] = [n |-> Fresh(p),
                          reg |-> [u \in Units |-> IF u \in used THEN Fresh(p) ELSE own[cur[p]].reg[u]]]
        BY <2>0, <4>1 DEF CtxOK
      <4>3. Matches(csr'[p], own'[cur[p]], cur[p])
        BY <2>2, <4>2 DEF Matches
      <4> QED
        BY <2>0, <4>1, <4>3 DEF CtxOK
    <3>2. CASE Redirect(p)
      <4>1. /\ csr' = [csr EXCEPT ![p] = [csr[p] EXCEPT !.vs = <<cur[p], Fresh(p)>>]]
            /\ own' = [own EXCEPT ![cur[p]] = [own[cur[p]] EXCEPT !.n = Fresh(p)]] /\ ctx' = ctx
        BY <3>2 DEF Redirect
      <4>2. csr[p] \in Regs /\ own[cur[p]] \in Owns
        BY <2>0 DEF CtxOK
      <4>3. /\ csr'[p] = [csr[p] EXCEPT !.vs = <<cur[p], Fresh(p)>>]
            /\ own'[cur[p]] = [own[cur[p]] EXCEPT !.n = Fresh(p)]
        BY <2>0, <4>1 DEF CtxOK
      <4>4. /\ csr'[p].vs = <<cur[p], Fresh(p)>> /\ csr'[p].state = csr[p].state /\ csr'[p].reg = csr[p].reg
            /\ own'[cur[p]].n = Fresh(p) /\ own'[cur[p]].reg = own[cur[p]].reg
        BY <4>2, <4>3 DEF Regs, Owns
      <4>5. Matches(csr'[p], own'[cur[p]], cur[p])
        BY <2>2, <4>4 DEF Matches
      <4> QED
        BY <2>0, <4>1, <4>5 DEF CtxOK
    <3> QED
      BY <1>2, <3>1, <3>2, Frame
  <2> QED
    BY <2>0, <2>1, <2>3, CtxWritten
<1>3. ASSUME NEW p \in Cpu, Act(p) PROVE CtxInv'
  BY <1>1, <1>2, <1>3, LiveKept, CtxSwitched
<1>4. ASSUME NEW v \in Vcpu, Expire(v) PROVE CtxInv'
  BY <1>1, <1>4 DEF Expire, schedVars, Live
<1>5. CASE UNCHANGED vars
  BY <1>1, <1>5 DEF vars, schedVars, Live
<1> QED
  BY <1>3, <1>4, <1>5 DEF RvNext, Act

(* A vCPU of the guest always runs with the registers it left: the lazy     *)
(* save and restore of vcpu.c, and the requeue before the save, lose none.  *)
THEOREM RunsOwnContext == RvSpec => []OwnContext
<1>1. RvInit => CtxInv
  <2> SUFFICES ASSUME RvInit PROVE CtxInv
    OBVIOUS
  <2>1. \A p \in Cpu : Live(p) = NoVcpu
    BY DEF RvInit, Live, LiveIn
  <2>2. ASSUME NEW v \in Vcpu PROVE Matches(ctx[v], own[v], v)
    BY DEF RvInit, Matches
  <2> QED
    BY <2>1, <2>2 DEF CtxInv
<1>2. TypeInv /\ PlaceInv /\ CtxInv /\ [RvNext]_vars => CtxInv'
  BY CtxStep
<1>3. TypeInv /\ CtxInv => OwnContext
  <2> SUFFICES ASSUME TypeInv, CtxInv, NEW p \in Cpu, NEW v \in Vcpu, InGuest(p, v)
               PROVE  /\ csr[p].vs = <<v, own[v].n>>
                      /\ \A u \in Units : csr[p].state[u] = "dirty" => csr[p].reg[u] = <<v, own[v].reg[u]>>
    BY DEF OwnContext
  <2>1. Live(p) = v /\ v # NoVcpu
    BY RvConstants DEF InGuest, Live, LiveIn
  <2> QED
    BY <2>1 DEF CtxInv, Matches
<1> QED
  BY <1>1, <1>2, <1>3, RvInductive, PTL DEF RvSpec

-----------------------------------------------------------------------------
(* A fence that is reported has been done                                   *)

WaitsIn(s, q) == s # <<>> /\ Head(s).op \in SyncOps /\ Head(s).to = q
CountIn(s)    == s # <<>> /\ Head(s).op = "count"

(* FenceDone made inductive: it holds from the moment the count is read,    *)
(* and of a target that is about to count as well.                          *)
FenceInv ==
    \A p, q \in Cpu :
        WaitsIn(todo[p], q) /\ (done[q] # Head(todo[p]).before \/ CountIn(todo[q]))
            => fenced[p] \/ Head(todo[p]).ahead

(* Which traps wait or count, by their shape.                               *)
LEMMA WaitShape ==
    ASSUME NEW s \in Seq(StepRec)
    PROVE  /\ Calm(s) => ~CountIn(s) /\ \A q : ~WaitsIn(s, q)
           /\ Counting(s) \/ Fencing(s) => \A q : ~WaitsIn(s, q)
           /\ Fencing(s) => ~CountIn(s)
           /\ \A n \in Vcpu : Inside(s, n) => ~CountIn(s) /\ \A q : ~WaitsIn(s, q)
<1>1. s # <<>> => Head(s) \in Els(s)
  BY ElsTail
<1>2. \A n \in Vcpu : /\ For("publish", n).op = "publish" /\ For("switch", n).op = "switch"
                      /\ Step("requeue").op = "requeue"
  BY DEF For, Step
<1>3. Calm(s) => ~CountIn(s) /\ \A q : ~WaitsIn(s, q)
  BY <1>1 DEF Calm, CountIn, WaitsIn, LoneOps
<1>4. /\ Counting(s) \/ Fencing(s) => \A q : ~WaitsIn(s, q)
      /\ Fencing(s) => ~CountIn(s)
  BY DEF Counting, Fencing, CountIn, WaitsIn, SyncOps
<1>5. ASSUME NEW n \in Vcpu, Inside(s, n) PROVE ~CountIn(s) /\ \A q : ~WaitsIn(s, q)
  <2>1. Head(s).op \in SwitchOps
    BY <1>2, <1>5 DEF Inside, Requeueing, Switching, Publishing, SwitchOps
  <2> QED
    BY <2>1 DEF CountIn, WaitsIn, SwitchOps, SyncOps
<1> QED
  BY <1>3, <1>4, <1>5

(* The steps that touch the counts and the history of fences.               *)
LEMMA FenceFrame ==
    ASSUME NEW p \in Cpu, Act(p), TypeInv
    PROVE  \/ UNCHANGED <<done, fenced>> \/ Hfence(p) \/ Count(p)
           \/ SyncRead(p) \/ ((SyncDone(p) \/ SyncTimeout(p)) /\ done' = done /\ \A q \in Cpu \ {p} : fenced'[q] = fenced[q])
<1>0. fenced \in [Cpu -> BOOLEAN]
  BY DEF TypeInv, RvTypeOK
<1>1. CASE UNCHANGED ipiVars
  BY <1>1 DEF ipiVars
<1>2. CASE Soft(p) \/ Take(p) \/ Kick(p) \/ SbiSendIpi(p) \/ SyncSend(p) \/ SyncSbi(p)
  BY <1>2 DEF Soft, Take, Kick, SbiSendIpi, SyncSend, SyncSbi
<1>3. CASE SyncDone(p) \/ SyncTimeout(p)
  BY <1>0, <1>3 DEF SyncDone, SyncTimeout
<1> QED
  BY <1>1, <1>2, <1>3, Frame

(* A step after which its pCPU neither waits nor is about to count.         *)
LEMMA FenceQuiet ==
    ASSUME FenceInv, NEW p \in Cpu, \A q \in Cpu \ {p} : todo'[q] = todo[q],
           ~CountIn(todo'[p]), \A q : ~WaitsIn(todo'[p], q),
           done' = done, \A q \in Cpu \ {p} : fenced'[q] = fenced[q]
    PROVE  FenceInv'
<1> SUFFICES ASSUME NEW a \in Cpu, NEW b \in Cpu, WaitsIn(todo'[a], b),
                    done'[b] # Head(todo'[a]).before \/ CountIn(todo'[b])
             PROVE  fenced'[a] \/ Head(todo'[a]).ahead
  BY DEF FenceInv
<1>1. a # p /\ todo'[a] = todo[a] /\ fenced'[a] = fenced[a]
  OBVIOUS
<1>2. CountIn(todo'[b]) => CountIn(todo[b])
  OBVIOUS
<1> QED
  BY <1>1, <1>2 DEF FenceInv

(* After every step but those of the fence itself that is so.               *)
LEMMA FenceAway ==
    ASSUME TypeInv, PlaceInv, NEW p \in Cpu, Act(p),
           ~Hfence(p), ~Count(p), ~SyncRead(p), ~SyncSend(p), ~SyncSbi(p), ~Compute(p)
    PROVE  /\ ~CountIn(todo'[p]) /\ \A q : ~WaitsIn(todo'[p], q)
           /\ \A q \in Cpu \ {p} : todo'[q] = todo[q]
<1>0. TodoOK /\ SchedOK /\ TodoOK' /\ todo[p] \in Seq(StepRec) /\ todo'[p] \in Seq(StepRec)
  BY TypeParts, SchedStep DEF TodoOK
<1>1. CASE LightAction(p)
  <2>1. Calm(todo'[p]) /\ \A q \in Cpu \ {p} : todo'[q] = todo[q]
    BY <1>0, <1>1, AllLight, LightCalm, PlaceShape
  <2> QED
    BY <1>0, <2>1, WaitShape
<1>2. CASE FenceAction(p)
  <2>1. CASE SyncDone(p) \/ SyncTimeout(p)
    <3>1. Calm(todo'[p]) /\ \A q \in Cpu \ {p} : todo'[q] = todo[q]
      BY <2>1, SyncShape DEF SyncAction
    <3> QED
      BY <1>0, <3>1, WaitShape
  <2>2. CASE Take(p) /\ "fence" \in ipi[p]
    <3>1. todo' = [todo EXCEPT ![p] = <<Step("hfence"), Step("count")>> \o Tail(todo[p])] /\ todo[p] # <<>>
      BY <2>2 DEF Take, Do, SetTodo, At
    <3>2. Step("hfence") \in StepRec /\ Step("count") \in StepRec /\ Step("hfence").op = "hfence"
      BY MakeRec DEF BareOps
    <3>3. Tail(todo[p]) \in Seq(StepRec)
      BY <1>0, <3>1, NowType
    <3> DEFINE a == <<Step("hfence"), Step("count")>>
    <3>4. a \in Seq(StepRec) /\ a # <<>> /\ Head(a) = Step("hfence")
      BY <3>2
    <3>5. todo'[p] = a \o Tail(todo[p])
      BY <1>0, <3>1 DEF TodoOK
    <3> HIDE DEF a
    <3>6. Head(todo'[p]) = Step("hfence")
      BY <3>3, <3>4, <3>5, StepsHead
    <3>7. \A q \in Cpu \ {p} : todo'[q] = todo[q]
      BY <1>0, <3>1 DEF TodoOK
    <3> QED
      BY <3>2, <3>6, <3>7 DEF CountIn, WaitsIn, SyncOps
  <2> QED
    BY <1>2, <2>1, <2>2 DEF FenceAction, SyncAction
<1>3. CASE Requeue(p) \/ Switch(p) \/ Publish(p)
  <2>1. todo'[p] = Tail(todo[p]) /\ \A q \in Cpu \ {p} : todo'[q] = todo[q]
    BY <1>3, RequeuePlace, SwitchPlace, PublishPlace
  <2>2. \E n \in Vcpu : Inside(todo'[p], n) \/ Calm(todo'[p])
    <3>1. At(p, "requeue") \/ At(p, "switch") \/ At(p, "publish")
      BY <1>3 DEF Requeue, Switch, Publish
    <3>2. \E n \in Vcpu : Requeueing(todo[p], n) \/ Switching(todo[p], n) \/ Publishing(todo[p], n)
      BY <1>0, <3>1, InsideHead DEF SwitchOps
    <3> QED
      BY <2>1, <3>2 DEF Inside, Requeueing, Switching, Publishing
  <2> QED
    BY <1>0, <2>1, <2>2, WaitShape
<1>4. ASSUME NEW i \in 1..Len(ready), YieldTo(p, i)
      PROVE  /\ ~CountIn(todo'[p]) /\ \A q : ~WaitsIn(todo'[p], q)
             /\ \A q \in Cpu \ {p} : todo'[q] = todo[q]
  <2>1. /\ Requeueing(todo'[p], ready[i]) \/ Switching(todo'[p], ready[i])
        /\ \A q \in Cpu \ {p} : todo'[q] = todo[q]
    BY <1>4, YieldPlace DEF YieldTo
  <2>2. ready[i] \in Vcpu
    BY <1>0, ElementOfSeq DEF SchedOK
  <2> QED
    BY <1>0, <2>1, <2>2, WaitShape DEF Inside
<1> QED
  BY <1>1, <1>2, <1>3, <1>4, ActKinds

(* ipi_remote_fence_all: those who wait for this pCPU have their fence.     *)
LEMMA FenceFenced ==
    ASSUME TypeInv, PlaceInv, FenceInv, NEW p \in Cpu, Hfence(p)
    PROVE  FenceInv'
<1>0. TodoOK /\ todo[p] # <<>> /\ Now(p).op = "hfence" /\ done' = done /\ fenced' = [q \in Cpu |-> fenced[q] \/ Waits(q, p)]
  BY TypeParts DEF Hfence, At, Now
<1>1. todo'[p] = Tail(todo[p]) /\ TodoOK' /\ \A q \in Cpu \ {p} : todo'[q] = todo[q]
  BY <1>0, Pop DEF Hfence
<1>2. \A q : ~WaitsIn(todo'[p], q)
  <2>1. Calm(todo[p]) \/ Fencing(todo[p])
    BY <1>0, CalmHead DEF SwitchOps
  <2>2. Els(todo[p]) = {Now(p)} \cup Els(Tail(todo[p]))
    BY <1>0, NowType
  <2>3. Calm(todo'[p]) \/ Counting(todo'[p])
    BY <1>1, <2>1, <2>2 DEF Fencing, Calm
  <2> QED
    BY <1>1, <2>3, WaitShape DEF TodoOK
<1> SUFFICES ASSUME NEW a \in Cpu, NEW b \in Cpu, WaitsIn(todo'[a], b),
                    done'[b] # Head(todo'[a]).before \/ CountIn(todo'[b])
             PROVE  fenced'[a] \/ Head(todo'[a]).ahead
  BY DEF FenceInv
<1>3. a # p /\ todo'[a] = todo[a]
  BY <1>1, <1>2
<1>4. CASE b = p
  <2>1. Waits(a, p)
    BY <1>3, <1>4 DEF Waits, WaitsIn, At, Now, SyncOps
  <2> QED
    BY <1>0, <2>1
<1>5. CASE b # p
  <2>1. fenced[a] \/ Head(todo[a]).ahead
    BY <1>0, <1>1, <1>3, <1>5 DEF FenceInv
  <2> QED
    BY <1>0, <1>3, <2>1
<1> QED
  BY <1>4, <1>5

(* The end of ipi_handle: who waits for this pCPU had its fence already.    *)
LEMMA FenceCounted ==
    ASSUME TypeInv, PlaceInv, FenceInv, NEW p \in Cpu, Count(p)
    PROVE  FenceInv'
<1>0. /\ TodoOK /\ todo[p] # <<>> /\ Now(p).op = "count" /\ fenced' = fenced
      /\ done \in [Cpu -> Nat] /\ done' = [done EXCEPT ![p] = @ + 1]
  BY TypeParts DEF Count, At, Now, IpiOK
<1>1. todo'[p] = Tail(todo[p]) /\ TodoOK' /\ \A q \in Cpu \ {p} : todo'[q] = todo[q]
  BY <1>0, Pop DEF Count
<1>2. ~CountIn(todo'[p]) /\ (\A q : ~WaitsIn(todo'[p], q)) /\ CountIn(todo[p])
  <2>1. Counting(todo[p])
    BY <1>0, CalmHead DEF SwitchOps
  <2> QED
    BY <1>0, <1>1, <2>1, WaitShape DEF TodoOK, Counting, CountIn
<1> SUFFICES ASSUME NEW a \in Cpu, NEW b \in Cpu, WaitsIn(todo'[a], b),
                    done'[b] # Head(todo'[a]).before \/ CountIn(todo'[b])
             PROVE  fenced'[a] \/ Head(todo'[a]).ahead
  BY DEF FenceInv
<1>3. a # p /\ todo'[a] = todo[a] /\ WaitsIn(todo[a], b)
  BY <1>1, <1>2
<1>4. CASE b = p
  BY <1>0, <1>2, <1>3, <1>4 DEF FenceInv
<1>5. CASE b # p
  <2>1. done'[b] = done[b] /\ todo'[b] = todo[b]
    BY <1>0, <1>1, <1>5
  <2> QED
    BY <1>0, <1>3, <2>1 DEF FenceInv
<1> QED
  BY <1>4, <1>5

(* riscv_ipi_send_cpu_sync up to its wait.                                  *)
LEMMA FenceSent ==
    ASSUME TypeInv, PlaceInv, FenceInv, NEW p \in Cpu, SyncRead(p) \/ SyncSend(p) \/ SyncSbi(p)
    PROVE  FenceInv'
<1>0. TodoOK /\ done' = done /\ fenced \in [Cpu -> BOOLEAN] /\ \A q \in Cpu \ {p} : fenced'[q] = fenced[q]
  BY TypeParts DEF IpiOK, SyncRead, SyncSend, SyncSbi
<1>1. TodoOK' /\ todo[p] # <<>> /\ \A q \in Cpu \ {p} : todo'[q] = todo[q]
  BY SyncShape DEF SyncAction
<1>2. todo'[p] # <<>> /\ Head(todo'[p]).op \in SyncOps
  <2>1. CASE SyncRead(p)
    <3>1. todo'[p] # <<>> /\ Head(todo'[p]) = [op |-> "sync_send", to |-> Now(p).to, before |-> done[Now(p).to],
                                               ahead |-> At(Now(p).to, "count")]
      BY <2>1, SyncShape DEF SyncAction
    <3>2. Head(todo'[p]).op = "sync_send"
      BY <3>1
    <3> QED
      BY <3>1, <3>2 DEF SyncOps
  <2>2. CASE SyncSend(p) \/ SyncSbi(p)
    BY <2>2, SyncShape DEF SyncAction
  <2> QED
    BY <2>1, <2>2
<1> SUFFICES ASSUME NEW a \in Cpu, NEW b \in Cpu, WaitsIn(todo'[a], b),
                    done'[b] # Head(todo'[a]).before \/ CountIn(todo'[b])
             PROVE  fenced'[a] \/ Head(todo'[a]).ahead
  BY DEF FenceInv
<1>3. CountIn(todo'[b]) => b # p /\ CountIn(todo[b])
  BY <1>1, <1>2 DEF CountIn, SyncOps
<1>4. CASE a # p
  BY <1>0, <1>1, <1>3, <1>4 DEF FenceInv
<1>5. CASE a = p
  <2>1. CASE SyncRead(p)
    <3>1. Head(todo'[p]) = [op |-> "sync_send", to |-> Now(p).to, before |-> done[Now(p).to],
                           ahead |-> At(Now(p).to, "count")]
      BY <2>1, SyncShape DEF SyncAction
    <3>2. b = Now(p).to /\ Head(todo'[p]).before = done[b] /\ Head(todo'[p]).ahead = At(b, "count")
      BY <1>5, <3>1 DEF WaitsIn
    <3>3. CountIn(todo[b])
      BY <1>0, <1>3, <1>5, <3>2
    <3>4. At(b, "count")
      BY <3>3 DEF CountIn, At
    <3> QED
      BY <1>5, <3>2, <3>4
  <2>2. CASE SyncSend(p) \/ SyncSbi(p)
    <3>1. /\ Head(todo'[p]).to = Now(p).to /\ Head(todo'[p]).before = Now(p).before
          /\ Head(todo'[p]).ahead = Now(p).ahead
      BY <2>2, SyncShape DEF SyncAction
    <3>2. fenced' = fenced /\ WaitsIn(todo[p], b) /\ Now(p) = Head(todo[p])
      BY <1>5, <2>2, <3>1 DEF SyncSend, SyncSbi, WaitsIn, At, Now, SyncOps
    <3> QED
      BY <1>0, <1>3, <1>5, <3>1, <3>2 DEF FenceInv
  <2> QED
    BY <2>1, <2>2
<1> QED
  BY <1>4, <1>5

(* Every step.                                                              *)
LEMMA FenceStep ==
    ASSUME TypeInv, PlaceInv, FenceInv, [RvNext]_vars
    PROVE  FenceInv'
<1>1. ASSUME UNCHANGED <<todo, done, fenced>> PROVE FenceInv'
  BY <1>1 DEF FenceInv
<1>2. ASSUME NEW p \in Cpu, Act(p) PROVE FenceInv'
  <2>1. CASE Hfence(p)
    BY <2>1, FenceFenced
  <2>2. CASE Count(p)
    BY <2>2, FenceCounted
  <2>3. CASE SyncRead(p) \/ SyncSend(p) \/ SyncSbi(p)
    BY <2>3, FenceSent
  <2>4. CASE Compute(p)
    BY <1>1, <2>4 DEF Compute, ipiVars
  <2>5. CASE ~(Hfence(p) \/ Count(p) \/ SyncRead(p) \/ SyncSend(p) \/ SyncSbi(p) \/ Compute(p))
    <3>1. /\ ~CountIn(todo'[p]) /\ \A q : ~WaitsIn(todo'[p], q)
          /\ \A q \in Cpu \ {p} : todo'[q] = todo[q]
      BY <1>2, <2>5, FenceAway
    <3>2. done' = done /\ \A q \in Cpu \ {p} : fenced'[q] = fenced[q]
      BY <1>2, <2>5, FenceFrame
    <3> QED
      BY <3>1, <3>2, FenceQuiet
  <2> QED
    BY <2>1, <2>2, <2>3, <2>4, <2>5
<1>3. ASSUME NEW v \in Vcpu, Expire(v) PROVE FenceInv'
  BY <1>1, <1>3 DEF Expire, ipiVars
<1>4. CASE UNCHANGED vars
  BY <1>1, <1>4 DEF vars, ipiVars
<1> QED
  BY <1>2, <1>3, <1>4 DEF RvNext, Act

(* riscv_ipi_send_cpu_sync never reports a fence its target has not done,   *)
(* the stale count of an earlier request apart, which ahead marks.          *)
THEOREM FenceReported == RvSpec => []FenceDone
<1>1. RvInit => FenceInv
  BY DEF RvInit, FenceInv, WaitsIn
<1>2. TypeInv /\ PlaceInv /\ FenceInv /\ [RvNext]_vars => FenceInv'
  BY FenceStep
<1>3. TypeInv /\ FenceInv => FenceDone
  <2> SUFFICES ASSUME TypeInv, FenceInv, NEW p \in Cpu, Acknowledged(p) PROVE fenced[p] \/ Now(p).ahead
    BY DEF FenceDone
  <2>1. todo[p] # <<>> /\ Now(p).op = "sync_wait" /\ Now(p) \in StepRec /\ TodoOK
    BY NowType DEF Acknowledged, At, Now, TypeInv
  <2>2. Now(p).to \in Cpu
    BY <2>1, RecOf DEF SyncOps
  <2>3. WaitsIn(todo[p], Now(p).to) /\ done[Now(p).to] # Head(todo[p]).before
    BY <2>1 DEF WaitsIn, Now, SyncOps, Acknowledged
  <2> QED
    BY <2>2, <2>3 DEF FenceInv, Now
<1> QED
  BY <1>1, <1>2, <1>3, RvInductive, PTL DEF RvSpec

-----------------------------------------------------------------------------
(* An interrupt of the image reaches HVIP                                   *)

Owes(s, q) == \E x \in Els(s) : x.op \in {"kick", "sbi"} /\ x.to = q
Copies(s)  == \E x \in Els(s) : x.op = "materialize"
Covers(p)  == cur[p] # NoVcpu => virq[cur[p]] \subseteq hvip[p]

(* HvipCoversImage made inductive: inside a trap, too, HVIP of a pCPU has   *)
(* the image of its current vCPU, or a software interrupt is on the way, or *)
(* the trap itself will copy the image.                                     *)
CoverInv ==
    \A p \in Cpu : Covers(p) \/ Copies(todo[p]) \/ sip[p] \/ \E q \in Cpu : Owes(todo[q], p)

(* A step of pCPU p keeps it when it loses neither a software interrupt nor *)
(* a copy that is still needed.                                             *)
LEMMA CoverKept ==
    ASSUME CoverInv, NEW p \in Cpu, \A q \in Cpu \ {p} : todo'[q] = todo[q],
           \A q \in Cpu : Owes(todo[p], q) => sip'[q] \/ Owes(todo'[p], q),
           Copies(todo[p]) => Copies(todo'[p]) \/ Covers(p)',
           \A q \in Cpu : sip[q] => sip'[q] \/ (q = p /\ Copies(todo'[p])),
           \A q \in Cpu : Covers(q) => \/ Covers(q)' \/ Owes(todo'[p], q)
                                       \/ (q = p /\ Copies(todo'[p]))
    PROVE  CoverInv'
<1> SUFFICES ASSUME NEW a \in Cpu
             PROVE  Covers(a)' \/ Copies(todo'[a]) \/ sip'[a] \/ \E q \in Cpu : Owes(todo'[q], a)
  BY DEF CoverInv
<1>1. CASE Covers(a)
  BY <1>1
<1>2. CASE Copies(todo[a])
  BY <1>2
<1>3. CASE sip[a]
  BY <1>3
<1>4. ASSUME NEW q \in Cpu, Owes(todo[q], a)
      PROVE  Covers(a)' \/ Copies(todo'[a]) \/ sip'[a] \/ \E b \in Cpu : Owes(todo'[b], a)
  <2>1. CASE q = p
    BY <1>4, <2>1
  <2>2. CASE q # p
    <3>1. Owes(todo'[q], a)
      BY <1>4, <2>2
    <3> QED
      BY <3>1
  <2> QED
    BY <2>1, <2>2
<1> QED
  BY <1>1, <1>2, <1>3, <1>4 DEF CoverInv

(* What a step leaves of its trap.                                          *)
LEMMA TailKept ==
    ASSUME TypeInv, PlaceInv, NEW p \in Cpu, Act(p), ~Compute(p)
    PROVE  /\ \A q \in Cpu \ {p} : todo'[q] = todo[q]
           /\ todo[p] # <<>> => Els(Tail(todo[p])) \subseteq Els(todo'[p])
<1>0. TodoOK
  BY TypeParts
<1>1. CASE LightAction(p)
  BY <1>0, <1>1, AllLight, LightCalm, PlaceShape
<1>2. CASE FenceAction(p)
  BY <1>0, <1>2, FenceShape, SyncShape DEF FenceAction
<1>3. CASE Requeue(p) \/ Switch(p) \/ Publish(p)
  <2>1. todo'[p] = Tail(todo[p]) /\ \A q \in Cpu \ {p} : todo'[q] = todo[q]
    BY <1>3, RequeuePlace, SwitchPlace, PublishPlace
  <2> QED
    BY <2>1
<1>4. ASSUME NEW i \in 1..Len(ready), YieldTo(p, i)
      PROVE  /\ \A q \in Cpu \ {p} : todo'[q] = todo[q]
             /\ todo[p] # <<>> => Els(Tail(todo[p])) \subseteq Els(todo'[p])
  BY <1>4, YieldPlace DEF YieldTo
<1> QED
  BY <1>1, <1>2, <1>3, <1>4, ActKinds

(* The step at the head of a trap is the one that is taken.                 *)
LEMMA HeadActs ==
    ASSUME NEW p, Act(p), todo[p] # <<>>
    PROVE  /\ Now(p).op = "kick" => Kick(p)
           /\ Now(p).op = "sbi" => SbiSendIpi(p)
           /\ Now(p).op = "materialize" => Materialize(p)
           /\ Now(p).op = "timer" => TimerRefresh(p)
           /\ Now(p).op = "refresh" => Refresh(p)
<1> USE DEF At, Now
<1>1. CASE Tick(p) \/ Soft(p) \/ Ext(p)
  BY <1>1 DEF Tick, Soft, Ext, Trap
<1>2. CASE Take(p) \/ Hfence(p) \/ Count(p) \/ Requeue(p) \/ Switch(p) \/ Publish(p) \/ Yield(p)
  BY <1>2 DEF Take, Hfence, Count, Requeue, Switch, Publish, Yield
<1>3. CASE FindRunning(p) \/ FindReady(p) \/ Inject(p) \/ Retract(p)
  BY <1>3 DEF FindRunning, FindReady, Inject, Retract
<1>4. CASE Levels(p) \/ UartLine(p) \/ UpdateIrq(p) \/ Service(p) \/ IirTx(p)
  BY <1>4 DEF Levels, UartLine, UpdateIrq, Service, IirTx
<1>5. CASE Select(p) \/ Fences(p) \/ SyncRead(p) \/ SyncSend(p) \/ SyncSbi(p) \/ SyncDone(p) \/ SyncTimeout(p)
  BY <1>5 DEF Select, Fences, SyncRead, SyncSend, SyncSbi, SyncDone, SyncTimeout, Acknowledged
<1>6. CASE GuestStep(p)
  BY <1>6 DEF GuestStep, Compute, Redirect, NoEffect, SetTimer, SendIpi, ClearIpi, RemoteFence,
              UartLoad, UartStore, PlicLoad, PlicStore, Guest
<1>7. CASE Kick(p) \/ SbiSendIpi(p) \/ Materialize(p) \/ TimerRefresh(p) \/ Refresh(p)
  BY <1>7 DEF Kick, SbiSendIpi, Materialize, TimerRefresh, Refresh
<1> QED
  BY <1>1, <1>2, <1>3, <1>4, <1>5, <1>6, <1>7 DEF Act, Continue

(* No software interrupt is lost, and no copy.                              *)
LEMMA OwesKept ==
    ASSUME TypeInv, PlaceInv, NEW p \in Cpu, Act(p), ~Compute(p)
    PROVE  /\ \A q \in Cpu : Owes(todo[p], q) => sip'[q] \/ Owes(todo'[p], q)
           /\ Copies(todo[p]) => Copies(todo'[p]) \/ Covers(p)'
<1>0. TodoOK /\ SchedOK /\ IrqOK /\ IpiOK
  BY TypeParts
<1>1. CASE todo[p] = <<>>
  BY <1>1, ElsLiteral DEF Owes, Copies
<1>2. CASE todo[p] # <<>>
  <2>1. /\ Els(todo[p]) = {Now(p)} \cup Els(Tail(todo[p])) /\ Now(p) \in StepRec /\ Tail(todo[p]) \in Seq(StepRec)
        /\ Els(Tail(todo[p])) \subseteq Els(todo'[p])
    BY <1>0, <1>2, NowType, TailKept
  <2>2. CASE Now(p).op = "kick"
    <3>1. Do(p, <<To("sbi", Now(p).to)>>)
      BY <1>2, <2>2, HeadActs DEF Kick
    <3>2. Now(p).to \in Cpu
      BY <2>1, <2>2, RecOf DEF ToOps
    <3>3. To("sbi", Now(p).to) \in StepRec /\ To("sbi", Now(p).to).op = "sbi" /\ To("sbi", Now(p).to).to = Now(p).to
      BY <3>2, MakeRec DEF ToOps
    <3> DEFINE x == To("sbi", Now(p).to)
    <3>4. todo'[p] = <<x>> \o Tail(todo[p])
      BY <1>0, <3>1 DEF Do, SetTodo, TodoOK
    <3>5. <<x>> \in Seq(StepRec) /\ Els(<<x>>) = {x}
      BY <3>3, ElsLiteral
    <3>6. x \in Els(todo'[p])
      <4> HIDE DEF x
      <4>1. Els(<<x>> \o Tail(todo[p])) = Els(<<x>>) \cup Els(Tail(todo[p]))
        BY <2>1, <3>5, StepsConcat
      <4> QED
        BY <3>4, <3>5, <4>1
    <3> QED
      BY <2>1, <2>2, <3>3, <3>6 DEF Owes, Copies
  <2>3. CASE Now(p).op = "sbi"
    <3>1. sip' = [sip EXCEPT ![Now(p).to] = TRUE]
      BY <1>2, <2>3, HeadActs DEF SbiSendIpi
    <3>2. Now(p).to \in Cpu
      BY <2>1, <2>3, RecOf DEF ToOps
    <3>3. sip'[Now(p).to]
      BY <1>0, <3>1, <3>2 DEF IpiOK
    <3> QED
      BY <2>1, <2>3, <3>3 DEF Owes, Copies
  <2>4. CASE Now(p).op = "materialize"
    <3>1. cur' = cur /\ virq' = virq /\ (cur[p] # NoVcpu => hvip' = [hvip EXCEPT ![p] = virq[cur[p]]])
      BY <1>2, <2>4, HeadActs DEF Materialize, schedVars
    <3>2. Covers(p)'
      BY <1>0, <3>1 DEF Covers, IrqOK
    <3> QED
      BY <2>1, <2>4, <3>2 DEF Owes, Copies
  <2>5. CASE Now(p).op \notin {"kick", "sbi", "materialize"}
    BY <2>1, <2>5 DEF Owes, Copies
  <2> QED
    BY <2>2, <2>3, <2>4, <2>5
<1> QED
  BY <1>1, <1>2

(* SSIP is cleared by handle_s_soft_irq only, which then copies the image.  *)
LEMMA SipKept ==
    ASSUME TypeInv, NEW p \in Cpu, Act(p)
    PROVE  \A q \in Cpu : sip[q] => sip'[q] \/ (q = p /\ Copies(todo'[p]))
<1>0. TodoOK /\ IpiOK
  BY TypeParts
<1>1. CASE UNCHANGED sip
  BY <1>1
<1>2. CASE Soft(p)
  <2>1. todo'[p] = SoftSteps
    BY <1>0, <1>2 DEF Soft, Trap, SetTodo, TodoOK
  <2>2. Step("materialize").op = "materialize" /\ Step("materialize") \in Els(SoftSteps)
    BY ElsLiteral DEF Step, SoftSteps
  <2>3. Copies(todo'[p])
    BY <2>1, <2>2 DEF Copies
  <2> QED
    BY <1>0, <1>2, <2>3 DEF Soft, IpiOK
<1>3. CASE SbiSendIpi(p) \/ SyncSbi(p)
  BY <1>0, <1>3 DEF SbiSendIpi, SyncSbi, IpiOK
<1>4. CASE Take(p) \/ Hfence(p) \/ Count(p) \/ Kick(p) \/ SyncRead(p) \/ SyncSend(p) \/ SyncDone(p) \/ SyncTimeout(p)
  BY <1>4 DEF Take, Hfence, Count, Kick, SyncRead, SyncSend, SyncDone, SyncTimeout
<1> QED
  BY <1>1, <1>2, <1>3, <1>4, Frame DEF ipiVars

(* riscv_virt_irq_clear keeps image and HVIP in step; riscv_virt_irq_assert *)
(* does when the vCPU is current here or nowhere.                           *)
LEMMA VirqCovers ==
    ASSUME TypeInv, cur' = cur, NEW p \in Cpu, NEW v \in Vcpu, NEW i \in Virq, NEW q \in Cpu, Covers(q),
           VirqClear(p, v, i) \/ (VirqAssert(p, v, i) /\ (cur[q] = v => q = p))
    PROVE  Covers(q)'
<1>0. /\ virq \in [Vcpu -> SUBSET Virq] /\ hvip \in [Cpu -> SUBSET Virq] /\ cur \in [Cpu -> Vcpu \cup {NoVcpu}]
  BY DEF TypeInv, RvTypeOK
<1> SUFFICES ASSUME cur[q] # NoVcpu PROVE virq'[cur[q]] \subseteq hvip'[q]
  BY DEF Covers
<1>1. cur[q] \in Vcpu /\ virq[cur[q]] \subseteq hvip[q]
  BY <1>0 DEF Covers
<1>2. CASE VirqClear(p, v, i)
  <2>1. /\ virq'[cur[q]] = IF cur[q] = v THEN virq[cur[q]] \ {i} ELSE virq[cur[q]]
        /\ hvip'[q] = IF q = p /\ cur[p] = v THEN hvip[q] \ {i} ELSE hvip[q]
    BY <1>0, <1>1, <1>2 DEF VirqClear
  <2> QED
    BY <1>1, <2>1
<1>3. CASE VirqAssert(p, v, i) /\ (cur[q] = v => q = p)
  <2>1. /\ virq'[cur[q]] = IF cur[q] = v THEN virq[cur[q]] \cup {i} ELSE virq[cur[q]]
        /\ hvip'[q] = IF q = p /\ cur[p] = v THEN hvip[q] \cup {i} ELSE hvip[q]
    BY <1>0, <1>1, <1>3 DEF VirqAssert
  <2> QED
    BY <1>1, <1>3, <2>1
<1> QED
  BY <1>2, <1>3

(* HVIP falls behind the image only where a kick, or a copy, will follow.   *)
LEMMA CoversKept ==
    ASSUME TypeInv, PlaceInv, NEW p \in Cpu, Act(p), NEW q \in Cpu, Covers(q)
    PROVE  Covers(q)' \/ Owes(todo'[p], q) \/ (q = p /\ Copies(todo'[p]))
<1>0. TodoOK /\ SchedOK /\ IrqOK /\ cur \in [Cpu -> Vcpu \cup {NoVcpu}] /\ todo[p] \in Seq(StepRec)
  BY TypeParts DEF SchedOK, TodoOK
<1>1. CASE UNCHANGED irqVars /\ cur' = cur
  BY <1>1 DEF irqVars, Covers
<1>2. CASE Publish(p)
  <2>1. At(p, "publish") /\ cur' = [cur EXCEPT ![p] = Now(p).vcpu] /\ UNCHANGED irqVars
    BY <1>2 DEF Publish
  <2>2. CASE q = p
    <3>1. PICK n \in Vcpu : Publishing(todo[p], n)
      BY <1>0, <2>1, InsideHead DEF SwitchOps
    <3>2. todo'[p] = Tail(todo[p])
      BY <1>2, PublishPlace
    <3> QED
      BY <2>2, <3>1, <3>2 DEF Publishing, Copies
  <2>3. CASE q # p
    BY <1>0, <2>1, <2>3 DEF irqVars, Covers
  <2> QED
    BY <2>2, <2>3
<1>3. CASE Switch(p)
  <2>1. At(p, "switch") /\ cur' = cur /\ virq' = virq /\ hvip' = [hvip EXCEPT ![p] = {}]
    BY <1>3 DEF Switch, schedVars
  <2>2. CASE q = p
    <3>1. PICK n \in Vcpu : Switching(todo[p], n)
      BY <1>0, <2>1, InsideHead DEF SwitchOps
    <3>2. todo'[p] = Tail(todo[p]) /\ TodoOK'
      BY <1>3, SwitchPlace
    <3>3. todo'[p] \in Seq(StepRec) /\ Publishing(todo'[p], n)
      BY <3>1, <3>2 DEF TodoOK, Switching
    <3>4. Els(todo'[p]) = {Head(todo'[p])} \cup Els(Tail(todo'[p]))
      BY <3>3, ElsTail DEF Publishing
    <3> QED
      BY <2>2, <3>3, <3>4 DEF Publishing, Copies
  <2>3. CASE q # p
    BY <1>0, <2>1, <2>3 DEF IrqOK, Covers
  <2> QED
    BY <2>2, <2>3
<1>4. CASE Materialize(p)
  <2>1. cur' = cur /\ virq' = virq /\ hvip' = IF cur[p] = NoVcpu THEN hvip ELSE [hvip EXCEPT ![p] = virq[cur[p]]]
    BY <1>4 DEF Materialize, schedVars
  <2> QED
    BY <1>0, <2>1 DEF IrqOK, Covers
<1>5. CASE TimerRefresh(p)
  <2>1. cur' = cur
    BY <1>5 DEF TimerRefresh, schedVars
  <2>2. CASE UNCHANGED irqVars
    BY <1>1, <2>1, <2>2
  <2>3. CASE cur[p] # NoVcpu /\ VirqAssert(p, cur[p], "timer")
    <3>1. cur[p] \in Vcpu /\ (cur[q] = cur[p] => q = p)
      BY <1>0, <2>3, OneCurrent
    <3> QED
      BY <2>1, <2>3, <3>1, VirqCovers DEF Virq
  <2> QED
    BY <1>5, <2>2, <2>3 DEF TimerRefresh
<1>6. CASE SetTimer(p) \/ ClearIpi(p)
  <2>1. cur' = cur /\ cur[p] # NoVcpu /\ \E i \in Virq : VirqClear(p, cur[p], i)
    BY <1>6 DEF SetTimer, ClearIpi, Guest, Virq, schedVars
  <2> QED
    BY <1>0, <2>1, VirqCovers
<1>7. CASE Retract(p)
  <2>1. cur' = cur /\ VirqClear(p, Now(p).vcpu, "ext") /\ todo[p] # <<>> /\ Now(p).op \in VcpuOps
    BY <1>7 DEF Retract, schedVars, At, Now, VcpuOps, FindWhys
  <2>2. Now(p).vcpu \in Vcpu
    BY <1>0, <2>1, NowType, RecOf
  <2> QED
    BY <2>1, <2>2, VirqCovers DEF Virq
<1>8. CASE Inject(p)
  <2> DEFINE v == Now(p).vcpu
  <2>1. /\ cur' = cur /\ todo[p] # <<>> /\ Now(p).op \in VcpuOps /\ \E i \in Virq : VirqAssert(p, v, i)
        /\ Do(p, IF v = cur[p] THEN <<>> ELSE <<To("kick", Affinity[v])>>)
    BY <1>8 DEF Inject, schedVars, At, Now, VcpuOps, FindWhys, Virq
  <2>2. v \in Vcpu /\ Tail(todo[p]) \in Seq(StepRec)
    BY <1>0, <2>1, NowType, RecOf
  <2>3. CASE cur[q] = v => q = p
    BY <2>1, <2>2, <2>3, VirqCovers
  <2>4. CASE cur[q] = v /\ q # p
    <3>1. cur[p] # v /\ Affinity[v] = q
      <4>1. v # NoVcpu
        BY <2>2, RvConstants
      <4> QED
        BY <2>4, <4>1, OneCurrent DEF PlaceInv, AtHome
    <3> DEFINE x == To("kick", q)
    <3>2. x \in StepRec /\ x.op = "kick" /\ x.to = q
      BY MakeRec DEF ToOps
    <3>3. todo'[p] = <<x>> \o Tail(todo[p])
      BY <1>0, <2>1, <3>1 DEF Do, SetTodo, TodoOK
    <3> HIDE DEF x
    <3>4. <<x>> \in Seq(StepRec) /\ Els(<<x>>) = {x}
      BY <3>2, ElsLiteral
    <3>5. Els(<<x>> \o Tail(todo[p])) = Els(<<x>>) \cup Els(Tail(todo[p]))
      BY <2>2, <3>4, StepsConcat
    <3>6. x \in Els(todo'[p])
      BY <3>3, <3>4, <3>5
    <3> QED
      BY <3>2, <3>6 DEF Owes
  <2> QED
    BY <2>3, <2>4
<1>9. Publish(p) \/ cur' = cur
  BY Frame DEF schedVars, Yield, Requeue
<1> QED
  BY <1>1, <1>2, <1>3, <1>4, <1>5, <1>6, <1>7, <1>8, <1>9, Frame

(* Every step.                                                              *)
LEMMA CoverStep ==
    ASSUME TypeInv, PlaceInv, CoverInv, [RvNext]_vars
    PROVE  CoverInv'
<1>1. ASSUME UNCHANGED <<todo, cur, virq, hvip, sip>> PROVE CoverInv'
  BY <1>1 DEF CoverInv, Covers
<1>2. ASSUME NEW p \in Cpu, Act(p) PROVE CoverInv'
  <2>1. CASE Compute(p)
    BY <1>1, <2>1 DEF Compute, Guest, schedVars, irqVars, ipiVars
  <2>2. CASE ~Compute(p)
    <3>1. \A q \in Cpu \ {p} : todo'[q] = todo[q]
      BY <1>2, <2>2, TailKept
    <3>2. /\ \A q \in Cpu : Owes(todo[p], q) => sip'[q] \/ Owes(todo'[p], q)
          /\ Copies(todo[p]) => Copies(todo'[p]) \/ Covers(p)'
      BY <1>2, <2>2, OwesKept
    <3>3. \A q \in Cpu : sip[q] => sip'[q] \/ (q = p /\ Copies(todo'[p]))
      BY <1>2, SipKept
    <3>4. \A q \in Cpu : Covers(q) => Covers(q)' \/ Owes(todo'[p], q) \/ (q = p /\ Copies(todo'[p]))
      BY <1>2, CoversKept
    <3> QED
      BY <3>1, <3>2, <3>3, <3>4, CoverKept
  <2> QED
    BY <2>1, <2>2
<1>3. ASSUME NEW v \in Vcpu, Expire(v) PROVE CoverInv'
  BY <1>1, <1>3 DEF Expire, schedVars, ipiVars
<1>4. CASE UNCHANGED vars
  BY <1>1, <1>4 DEF vars, schedVars, irqVars, ipiVars
<1> QED
  BY <1>2, <1>3, <1>4 DEF RvNext, Act

(* A virtual interrupt raised for a vCPU reaches it: whoever raises it, and *)
(* whatever its pCPU is doing, HVIP has it or a software interrupt comes.   *)
THEOREM ImageReachesHvip == RvSpec => []HvipCoversImage
<1>1. RvInit => CoverInv
  BY DEF RvInit, CoverInv, Covers
<1>2. TypeInv /\ PlaceInv /\ CoverInv /\ [RvNext]_vars => CoverInv'
  BY CoverStep
<1>3. TypeInv /\ CoverInv => HvipCoversImage
  <2> SUFFICES ASSUME TypeInv, CoverInv, NEW p \in Cpu, NEW v \in Vcpu, InGuest(p, v)
               PROVE  virq[v] \subseteq hvip[p] \/ KickComing(p)
    BY DEF HvipCoversImage
  <2>1. cur[p] = v /\ v # NoVcpu /\ ~Copies(todo[p])
    BY ElsLiteral, RvConstants DEF InGuest, Copies
  <2>2. ASSUME NEW q \in Cpu, Owes(todo[q], p) PROVE KickComing(p)
    BY <2>2 DEF Owes, Els, KickComing
  <2> QED
    BY <2>1, <2>2 DEF CoverInv, Covers, KickComing
<1> QED
  BY <1>1, <1>2, <1>3, RvInductive, PTL DEF RvSpec

-----------------------------------------------------------------------------
(* The levels of the emulated devices                                       *)

ExtOps   == {"ext_on", "ext_off"}
InputOps == {"tx_clear", "update_irq"}
LineOps  == {"raise", "lower"}
HeavyOps == InputOps \cup LineOps \cup {"levels"}
ChainOps == FindOps \cup ExtOps \cup {"soft", "select", "kick", "sbi"}

(* The steps that Updates looks for, and those that carry a level.          *)
Loud(x) == x.op \in LevelOps \/ (x.op \in FindOps /\ x.why \in LevelOps)
Sets(x) == x.op \in ExtOps \/ (x.op \in FindOps /\ x.why \in ExtOps)
Level(x)  == IF x.op \in FindOps THEN x.why ELSE x.op
Target(x) == IF x.op \in FindOps THEN x.hart ELSE x.vcpu
Quiet(s)  == \A x \in Els(s) : ~Loud(x)

(* The order of the steps of a trap.  Before one that updates a level come  *)
(* only searches for vCPUs and what they lead to, the read of IIR ends in   *)
(* ns16550a_update_irq, and set_current is followed by the refresh of the   *)
(* timer and of the vPLIC.                                                  *)
Well(s) ==
    \A i \in 1..Len(s) :
        /\ Loud(s[i]) => \A j \in 1..(i - 1) : s[j].op \in ChainOps \cup {"tx_clear"}
        /\ s[i].op = "tx_clear" => i + 1 <= Len(s) /\ s[i + 1].op = "update_irq"
        /\ s[i].op = "publish" => i + 2 <= Len(s) /\ s[i + 1].op = "timer" /\ s[i + 2].op = "refresh"

(* Is riscv_vplic_refresh of the current vCPU the next thing but the timer? *)
Renews(s) ==
    \/ s # <<>> /\ Head(s).op = "refresh"
    \/ s # <<>> /\ Head(s).op = "timer" /\ Tail(s) # <<>> /\ Head(Tail(s)).op = "refresh"

(* Updates, by the steps.                                                   *)
LEMMA UpdatesIs == \A s : Updates(s) <=> ~Quiet(s)
BY DEF Updates, Quiet, Loud, Els, FindOps

(* What is left of an ordered trap is ordered.                              *)
LEMMA WellTail ==
    ASSUME NEW s \in Seq(StepRec), s # <<>>, Well(s)
    PROVE  Well(Tail(s))
<1>1. /\ Len(s) \in Nat \ {0} /\ Len(Tail(s)) = Len(s) - 1
      /\ \A i \in 1..(Len(s) - 1) : Tail(s)[i] = s[i + 1]
  BY LenProperties, EmptySeq, HeadTailProperties
<1> DEFINE r == Tail(s)
<1> SUFFICES ASSUME NEW i \in 1..Len(r)
    PROVE  /\ Loud(r[i]) => \A j \in 1..(i - 1) : r[j].op \in ChainOps \cup {"tx_clear"}
           /\ r[i].op = "tx_clear" => i + 1 <= Len(r) /\ r[i + 1].op = "update_irq"
           /\ r[i].op = "publish" => i + 2 <= Len(r) /\ r[i + 1].op = "timer" /\ r[i + 2].op = "refresh"
  BY DEF Well
<1> HIDE DEF r
<1>2. Len(r) = Len(s) - 1 /\ \A k \in 1..(Len(s) - 1) : r[k] = s[k + 1]
  BY <1>1 DEF r
<1>3. i + 1 \in 1..Len(s) /\ r[i] = s[i + 1]
  BY <1>1, <1>2
<1>4. ASSUME Loud(r[i]), NEW j \in 1..(i - 1) PROVE r[j].op \in ChainOps \cup {"tx_clear"}
  <2>1. j + 1 \in 1..((i + 1) - 1) /\ r[j] = s[j + 1]
    BY <1>1, <1>2
  <2> QED
    BY <1>3, <1>4, <2>1 DEF Well
<1>5. ASSUME r[i].op = "tx_clear" PROVE i + 1 <= Len(r) /\ r[i + 1].op = "update_irq"
  <2>1. (i + 1) + 1 <= Len(s) /\ s[(i + 1) + 1].op = "update_irq"
    BY <1>3, <1>5 DEF Well
  <2> QED
    BY <1>1, <1>2, <2>1
<1>6. ASSUME r[i].op = "publish" PROVE i + 2 <= Len(r) /\ r[i + 1].op = "timer" /\ r[i + 2].op = "refresh"
  <2>1. (i + 1) + 2 <= Len(s) /\ s[(i + 1) + 1].op = "timer" /\ s[(i + 1) + 2].op = "refresh"
    BY <1>3, <1>6 DEF Well
  <2>2. i + 1 \in 1..(Len(s) - 1) /\ i + 2 \in 1..(Len(s) - 1) /\ (i + 1) + 2 = (i + 2) + 1
    BY <1>1, <1>2, <2>1
  <2> QED
    BY <1>1, <1>2, <2>1, <2>2
<1> QED
  BY <1>4, <1>5, <1>6

(* Ordered steps in front of an ordered trap.                               *)
LEMMA WellConcat ==
    ASSUME NEW a \in Seq(StepRec), NEW b \in Seq(StepRec), Well(a), Well(b),
           Quiet(b) \/ \A x \in Els(a) : x.op \in ChainOps
    PROVE  Well(a \o b)
<1> DEFINE c == a \o b
<1>1. /\ c \in Seq(StepRec) /\ Len(c) = Len(a) + Len(b)
      /\ \A k \in 1..(Len(a) + Len(b)) : c[k] = IF k <= Len(a) THEN a[k] ELSE b[k - Len(a)]
      /\ Len(a) \in Nat /\ Len(b) \in Nat
  BY ConcatProperties, LenProperties
<1> SUFFICES ASSUME NEW i \in 1..Len(c)
    PROVE  /\ Loud(c[i]) => \A j \in 1..(i - 1) : c[j].op \in ChainOps \cup {"tx_clear"}
           /\ c[i].op = "tx_clear" => i + 1 <= Len(c) /\ c[i + 1].op = "update_irq"
           /\ c[i].op = "publish" => i + 2 <= Len(c) /\ c[i + 1].op = "timer" /\ c[i + 2].op = "refresh"
  BY DEF Well
<1> HIDE DEF c
<1>2. CASE i <= Len(a)
  <2>1. i \in 1..Len(a) /\ c[i] = a[i]
    BY <1>1, <1>2
  <2>2. ASSUME Loud(c[i]), NEW j \in 1..(i - 1) PROVE c[j].op \in ChainOps \cup {"tx_clear"}
    <3>1. c[j] = a[j]
      BY <1>1, <2>1
    <3> QED
      BY <2>1, <2>2, <3>1 DEF Well
  <2>3. ASSUME c[i].op = "tx_clear" PROVE i + 1 <= Len(c) /\ c[i + 1].op = "update_irq"
    <3>1. i + 1 <= Len(a) /\ a[i + 1].op = "update_irq"
      BY <2>1, <2>3 DEF Well
    <3> QED
      BY <1>1, <2>1, <3>1
  <2>4. ASSUME c[i].op = "publish" PROVE i + 2 <= Len(c) /\ c[i + 1].op = "timer" /\ c[i + 2].op = "refresh"
    <3>1. i + 2 <= Len(a) /\ a[i + 1].op = "timer" /\ a[i + 2].op = "refresh"
      BY <2>1, <2>4 DEF Well
    <3> QED
      BY <1>1, <2>1, <3>1
  <2> QED
    BY <2>2, <2>3, <2>4
<1>3. CASE ~(i <= Len(a))
  <2> DEFINE k == i - Len(a)
  <2>1. k \in 1..Len(b) /\ c[i] = b[k]
    BY <1>1, <1>3
  <2>2. ASSUME Loud(c[i]), NEW j \in 1..(i - 1) PROVE c[j].op \in ChainOps \cup {"tx_clear"}
    <3>1. \A x \in Els(a) : x.op \in ChainOps
      BY <2>1, <2>2 DEF Quiet, Els
    <3>2. CASE j <= Len(a)
      <4>1. j \in 1..Len(a) /\ c[j] = a[j]
        BY <1>1, <3>2
      <4> QED
        BY <3>1, <4>1 DEF Els
    <3>3. CASE ~(j <= Len(a))
      <4>1. j - Len(a) \in 1..(k - 1) /\ c[j] = b[j - Len(a)]
        BY <1>1, <3>3
      <4> QED
        BY <2>1, <2>2, <4>1 DEF Well
    <3> QED
      BY <3>2, <3>3
  <2>3. ASSUME c[i].op = "tx_clear" PROVE i + 1 <= Len(c) /\ c[i + 1].op = "update_irq"
    <3>1. k + 1 <= Len(b) /\ b[k + 1].op = "update_irq"
      BY <2>1, <2>3 DEF Well
    <3>2. i + 1 \in 1..(Len(a) + Len(b)) /\ ~(i + 1 <= Len(a)) /\ (i + 1) - Len(a) = k + 1
      BY <1>1, <1>3, <3>1
    <3> QED
      BY <1>1, <3>1, <3>2
  <2>4. ASSUME c[i].op = "publish" PROVE i + 2 <= Len(c) /\ c[i + 1].op = "timer" /\ c[i + 2].op = "refresh"
    <3>1. k + 2 <= Len(b) /\ b[k + 1].op = "timer" /\ b[k + 2].op = "refresh"
      BY <2>1, <2>4 DEF Well
    <3>2. /\ i + 1 \in 1..(Len(a) + Len(b)) /\ ~(i + 1 <= Len(a)) /\ (i + 1) - Len(a) = k + 1
          /\ i + 2 \in 1..(Len(a) + Len(b)) /\ ~(i + 2 <= Len(a)) /\ (i + 2) - Len(a) = k + 2
      BY <1>1, <1>3, <3>1
    <3> QED
      BY <1>1, <3>1, <3>2
  <2> QED
    BY <2>2, <2>3, <2>4
<1> QED
  BY <1>2, <1>3 DEF c

(* What its order says of the first step.                                   *)
LEMMA WellHead ==
    ASSUME NEW s \in Seq(StepRec), s # <<>>, Well(s)
    PROVE  /\ Head(s).op \notin ChainOps \cup {"tx_clear"} => Quiet(Tail(s))
           /\ Head(s).op = "tx_clear" => Tail(s) # <<>> /\ Head(Tail(s)).op = "update_irq"
           /\ Head(s).op = "publish" => Renews(Tail(s))
<1>1. /\ Len(s) \in Nat \ {0} /\ Len(Tail(s)) = Len(s) - 1 /\ Tail(s) \in Seq(StepRec)
      /\ \A i \in 1..(Len(s) - 1) : Tail(s)[i] = s[i + 1]
  BY LenProperties, EmptySeq, HeadTailProperties
<1>2. Head(s) = s[1] /\ 1 \in 1..Len(s)
  BY <1>1
<1> DEFINE r == Tail(s)
<1>3. Len(r) = Len(s) - 1 /\ r \in Seq(StepRec) /\ \A i \in 1..(Len(s) - 1) : r[i] = s[i + 1]
  BY <1>1
<1> HIDE DEF r
<1>4. ASSUME Head(s).op \notin ChainOps \cup {"tx_clear"}, NEW x \in Els(r), Loud(x) PROVE FALSE
  <2>1. PICK k \in 1..Len(r) : x = r[k]
    BY DEF Els
  <2>2. k + 1 \in 1..Len(s) /\ x = s[k + 1] /\ 1 \in 1..((k + 1) - 1)
    BY <1>1, <1>3, <2>1
  <2> QED
    BY <1>2, <1>4, <2>2 DEF Well
<1>5. ASSUME Head(s).op = "tx_clear" PROVE r # <<>> /\ Head(r).op = "update_irq"
  <2>1. 1 + 1 <= Len(s) /\ s[1 + 1].op = "update_irq"
    BY <1>2, <1>5 DEF Well
  <2>2. Len(r) # 0 /\ r[1].op = "update_irq"
    BY <1>1, <1>3, <2>1
  <2>3. r # <<>> /\ Head(r) = r[1]
    BY <2>2
  <2> QED
    BY <2>2, <2>3
<1>6. ASSUME Head(s).op = "publish" PROVE Renews(r)
  <2>1. 1 + 2 <= Len(s) /\ s[1 + 1].op = "timer" /\ s[1 + 2].op = "refresh"
    BY <1>2, <1>6 DEF Well
  <2>2. Len(r) >= 2 /\ r[1].op = "timer" /\ r[2].op = "refresh"
    BY <1>1, <1>3, <2>1
  <2>3. r # <<>> /\ Head(r) = r[1]
    BY <2>2
  <2> DEFINE t == Tail(r)
  <2>4. t \in Seq(StepRec) /\ Len(t) = Len(r) - 1 /\ \A i \in 1..(Len(r) - 1) : t[i] = r[i + 1]
    BY <1>3, <2>3, HeadTailProperties
  <2> HIDE DEF t
  <2>5. 1 \in 1..(Len(r) - 1) /\ 1 + 1 = 2
    BY <1>1, <1>3, <2>2
  <2>6. t[1] = r[2] /\ t # <<>>
    BY <2>4, <2>5
  <2>7. Head(t) = t[1]
    OBVIOUS
  <2> QED
    BY <2>2, <2>3, <2>6, <2>7 DEF Renews, t
<1> QED
  BY <1>4, <1>5, <1>6 DEF Quiet, r

(* Steps that update no level and publish nothing are ordered.              *)
LEMMA WellQuiet ==
    ASSUME NEW a \in Seq(StepRec), Quiet(a), \A x \in Els(a) : x.op # "publish"
    PROVE  Well(a)
<1> SUFFICES ASSUME NEW i \in 1..Len(a)
             PROVE  ~Loud(a[i]) /\ a[i].op # "tx_clear" /\ a[i].op # "publish"
  BY DEF Well
<1>1. a[i] \in Els(a)
  BY DEF Els
<1> QED
  BY <1>1 DEF Quiet, Loud, LevelOps

(* So are steps of searches.                                                *)
LEMMA WellChain ==
    ASSUME NEW a \in Seq(StepRec), \A x \in Els(a) : x.op \in ChainOps
    PROVE  Well(a)
<1> SUFFICES ASSUME NEW i \in 1..Len(a)
             PROVE  /\ \A j \in 1..(i - 1) : a[j].op \in ChainOps
                    /\ a[i].op # "tx_clear" /\ a[i].op # "publish"
  BY DEF Well
<1>1. \A j \in 1..Len(a) : a[j].op \in ChainOps
  BY DEF Els
<1>2. \A j \in 1..(i - 1) : j \in 1..Len(a)
  BY LenProperties
<1> QED
  BY <1>1, <1>2 DEF ChainOps, FindOps, ExtOps

(* So is a single one, but for those that need a successor.                 *)
LEMMA WellOne ==
    ASSUME NEW x, x.op \notin {"tx_clear", "publish"}
    PROVE  Well(<<x>>)
<1>1. Len(<<x>>) = 1 /\ <<x>>[1] = x
  OBVIOUS
<1> QED
  BY <1>1 DEF Well

(* The steps an action puts in front of the rest of its trap.               *)
Pushed(p, a) ==
    /\ a \in Seq(StepRec)
    /\ todo'[p] = IF todo[p] = <<>> THEN a ELSE a \o Tail(todo[p])

(* A step of pCPU p that neither is nor calls for an update of a level.     *)
Mild(x) == ~Loud(x) /\ x.op # "publish"
Silent(p) ==
    \E a \in Seq(StepRec) :
        /\ Pushed(p, a) /\ Quiet(a) /\ Well(a)
        /\ todo[p] # <<>> =>
              ~Loud(Now(p)) /\ (Now(p).op \in ChainOps => \A x \in Els(a) : x.op \in ChainOps)

(* Do and Trap push.                                                        *)
LEMMA DoPushes ==
    ASSUME TodoOK, NEW p \in Cpu, NEW a \in Seq(StepRec),
           (todo[p] # <<>> /\ Do(p, a)) \/ Trap(p, a)
    PROVE  Pushed(p, a)
BY DEF Pushed, TodoOK, Do, Trap, SetTodo

(* Most steps are not loud, by their op alone.                              *)
LEMMA MildOps ==
    /\ \A op : op \notin LevelOps \cup FindOps \cup {"publish"} => Mild(Step(op))
    /\ \A op, q : op \notin LevelOps \cup FindOps \cup {"publish"} => Mild(To(op, q))
    /\ \A why, h : why \notin LevelOps => Mild(Find(why, h))
BY DEF Mild, Loud, Step, To, Find, FindOps, LevelOps

(* With mild steps only, Do is silent.                                      *)
LEMMA SilentDo ==
    ASSUME TodoOK, NEW p \in Cpu, NEW op, op \notin LevelOps \cup FindOps, At(p, op),
           NEW a \in Seq(StepRec), Do(p, a),
           \A x \in Els(a) : Mild(x) /\ (op \in ChainOps => x.op \in ChainOps)
    PROVE  Silent(p)
<1>1. todo[p] # <<>> /\ Now(p).op = op
  BY DEF At, Now
<1>2. Pushed(p, a) /\ Quiet(a) /\ Well(a)
  BY <1>1, DoPushes, WellQuiet DEF Mild, Quiet
<1> QED
  BY <1>1, <1>2 DEF Silent, Loud

(* So is Trap.                                                              *)
LEMMA SilentTrap ==
    ASSUME TodoOK, NEW p \in Cpu, NEW a \in Seq(StepRec), Trap(p, a), \A x \in Els(a) : Mild(x)
    PROVE  Silent(p)
<1>1. todo[p] = <<>>
  BY DEF Trap
<1>2. Pushed(p, a) /\ Quiet(a) /\ Well(a)
  BY DoPushes, WellQuiet DEF Mild, Quiet
<1> QED
  BY <1>1, <1>2 DEF Silent

(* The loops over harts and pCPUs: a step for each, and no other.           *)
LEMMA EachEls ==
    ASSUME NEW S, S \subseteq Vcpu \/ S \subseteq Cpu \/ S = Ctx,
           NEW f, f = [i \in 1..Cardinality(S) |-> f[i]],
           \A i \in 1..Cardinality(S) : f[i] \in StepRec
    PROVE  /\ f \in Seq(StepRec)
           /\ \A x \in Els(f) : \E i \in 1..Cardinality(S) : x = f[i] /\ Nth(S, i) \in S
<1>0. S \in SUBSET Int /\ IsFiniteSet(S)
  BY RvConstants, FS_Subset
<1>1. Cardinality(S) \in Nat
  BY <1>0, FS_CardinalityType
<1>2. f \in [1..Cardinality(S) -> StepRec]
  OBVIOUS
<1>3. f \in Seq(StepRec) /\ Len(f) = Cardinality(S)
  BY <1>1, <1>2
<1>4. \A i \in 1..Cardinality(S) : Nth(S, i) \in S
  BY <1>0, NthIn
<1> QED
  BY <1>3, <1>4 DEF Els

(* ForEach's places.                                                        *)
LEMMA NthPlace ==
    ASSUME NEW S, S \subseteq Vcpu \/ S \subseteq Cpu \/ S = Ctx
    PROVE  \A i \in 1..Cardinality(S) : Nth(S, i) \in S
<1>0. S \in SUBSET Int /\ IsFiniteSet(S)
  BY RvConstants, FS_Subset
<1> QED
  BY <1>0, NthIn

SilentAction(p) ==
    \/ Tick(p) \/ Soft(p) \/ Ext(p) \/ Take(p) \/ Hfence(p) \/ Count(p)
    \/ Yield(p) \/ Requeue(p) \/ Switch(p) \/ Publish(p)
    \/ Materialize(p) \/ TimerRefresh(p) \/ Kick(p) \/ SbiSendIpi(p) \/ Select(p) \/ Fences(p) \/ SyncAction(p)
    \/ Redirect(p) \/ NoEffect(p) \/ SetTimer(p) \/ SendIpi(p) \/ ClearIpi(p) \/ RemoteFence(p)

(* sched_yield's switch: set_current is followed by the refreshes.          *)
LEMMA YieldSilent ==
    ASSUME TypeInv, NEW p \in Cpu, NEW n \in Vcpu, At(p, "yield"), Do(p, SwitchTo(p, n))
    PROVE  Silent(p)
<1> DEFINE body == <<For("switch", n), For("publish", n), Step("timer"), Step("refresh"), Step("materialize")>>
           pre == IF cur[p] = NoVcpu THEN <<>> ELSE <<Step("requeue")>>
<1>0. todo[p] # <<>> /\ Now(p).op = "yield" /\ TodoOK
  BY TypeParts DEF At, Now
<1>1. /\ For("switch", n) \in StepRec /\ For("publish", n) \in StepRec /\ Step("timer") \in StepRec
      /\ Step("refresh") \in StepRec /\ Step("materialize") \in StepRec /\ Step("requeue") \in StepRec
      /\ For("switch", n).op = "switch" /\ For("publish", n).op = "publish" /\ Step("requeue").op = "requeue"
      /\ Step("materialize").op = "materialize" /\ Step("refresh").op = "refresh" /\ Step("timer").op = "timer"
  BY MakeRec DEF BareOps, VcpuOps
<1>2. /\ body \in Seq(StepRec) /\ Len(body) = 5 /\ body[1].op = "switch" /\ body[2].op = "publish"
      /\ body[3].op = "timer" /\ body[4].op = "refresh" /\ body[5].op = "materialize"
  BY <1>1
<1>3. pre \in Seq(StepRec) /\ \A x \in Els(pre) : x.op = "requeue"
  BY <1>1, ElsLiteral
<1>4. Do(p, pre \o body)
  BY DEF SwitchTo
<1> HIDE DEF body, pre
<1>5. \A i \in 1..Len(body) : i = 1 \/ i = 2 \/ i = 3 \/ i = 4 \/ i = 5
  BY <1>2
<1>6. \A i \in 1..Len(body) : ~Loud(body[i]) /\ body[i].op # "tx_clear" /\ (body[i].op = "publish" => i = 2)
  BY <1>2, <1>5 DEF Loud, LevelOps, FindOps
<1>7. Quiet(body) /\ Well(body)
  BY <1>2, <1>6 DEF Quiet, Els, Well
<1>8. Quiet(pre) /\ Well(pre)
  <2>1. Quiet(pre)
    BY <1>3 DEF Quiet, Loud, LevelOps, FindOps
  <2> QED
    BY <1>3, <2>1, WellQuiet
<1>9. /\ pre \o body \in Seq(StepRec) /\ Quiet(pre \o body) /\ Well(pre \o body)
  <2>1. pre \o body \in Seq(StepRec) /\ Els(pre \o body) = Els(pre) \cup Els(body)
    BY <1>2, <1>3, StepsConcat
  <2> QED
    BY <1>2, <1>3, <1>7, <1>8, <2>1, WellConcat DEF Quiet
<1>10. Pushed(p, pre \o body)
  BY <1>0, <1>4, <1>9, DoPushes
<1> QED
  BY <1>0, <1>9, <1>10 DEF Silent, Loud, LevelOps, FindOps, ChainOps, ExtOps

(* Every handler's step, those of the levels apart, is silent.              *)
LEMMA AllSilent ==
    ASSUME TypeInv, PlaceInv, NEW p \in Cpu, SilentAction(p)
    PROVE  Silent(p)
<1> USE DEF LevelOps, FindOps, ChainOps, ExtOps
<1>0. TodoOK /\ <<>> \in Seq(StepRec) /\ \A x \in Els(<<>>) : FALSE
  BY TypeParts, ElsLiteral
<1>1. ASSUME At(p, "take") \/ At(p, "hfence") \/ At(p, "count") \/ At(p, "yield") \/ At(p, "requeue") \/ At(p, "switch")
             \/ At(p, "publish") \/ At(p, "materialize") \/ At(p, "timer") \/ At(p, "sbi") \/ At(p, "select")
             \/ At(p, "sync_wait"),
             Do(p, <<>>)
      PROVE  Silent(p)
  <2>1. \E op : op \notin LevelOps \cup FindOps /\ At(p, op)
    BY <1>1
  <2> QED
    BY <1>0, <1>1, <2>1, SilentDo
<1>2. CASE Tick(p)
  <2> DEFINE a == IF p = 0 THEN <<Step("service")>> ELSE <<>>
             b == <<Step("timer"), Step("yield")>>
  <2>1. /\ Step("service") \in StepRec /\ Step("timer") \in StepRec /\ Step("yield") \in StepRec
        /\ Mild(Step("service")) /\ Mild(Step("timer")) /\ Mild(Step("yield"))
    BY MakeRec, MildOps DEF BareOps
  <2>2. a \in Seq(StepRec) /\ b \in Seq(StepRec) /\ (\A x \in Els(a) : Mild(x)) /\ (\A x \in Els(b) : Mild(x))
    BY <2>1, ElsLiteral
  <2>3. Trap(p, a \o b)
    BY <1>2 DEF Tick
  <2> HIDE DEF a, b
  <2>4. a \o b \in Seq(StepRec) /\ \A x \in Els(a \o b) : Mild(x)
    BY <2>2, StepsConcat
  <2> QED
    BY <1>0, <2>3, <2>4, SilentTrap
<1>3. CASE Soft(p) \/ Ext(p)
  <2>1. Trap(p, SoftSteps) \/ Trap(p, <<Step("service")>>)
    BY <1>3 DEF Soft, Ext
  <2>2. /\ \A op \in {"take", "refresh", "materialize", "yield", "service"} : Step(op) \in StepRec /\ Mild(Step(op))
    BY MakeRec, MildOps DEF BareOps
  <2>3. SoftSteps \in Seq(StepRec) /\ <<Step("service")>> \in Seq(StepRec)
    BY <2>2 DEF SoftSteps
  <2>4. (\A x \in Els(SoftSteps) : Mild(x)) /\ (\A x \in Els(<<Step("service")>>) : Mild(x))
    BY <2>2, ElsLiteral DEF SoftSteps
  <2> QED
    BY <1>0, <2>1, <2>3, <2>4, SilentTrap
<1>4. CASE Take(p)
  <2>1. At(p, "take") /\ (Do(p, <<>>) \/ Do(p, <<Step("hfence"), Step("count")>>))
    BY <1>4 DEF Take
  <2>2. /\ Step("hfence") \in StepRec /\ Step("count") \in StepRec /\ Mild(Step("hfence")) /\ Mild(Step("count"))
    BY MakeRec, MildOps DEF BareOps
  <2> DEFINE a == <<Step("hfence"), Step("count")>>
  <2>3. a \in Seq(StepRec) /\ \A x \in Els(a) : Mild(x)
    BY <2>2, ElsLiteral
  <2>4. At(p, "take") /\ (Do(p, <<>>) \/ Do(p, a))
    BY <2>1
  <2> HIDE DEF a
  <2>5. "take" \notin LevelOps \cup FindOps /\ \A x \in Els(a) : Mild(x) /\ ("take" \in ChainOps => x.op \in ChainOps)
    BY <2>3
  <2>6. CASE Do(p, a)
    BY <1>0, <2>3, <2>4, <2>5, <2>6, SilentDo
  <2> QED
    BY <1>1, <2>4, <2>6
<1>5. CASE Hfence(p) \/ Count(p) \/ Switch(p) \/ Publish(p) \/ Materialize(p) \/ TimerRefresh(p) \/ SbiSendIpi(p)
           \/ Select(p) \/ SyncDone(p) \/ SyncTimeout(p)
  BY <1>1, <1>5 DEF Hfence, Count, Switch, Publish, Materialize, TimerRefresh, SbiSendIpi, Select, SyncDone, SyncTimeout,
                    Acknowledged
<1>6. CASE Requeue(p)
  <2>1. cur[p] \in Vcpu /\ Affinity[cur[p]] = p
    <3>1. PICK n \in Vcpu : cur[p] # NoVcpu
      BY <1>0, <1>6, InsideHead DEF SwitchOps, Requeue
    <3> QED
      BY <3>1 DEF PlaceInv, AtHome, TypeInv, RvTypeOK
  <2> QED
    BY <1>1, <1>6, <2>1 DEF Requeue
<1>7. CASE Yield(p)
  <2>1. ASSUME NEW i \in 1..Len(ready), Do(p, SwitchTo(p, ready[i])) PROVE Silent(p)
    <3>1. ready[i] \in Vcpu
      BY ElementOfSeq DEF TypeInv, RvTypeOK
    <3> QED
      BY <1>7, <2>1, <3>1, YieldSilent DEF Yield
  <2> QED
    BY <1>1, <1>7, <2>1 DEF Yield
<1>8. CASE Kick(p)
  <2>1. At(p, "kick") /\ Do(p, <<To("sbi", Now(p).to)>>)
    BY <1>8 DEF Kick
  <2>2. Now(p).to \in Cpu
    BY <1>0, <2>1, NowType, RecOf DEF At, Now, ToOps
  <2> DEFINE x == To("sbi", Now(p).to)
  <2>3. x \in StepRec /\ Mild(x) /\ x.op = "sbi"
    BY <2>2, MakeRec, MildOps DEF ToOps
  <2> HIDE DEF x
  <2>4. <<x>> \in Seq(StepRec) /\ Els(<<x>>) = {x}
    BY <2>3, ElsLiteral
  <2>5. Do(p, <<x>>)
    BY <2>1 DEF x
  <2>6. "kick" \notin LevelOps \cup FindOps /\ \A y \in Els(<<x>>) : Mild(y) /\ y.op \in ChainOps
    BY <2>3, <2>4
  <2> QED
    BY <1>0, <2>1, <2>4, <2>5, <2>6, SilentDo
<1>9. CASE Redirect(p) \/ NoEffect(p) \/ ClearIpi(p)
  <2>1. Trap(p, <<>>)
    BY <1>9 DEF Redirect, NoEffect, ClearIpi
  <2> QED
    BY <1>0, <2>1, SilentTrap
<1>10. CASE SetTimer(p)
  <2>1. Trap(p, <<Step("timer")>>)
    BY <1>10 DEF SetTimer
  <2>2. Step("timer") \in StepRec /\ Mild(Step("timer"))
    BY MakeRec, MildOps DEF BareOps
  <2>3. <<Step("timer")>> \in Seq(StepRec) /\ Els(<<Step("timer")>>) = {Step("timer")}
    BY <2>2, ElsLiteral
  <2> QED
    BY <1>0, <2>1, <2>2, <2>3, SilentTrap
<1>11. CASE SyncRead(p)
  <2> DEFINE q == Now(p).to
             x == [op |-> "sync_send", to |-> q, before |-> done[q], ahead |-> At(q, "count")]
  <2>1. At(p, "sync") /\ Do(p, <<x>>)
    BY <1>11 DEF SyncRead
  <2>2. q \in Cpu
    BY <1>0, <2>1, NowType, RecOf DEF At, Now, ToOps
  <2>3. done[q] \in Nat /\ At(q, "count") \in BOOLEAN
    BY <2>2 DEF TypeInv, RvTypeOK, At
  <2>4. x \in StepRec /\ x.op = "sync_send"
    BY <2>2, <2>3 DEF StepRec, SyncRec, SyncOps
  <2> HIDE DEF x
  <2>5. <<x>> \in Seq(StepRec) /\ Els(<<x>>) = {x} /\ Mild(x)
    BY <2>4, ElsLiteral DEF Mild, Loud
  <2>6. /\ "sync" \notin LevelOps \cup FindOps
        /\ \A y \in Els(<<x>>) : Mild(y) /\ ("sync" \in ChainOps => y.op \in ChainOps)
    BY <2>5
  <2> QED
    BY <1>0, <2>1, <2>5, <2>6, SilentDo
<1>12. CASE SyncSend(p) \/ SyncSbi(p)
  <2>1. PICK op \in {"sync_send", "sync_sbi"}, nop \in {"sync_sbi", "sync_wait"} :
            At(p, op) /\ Do(p, <<[Now(p) EXCEPT !.op = nop]>>)
    BY <1>12 DEF SyncSend, SyncSbi
  <2> DEFINE x == [Now(p) EXCEPT !.op = nop]
  <2>2. Now(p) \in StepRec /\ Now(p).op \in SyncOps
    BY <1>0, <2>1, NowType DEF At, Now, SyncOps
  <2>3. x \in StepRec /\ x.op = nop
    BY <2>1, <2>2, MakeSync DEF SyncOps
  <2>4. Do(p, <<x>>)
    BY <2>1
  <2> HIDE DEF x
  <2>5. <<x>> \in Seq(StepRec) /\ Els(<<x>>) = {x} /\ Mild(x)
    BY <2>3, ElsLiteral DEF Mild, Loud
  <2> QED
    BY <1>0, <2>1, <2>4, <2>5, SilentDo
<1>13. CASE SendIpi(p)
  <2>1. PICK call \in Calls : LET soft(h) == Find("soft", h) IN Trap(p, ForEach(SendIpiHarts(call), soft))
    BY <1>13 DEF SendIpi
  <2> DEFINE S == SendIpiHarts(call)
             s == [i \in 1..Cardinality(S) |-> Find("soft", Nth(S, i))]
  <2>2. Trap(p, s)
    BY <2>1 DEF ForEach
  <2>3. S \subseteq Vcpu
    BY DEF SendIpiHarts
  <2> HIDE DEF S
  <2>4. \A i \in 1..Cardinality(S) : s[i] \in StepRec /\ Mild(s[i])
    BY <2>3, NthPlace, MakeRec, MildOps DEF FindWhys
  <2>5. s = [i \in 1..Cardinality(S) |-> s[i]]
    OBVIOUS
  <2> HIDE DEF s
  <2>6. s \in Seq(StepRec) /\ \A x \in Els(s) : Mild(x)
    <3>1. \A i \in 1..Cardinality(S) : s[i] \in StepRec
      BY <2>4
    <3>2. s \in Seq(StepRec) /\ \A x \in Els(s) : \E i \in 1..Cardinality(S) : x = s[i] /\ Nth(S, i) \in S
      BY <2>3, <2>5, <3>1, EachEls
    <3> QED
      BY <2>4, <3>2
  <2> QED
    BY <1>0, <2>2, <2>6, SilentTrap
<1>14. CASE RemoteFence(p)
  <2>1. PICK call \in Calls :
          LET select(h) == Find("select", h)
          IN  Trap(p, ForEach({h \in Vcpu : GuestHartSelected(h, call)}, select) \o <<Step("fences")>>)
    BY <1>14 DEF RemoteFence
  <2> DEFINE S == {h \in Vcpu : GuestHartSelected(h, call)}
             s == [i \in 1..Cardinality(S) |-> Find("select", Nth(S, i))]
             f == <<Step("fences")>>
  <2>2. Trap(p, s \o f)
    BY <2>1 DEF ForEach
  <2>3. S \subseteq Vcpu
    OBVIOUS
  <2> HIDE DEF S
  <2>4. \A i \in 1..Cardinality(S) : s[i] \in StepRec /\ Mild(s[i])
    BY <2>3, NthPlace, MakeRec, MildOps DEF FindWhys
  <2>5. s = [i \in 1..Cardinality(S) |-> s[i]]
    OBVIOUS
  <2> HIDE DEF s
  <2>6. s \in Seq(StepRec) /\ \A x \in Els(s) : Mild(x)
    <3>1. \A i \in 1..Cardinality(S) : s[i] \in StepRec
      BY <2>4
    <3>2. s \in Seq(StepRec) /\ \A x \in Els(s) : \E i \in 1..Cardinality(S) : x = s[i] /\ Nth(S, i) \in S
      BY <2>3, <2>5, <3>1, EachEls
    <3> QED
      BY <2>4, <3>2
  <2>7. Step("fences") \in StepRec /\ Mild(Step("fences"))
    BY MakeRec, MildOps DEF BareOps
  <2>8. f \in Seq(StepRec) /\ \A x \in Els(f) : Mild(x)
    BY <2>7, ElsLiteral
  <2> HIDE DEF f
  <2>9. s \o f \in Seq(StepRec) /\ \A x \in Els(s \o f) : Mild(x)
    BY <2>6, <2>8, StepsConcat
  <2> QED
    BY <1>0, <2>2, <2>9, SilentTrap
<1>15. CASE Fences(p)
  <2> DEFINE S == sel[p]
             s == [i \in 1..Cardinality(S) |->
                      IF Nth(S, i) = p THEN Step("hfence") ELSE To("sync", Nth(S, i))]
  <2>2. At(p, "fences") /\ Do(p, s)
    BY <1>15 DEF Fences, ForEach
  <2>3. S \subseteq Cpu
    BY DEF TypeInv, RvTypeOK
  <2> HIDE DEF S
  <2>4. \A i \in 1..Cardinality(S) : s[i] \in StepRec /\ Mild(s[i])
    BY <2>3, NthPlace, MakeRec, MildOps DEF BareOps, ToOps
  <2>5. s = [i \in 1..Cardinality(S) |-> s[i]]
    OBVIOUS
  <2> HIDE DEF s
  <2>6. s \in Seq(StepRec) /\ \A x \in Els(s) : Mild(x)
    <3>1. \A i \in 1..Cardinality(S) : s[i] \in StepRec
      BY <2>4
    <3>2. s \in Seq(StepRec) /\ \A x \in Els(s) : \E i \in 1..Cardinality(S) : x = s[i] /\ Nth(S, i) \in S
      BY <2>3, <2>5, <3>1, EachEls
    <3> QED
      BY <2>4, <3>2
  <2> QED
    BY <1>0, <2>2, <2>6, SilentDo
<1> QED
  BY <1>2, <1>3, <1>4, <1>5, <1>6, <1>7, <1>8, <1>9, <1>10, <1>11, <1>12, <1>13, <1>14, <1>15
  DEF SilentAction, SyncAction

(* The steps of the trap before and after.                                  *)
LEMMA PushedEls ==
    ASSUME TodoOK, NEW p \in Cpu, NEW a, Pushed(p, a)
    PROVE  /\ todo[p] = <<>> => Els(todo[p]) = {} /\ Els(todo'[p]) = Els(a)
           /\ todo[p] # <<>> => /\ Els(todo[p]) = {Now(p)} \cup Els(Tail(todo[p]))
                                /\ Els(todo'[p]) = Els(a) \cup Els(Tail(todo[p]))
                                /\ Now(p) \in StepRec /\ Tail(todo[p]) \in Seq(StepRec)
<1>1. CASE todo[p] = <<>>
  BY <1>1, ElsLiteral DEF Pushed
<1>2. CASE todo[p] # <<>>
  <2>1. Now(p) \in StepRec /\ Tail(todo[p]) \in Seq(StepRec) /\ Els(todo[p]) = {Now(p)} \cup Els(Tail(todo[p]))
    BY <1>2, NowType
  <2>2. a \in Seq(StepRec) /\ todo'[p] = a \o Tail(todo[p])
    BY <1>2 DEF Pushed
  <2>3. Els(a \o Tail(todo[p])) = Els(a) \cup Els(Tail(todo[p]))
    BY <2>1, <2>2, StepsConcat
  <2> QED
    BY <1>2, <2>1, <2>2, <2>3
<1> QED
  BY <1>1, <1>2

(* A trap stays in order.                                                   *)
LEMMA WellPushed ==
    ASSUME TodoOK, NEW p \in Cpu, NEW a, Pushed(p, a), Well(a), Well(todo[p]),
           todo[p] # <<>> /\ Now(p).op \in ChainOps \cup {"tx_clear"} => \A x \in Els(a) : x.op \in ChainOps
    PROVE  Well(todo'[p])
<1>1. CASE todo[p] = <<>>
  BY <1>1 DEF Pushed
<1>2. CASE todo[p] # <<>>
  <2>1. todo[p] \in Seq(StepRec) /\ Tail(todo[p]) \in Seq(StepRec) /\ Now(p) = Head(todo[p])
    BY <1>2, NowType DEF TodoOK, Now
  <2>2. a \in Seq(StepRec) /\ todo'[p] = a \o Tail(todo[p])
    BY <1>2 DEF Pushed
  <2>3. Well(Tail(todo[p]))
    BY <1>2, <2>1, WellTail
  <2>4. Quiet(Tail(todo[p])) \/ \A x \in Els(a) : x.op \in ChainOps
    BY <1>2, <2>1, WellHead
  <2>5. Well(a \o Tail(todo[p]))
    BY <2>1, <2>2, <2>3, <2>4, WellConcat
  <2> QED
    BY <2>2, <2>5
<1> QED
  BY <1>1, <1>2

(* A silent step leaves the loud ones where they are.                       *)
LEMMA SilentKeeps ==
    ASSUME TodoOK, NEW p \in Cpu, Silent(p), Well(todo[p])
    PROVE  /\ Well(todo'[p])
           /\ \A x : Loud(x) => (x \in Els(todo'[p]) <=> x \in Els(todo[p]))
<1>1. PICK a \in Seq(StepRec) :
        /\ Pushed(p, a) /\ Quiet(a) /\ Well(a)
        /\ todo[p] # <<>> =>
              ~Loud(Now(p)) /\ (Now(p).op \in ChainOps => \A x \in Els(a) : x.op \in ChainOps)
  BY DEF Silent
<1>2. todo[p] # <<>> => Now(p).op # "tx_clear"
  BY <1>1 DEF Loud, LevelOps
<1>3. Well(todo'[p])
  BY <1>1, <1>2, WellPushed
<1>4. ASSUME NEW x, Loud(x) PROVE x \in Els(todo'[p]) <=> x \in Els(todo[p])
  BY <1>1, <1>4, PushedEls DEF Quiet
<1> QED
  BY <1>3, <1>4

(* What ~raced says after a step: where p updates a level, nobody else does.*)
LEMMA RaceMeans ==
    ASSUME TypeInv, NEW p \in Cpu, Act(p), ~raced'
    PROVE  /\ ~raced
           /\ \A q \in Cpu \ {p} : todo'[q] = todo[q]
           /\ \A q \in Cpu \ {p} : Quiet(todo'[p]) \/ Quiet(todo[q])
<1>0. TodoOK
  BY TypeParts
<1>1. CASE UNCHANGED <<todo, raced>> /\ todo[p] = <<>>
  BY <1>1, ElsLiteral DEF Quiet
<1>2. ASSUME NEW s, SetTodo(p, s) PROVE
           /\ ~raced
           /\ \A q \in Cpu \ {p} : todo'[q] = todo[q]
           /\ \A q \in Cpu \ {p} : Quiet(todo'[p]) \/ Quiet(todo[q])
  <2>1. todo'[p] = s /\ \A q \in Cpu \ {p} : todo'[q] = todo[q]
    BY <1>0, <1>2 DEF SetTodo, TodoOK
  <2>2. ~raced /\ ~(Updates(s) /\ \E q \in Cpu \ {p} : Updates(todo[q]))
    BY <1>2 DEF SetTodo
  <2> QED
    BY <2>1, <2>2, UpdatesIs
<1>3. CASE Compute(p)
  BY <1>1, <1>3 DEF Compute, Guest
<1>4. CASE ~Compute(p)
  <2>1. \E s : SetTodo(p, s)
    <3>1. CASE Tick(p) \/ Soft(p) \/ Ext(p)
      BY <3>1 DEF Tick, Soft, Ext, Trap
    <3>2. CASE GuestStep(p)
      BY <1>4, <3>2 DEF GuestStep, Redirect, NoEffect, SetTimer, SendIpi, ClearIpi, RemoteFence,
                        UartLoad, UartStore, PlicLoad, PlicStore, Trap
    <3>3. CASE Take(p) \/ Hfence(p) \/ Count(p) \/ Requeue(p) \/ Switch(p) \/ Publish(p) \/ Yield(p)
               \/ Materialize(p) \/ TimerRefresh(p) \/ Kick(p) \/ SbiSendIpi(p)
      BY <3>3 DEF Take, Hfence, Count, Requeue, Switch, Publish, Yield, Materialize, TimerRefresh, Kick, SbiSendIpi, Do
    <3>4. CASE FindRunning(p) \/ FindReady(p) \/ Inject(p) \/ Retract(p)
               \/ Refresh(p) \/ Levels(p) \/ UartLine(p) \/ UpdateIrq(p) \/ Service(p) \/ IirTx(p)
      BY <3>4 DEF FindRunning, FindReady, Inject, Retract, Refresh, Levels, UartLine, UpdateIrq, Service, IirTx, Do
    <3>5. CASE Select(p) \/ Fences(p) \/ SyncAction(p)
      BY <3>5 DEF Select, Fences, SyncAction, SyncRead, SyncSend, SyncSbi, SyncDone, SyncTimeout, Do
    <3> QED
      BY <3>1, <3>2, <3>3, <3>4, <3>5 DEF Act, Continue, SyncAction
  <2> QED
    BY <1>2, <2>1
<1> QED
  BY <1>3, <1>4

-----------------------------------------------------------------------------
(* The vCPUs whose level is read again when they come in                    *)
Renewing == {v \in Vcpu : \E q \in Cpu : v \in Incoming(q) \/ (cur[q] = v /\ Renews(todo[q]))}

(* The vCPUs that other pCPUs have are not moved.                           *)
LEMMA RenewElsewhere ==
    ASSUME NEW p \in Cpu, \A q \in Cpu \ {p} : todo'[q] = todo[q] /\ cur'[q] = cur[q],
           NEW v \in Vcpu, v \in Renewing,
           v \in Incoming(p) \/ (cur[p] = v /\ Renews(todo[p])) => v \in Renewing'
    PROVE  v \in Renewing'
<1>1. PICK q \in Cpu : v \in Incoming(q) \/ (cur[q] = v /\ Renews(todo[q]))
  BY DEF Renewing
<1>2. CASE q = p
  BY <1>1, <1>2
<1>3. CASE q # p
  <2>1. todo'[q] = todo[q] /\ cur'[q] = cur[q] /\ Incoming(q)' = Incoming(q)
    BY <1>3, IncomingIs
  <2> QED
    BY <1>1, <2>1 DEF Renewing
<1> QED
  BY <1>2, <1>3

(* A vCPU on its way in stays so until its level has been read, and one     *)
(* that leaves the list is on its way in.                                   *)
LEMMA RenewStep ==
    ASSUME TypeInv, PlaceInv, NEW p \in Cpu, Act(p), Well(todo[p]), NEW v \in Vcpu
    PROVE  /\ v \in Renewing => v \in Renewing' \/ (Refresh(p) /\ cur[p] = v)
           /\ v \in Listed => v \in Listed' \/ v \in Renewing'
<1>0. TodoOK /\ SchedOK /\ todo[p] \in Seq(StepRec) /\ cur \in [Cpu -> Vcpu \cup {NoVcpu}]
  BY TypeParts DEF TodoOK, SchedOK
<1> DEFINE Goal == /\ v \in Renewing => v \in Renewing' \/ (Refresh(p) /\ cur[p] = v)
                   /\ v \in Listed => v \in Listed' \/ v \in Renewing'
<1>1. CASE Compute(p)
  BY <1>1 DEF Compute, Guest, schedVars, Renewing, Incoming, Listed
<1>2. CASE (LightAction(p) \/ FenceAction(p)) /\ ~Compute(p)
  <2>1. /\ UNCHANGED <<ready, cur>>
        /\ TodoOK' /\ Outside(todo[p]) /\ Outside(todo'[p]) /\ \A q \in Cpu \ {p} : todo'[q] = todo[q]
    <3>1. CASE LightAction(p)
      BY <1>0, <3>1, AllLight, LightStill, LightCalm, PlaceShape DEF Outside
    <3>2. CASE FenceAction(p)
      <4>1. UNCHANGED <<ready, cur>>
        BY <3>2 DEF FenceAction, Take, Hfence, Count, SyncAction, SyncRead, SyncSend, SyncSbi, SyncDone, SyncTimeout, schedVars
      <4> QED
        BY <1>0, <3>2, <4>1, FenceShape, SyncShape DEF FenceAction
    <3> QED
      BY <1>2, <3>1, <3>2
  <2>2. \A q \in Cpu : Incoming(q)' = Incoming(q)
    BY <1>0, <2>1, PlaceKept
  <2>3. ASSUME cur[p] = v, Renews(todo[p]), ~Refresh(p) PROVE v \in Renewing'
    <3>1. todo[p] # <<>> /\ Now(p).op = "timer" /\ Head(Tail(todo[p])).op = "refresh" /\ Tail(todo[p]) # <<>>
      BY <1>2, <2>3, HeadActs DEF Renews, Now
    <3>2. Do(p, <<>>)
      BY <3>1, HeadActs DEF TimerRefresh
    <3>3. todo'[p] = Tail(todo[p])
      BY <1>0, <3>1, <3>2, Pop
    <3>4. Renews(todo'[p]) /\ cur'[p] = v
      BY <2>1, <2>3, <3>1, <3>3 DEF Renews
    <3> QED
      BY <3>4 DEF Renewing
  <2>4. ASSUME v \in Incoming(p) PROVE v \in Renewing'
    BY <2>2, <2>4 DEF Renewing
  <2>5. ASSUME v \in Renewing, ~(Refresh(p) /\ cur[p] = v) PROVE v \in Renewing'
    BY <2>1, <2>3, <2>4, <2>5, RenewElsewhere
  <2>6. Listed' = Listed
    BY <2>1 DEF Listed
  <2> QED
    BY <2>5, <2>6
<1>3. ASSUME NEW i \in 1..Len(ready), YieldTo(p, i) PROVE Goal
  <2> DEFINE n == ready[i]
  <2>0. At(p, "yield") /\ cur' = cur /\ todo[p] # <<>> /\ Now(p).op = "yield"
    BY <1>3 DEF YieldTo, At, Now
  <2>1. /\ TodoOK' /\ Calm(todo[p]) /\ (Requeueing(todo'[p], n) \/ Switching(todo'[p], n))
        /\ \A q \in Cpu \ {p} : todo'[q] = todo[q]
        /\ Listed' = Listed \ {n}
    BY <1>3, YieldPlace DEF YieldTo
  <2>2. n \in Vcpu
    BY ElementOfSeq DEF TypeInv, RvTypeOK
  <2>3. Incoming(p)' = {n} /\ Incoming(p) = {}
    <3>1. todo'[p] \in Seq(StepRec) /\ Inside(todo'[p], n) /\ Outside(todo[p])
      BY <2>1 DEF TodoOK, Inside, Outside
    <3>2. Coming(todo'[p]) = {n} /\ Coming(todo[p]) = {}
      BY <1>0, <2>2, <3>1, ComingIs
    <3> QED
      BY <3>2, IncomingIs
  <2>4. n \in Renewing'
    BY <2>2, <2>3 DEF Renewing
  <2>5. ~Renews(todo[p])
    BY <2>0 DEF Renews, Now
  <2>6. v \in Renewing => v \in Renewing'
    BY <2>0, <2>1, <2>3, <2>5, RenewElsewhere
  <2> QED
    BY <2>1, <2>4, <2>6
<1>4. CASE Requeue(p) \/ Switch(p)
  <2>0. \E op \in {"requeue", "switch"} : At(p, op)
    BY <1>4 DEF Requeue, Switch
  <2>1. /\ TodoOK' /\ todo'[p] = Tail(todo[p]) /\ \A q \in Cpu \ {p} : todo'[q] = todo[q]
        /\ cur' = cur /\ Listed \subseteq Listed'
    <3>1. CASE Requeue(p)
      BY <3>1, RequeuePlace DEF Requeue
    <3>2. CASE Switch(p)
      <4>1. Listed' = Listed
        BY <3>2 DEF Switch, schedVars, Listed
      <4> QED
        BY <3>2, <4>1, SwitchPlace DEF Switch, schedVars
    <3> QED
      BY <1>4, <3>1, <3>2
  <2>2. ~Renews(todo[p])
    BY <2>0 DEF At, Renews
  <2>3. Incoming(p)' = Incoming(p)
    <3>1. PICK n \in Vcpu : Requeueing(todo[p], n) \/ Switching(todo[p], n)
      BY <1>0, <2>0, InsideHead DEF SwitchOps
    <3>2. Inside(todo[p], n) /\ Inside(todo'[p], n) /\ todo'[p] \in Seq(StepRec)
      BY <2>1, <3>1 DEF Inside, Requeueing, Switching, TodoOK
    <3>3. Coming(todo[p]) = {n} /\ Coming(todo'[p]) = {n}
      BY <1>0, <3>2, ComingIs
    <3> QED
      BY <3>3, IncomingIs
  <2>4. v \in Incoming(p) => v \in Renewing'
    BY <2>3 DEF Renewing
  <2>5. v \in Renewing => v \in Renewing'
    BY <2>1, <2>2, <2>4, RenewElsewhere
  <2> QED
    BY <2>1, <2>5
<1>5. CASE Publish(p)
  <2>0. At(p, "publish") /\ cur' = [cur EXCEPT ![p] = Now(p).vcpu] /\ ready' = ready
    BY <1>5 DEF Publish
  <2>1. /\ TodoOK' /\ todo'[p] = Tail(todo[p]) /\ \A q \in Cpu \ {p} : todo'[q] = todo[q]
    BY <1>5, PublishPlace
  <2>2. PICK n \in Vcpu : Publishing(todo[p], n) /\ Now(p).vcpu = n
    BY <1>0, <2>0, InsideHead DEF SwitchOps
  <2>3. Incoming(p) = {n}
    <3>1. Inside(todo[p], n)
      BY <2>2 DEF Inside
    <3>2. Coming(todo[p]) = {n}
      BY <1>0, <3>1, ComingIs
    <3> QED
      BY <3>2, IncomingIs
  <2>4. Renews(todo'[p]) /\ ~Renews(todo[p])
    <3>1. todo[p] # <<>> /\ Head(todo[p]).op = "publish"
      BY <2>0 DEF At
    <3> QED
      BY <1>0, <2>1, <3>1, WellHead DEF Renews
  <2>5. cur'[p] = n /\ \A q \in Cpu \ {p} : cur'[q] = cur[q]
    BY <1>0, <2>0, <2>2
  <2>6. n \in Renewing'
    BY <2>4, <2>5 DEF Renewing
  <2>7. v \in Renewing => v \in Renewing'
    BY <2>1, <2>3, <2>4, <2>5, <2>6, RenewElsewhere
  <2>8. Listed' = Listed
    BY <2>0 DEF Listed
  <2> QED
    BY <2>7, <2>8
<1> QED
  BY <1>1, <1>2, <1>3, <1>4, <1>5, ActKinds

(* The steps ahead on any pCPU.                                             *)
Ahead(S) == \E p \in Cpu : \E x \in Els(todo[p]) : x.op \in S
Right(v) == "ext" \in virq[v] <=> HasDeliverable(plic, v)

UartRight == ~Ahead(InputOps) => uart.iir = Source(uart)
LineRight ==
    /\ ~Ahead(InputOps \cup LineOps) /\ Source(uart) = "none" => GuestUartIrq \notin plic.pending
    /\ Ahead({"raise"}) => Source(uart) # "none"
StepsRight ==
    \A p \in Cpu : \A x \in Els(todo[p]) :
        Sets(x) => (Level(x) = "ext_on" <=> HasDeliverable(plic, Target(x)))
ExtRight ==
    \A v \in Everyone :
        \/ Right(v) \/ v \in Renewing
        \/ v \in Ctx /\ Ahead(HeavyOps)
        \/ \E p \in Cpu : \E x \in Els(todo[p]) : Sets(x) /\ Target(x) = v
FindRight ==
    \A p \in Cpu : \A x \in Els(todo[p]) :
        x.op = "find_ready" /\ Sets(x) /\ x.hart \in Everyone => x.hart \in Listed \cup Renewing

Levelled == UartRight /\ LineRight /\ StepsRight /\ ExtRight /\ FindRight

(* LevelSettled made inductive: inside traps, too, a level that is not what *)
(* it should be has the step that will set it ahead.                        *)
LevelInv ==
    /\ \A p \in Cpu : Well(todo[p])
    /\ ~raced => Levelled

(* The ops that update a level.                                             *)
LEMMA LoudIs ==
    /\ \A x : x.op \in HeavyOps => Loud(x)
    /\ \A x : Sets(x) => Loud(x)
BY DEF Loud, Sets, HeavyOps, InputOps, LineOps, LevelOps, ExtOps

(* Everyone is a vCPU.                                                      *)
LEMMA EveryoneVcpu ==
    ASSUME PlaceInv
    PROVE  Everyone \subseteq Vcpu
BY RvConstants DEF PlaceInv, Vcpu

(* A step of p after which nobody's levels but its own are under way, one   *)
(* of the devices' steps being ahead.                                       *)
LEMMA HeavyKept ==
    ASSUME TypeInv, PlaceInv, NEW p \in Cpu, Act(p), ~Refresh(p), ~raced', Well(todo[p]), Levelled,
           virq' = virq,
           \E x \in Els(todo'[p]) : x.op \in HeavyOps,
           \A x : Sets(x) => (x \in Els(todo'[p]) <=> x \in Els(todo[p])),
           plic' = plic \/ \A x \in Els(todo'[p]) : ~Sets(x),
           (\E x \in Els(todo'[p]) : x.op \in InputOps) \/ uart'.iir = Source(uart'),
           \/ \E x \in Els(todo'[p]) : x.op \in InputOps \cup LineOps
           \/ Source(uart') # "none" \/ GuestUartIrq \notin plic'.pending,
           (\E x \in Els(todo'[p]) : x.op = "raise") => Source(uart') # "none"
    PROVE  Levelled'
<1>1. /\ \A q \in Cpu \ {p} : todo'[q] = todo[q]
      /\ \A q \in Cpu \ {p} : Quiet(todo'[q])
  BY RaceMeans, LoudIs DEF Quiet
<1>2. \A q \in Cpu \ {p} : \A x \in Els(todo'[q]) : ~Sets(x) /\ x.op \notin HeavyOps
  BY <1>1, LoudIs DEF Quiet
<1>3. UartRight'
  BY DEF UartRight, Ahead
<1>4. LineRight'
  <2>1. ASSUME NEW q \in Cpu, NEW x \in Els(todo'[q]), x.op = "raise" PROVE q = p
    BY <1>2, <2>1 DEF HeavyOps, LineOps
  <2> QED
    BY <2>1 DEF LineRight, Ahead
<1>5. StepsRight'
  <2> SUFFICES ASSUME NEW q \in Cpu, NEW x \in Els(todo'[q]), Sets(x)
               PROVE  Level(x) = "ext_on" <=> HasDeliverable(plic', Target(x))
    BY DEF StepsRight
  <2>1. q = p /\ plic' = plic /\ x \in Els(todo[p])
    BY <1>2
  <2> QED
    BY <2>1 DEF Levelled, StepsRight
<1>6. Everyone' = Everyone /\ Everyone \subseteq Vcpu
  BY SchedStep, EveryoneVcpu
<1>7. FindRight'
  <2> SUFFICES ASSUME NEW q \in Cpu, NEW x \in Els(todo'[q]), x.op = "find_ready", Sets(x), x.hart \in Everyone
               PROVE  x.hart \in Listed' \cup Renewing'
    BY <1>6 DEF FindRight
  <2>1. q = p /\ x \in Els(todo[p])
    BY <1>2
  <2>2. x.hart \in Listed \cup Renewing /\ x.hart \in Vcpu
    BY <1>6, <2>1 DEF Levelled, FindRight
  <2> QED
    BY <2>2, RenewStep
<1>8. ExtRight'
  <2> SUFFICES ASSUME NEW v \in Everyone
               PROVE  \/ Right(v)' \/ v \in Renewing'
                      \/ v \in Ctx /\ Ahead(HeavyOps)'
                      \/ \E q \in Cpu : \E x \in Els(todo'[q]) : Sets(x) /\ Target(x) = v
    BY <1>6 DEF ExtRight
  <2>1. CASE v \in Ctx
    BY <2>1 DEF Ahead
  <2>2. CASE v \notin Ctx
    <3>1. CASE Right(v)
      BY <2>2, <3>1 DEF Right, HasDeliverable
    <3>2. CASE v \in Renewing
      BY <1>6, <3>2, RenewStep
    <3>3. ASSUME NEW q \in Cpu, NEW x \in Els(todo[q]), Sets(x), Target(x) = v
          PROVE  \E b \in Cpu : \E y \in Els(todo'[b]) : Sets(y) /\ Target(y) = v
      <4>1. x \in Els(todo'[q])
        BY <1>1, <3>3
      <4> QED
        BY <3>3, <4>1
    <3> QED
      BY <2>2, <3>1, <3>2, <3>3 DEF Levelled, ExtRight
  <2> QED
    BY <2>1, <2>2
<1> QED
  BY <1>3, <1>4, <1>5, <1>7, <1>8 DEF Levelled

(* A step of p that leaves the devices alone.                               *)
LEMMA LightKept ==
    ASSUME TypeInv, PlaceInv, NEW p \in Cpu, Act(p), ~raced', Well(todo[p]), Levelled,
           plic' = plic, Source(uart') = Source(uart), uart'.iir = uart.iir,
           \A x : x.op \in InputOps \cup LineOps => (x \in Els(todo'[p]) <=> x \in Els(todo[p])),
           \A x \in Els(todo'[p]) :
              Sets(x) => \/ x \in Els(todo[p])
                         \/ Level(x) = "ext_on" <=> HasDeliverable(plic, Target(x)),
           \A x \in Els(todo'[p]) :
              x.op = "find_ready" /\ Sets(x) /\ x.hart \in Everyone =>
                  x \in Els(todo[p]) \/ x.hart \in Listed \cup Renewing,
           Refresh(p) => \/ cur[p] = NoVcpu
                         \/ /\ \E y \in Els(todo'[p]) : Sets(y) /\ Target(y) = cur[p]
                            /\ \A x \in Els(todo'[p]) : ~(x.op = "find_ready" /\ Sets(x)),
           \A v \in Everyone :
              ("ext" \in virq'[v] <=> "ext" \in virq[v]) \/ Right(v)',
           \A v \in Everyone : \A x \in Els(todo[p]) : x.op \in HeavyOps /\ v \in Ctx =>
              \/ \E y \in Els(todo'[p]) : y.op \in HeavyOps
              \/ \E y \in Els(todo'[p]) : Sets(y) /\ Target(y) = v,
           \A v \in Everyone : \A x \in Els(todo[p]) : Sets(x) /\ Target(x) = v =>
              \/ \E y \in Els(todo'[p]) : Sets(y) /\ Target(y) = v
              \/ Right(v)' \/ v \in Renewing'
    PROVE  Levelled'
<1>1. /\ \A q \in Cpu \ {p} : todo'[q] = todo[q]
      /\ \A q \in Cpu \ {p} : Quiet(todo'[p]) \/ Quiet(todo[q])
  BY RaceMeans
<1>2. \A x : x.op \in InputOps \cup LineOps => \A q \in Cpu : x \in Els(todo'[q]) <=> x \in Els(todo[q])
  BY <1>1
<1>3. /\ Ahead(InputOps)' <=> Ahead(InputOps)
      /\ Ahead(InputOps \cup LineOps)' <=> Ahead(InputOps \cup LineOps)
      /\ Ahead({"raise"})' <=> Ahead({"raise"})
  <2>1. \A x : x.op \in InputOps => \A q \in Cpu : x \in Els(todo'[q]) <=> x \in Els(todo[q])
    BY <1>2
  <2>2. \A x : x.op \in {"raise"} => \A q \in Cpu : x \in Els(todo'[q]) <=> x \in Els(todo[q])
    BY <1>2 DEF LineOps
  <2> QED
    BY <1>2, <2>1, <2>2 DEF Ahead
<1>4. UartRight' /\ LineRight'
  BY <1>3 DEF Levelled, UartRight, LineRight
<1>5. StepsRight'
  <2> SUFFICES ASSUME NEW q \in Cpu, NEW x \in Els(todo'[q]), Sets(x)
               PROVE  Level(x) = "ext_on" <=> HasDeliverable(plic, Target(x))
    BY DEF StepsRight
  <2> QED
    BY <1>1 DEF Levelled, StepsRight
<1>6. Everyone' = Everyone /\ Everyone \subseteq Vcpu
  BY SchedStep, EveryoneVcpu
<1>7. FindRight'
  <2> SUFFICES ASSUME NEW q \in Cpu, NEW x \in Els(todo'[q]), x.op = "find_ready", Sets(x), x.hart \in Everyone
               PROVE  x.hart \in Listed' \cup Renewing'
    BY <1>6 DEF FindRight
  <2>1. x.hart \in Listed \cup Renewing
    <3>1. CASE q = p
      BY <3>1 DEF Levelled, FindRight
    <3>2. CASE q # p
      BY <1>1, <3>2 DEF Levelled, FindRight
    <3> QED
      BY <3>1, <3>2
  <2>2. ~(Refresh(p) /\ cur[p] = x.hart)
    <3> SUFFICES ASSUME Refresh(p), cur[p] = x.hart PROVE FALSE
      OBVIOUS
    <3>1. cur[p] # NoVcpu
      BY <1>6, RvConstants
    <3>2. ~Quiet(todo'[p]) /\ q # p
      BY <3>1, LoudIs DEF Quiet
    <3>3. Quiet(todo'[q])
      BY <1>1, <3>2
    <3> QED
      BY <3>3, LoudIs DEF Quiet
  <2> QED
    BY <1>6, <2>1, <2>2, RenewStep
<1>8. ExtRight'
  <2> SUFFICES ASSUME NEW v \in Everyone
               PROVE  \/ Right(v)' \/ v \in Renewing'
                      \/ v \in Ctx /\ Ahead(HeavyOps)'
                      \/ \E q \in Cpu : \E x \in Els(todo'[q]) : Sets(x) /\ Target(x) = v
    BY <1>6 DEF ExtRight
  <2>1. CASE Right(v)
    BY <2>1 DEF Right
  <2>2. CASE v \in Renewing
    <3>1. CASE Refresh(p) /\ cur[p] = v
      <4>1. cur[p] # NoVcpu
        BY <1>6, <3>1, RvConstants
      <4> QED
        BY <3>1, <4>1
    <3> QED
      BY <1>6, <2>2, <3>1, RenewStep
  <2>3. ASSUME NEW q \in Cpu, NEW x \in Els(todo[q]), x.op \in HeavyOps, v \in Ctx
        PROVE  \/ Ahead(HeavyOps)'
               \/ \E b \in Cpu : \E y \in Els(todo'[b]) : Sets(y) /\ Target(y) = v
    <3>1. CASE q = p
      BY <2>3, <3>1 DEF Ahead
    <3>2. CASE q # p
      <4>1. x \in Els(todo'[q])
        BY <1>1, <3>2
      <4> QED
        BY <2>3, <4>1 DEF Ahead
    <3> QED
      BY <3>1, <3>2
  <2>4. ASSUME NEW q \in Cpu, NEW x \in Els(todo[q]), Sets(x), Target(x) = v
        PROVE  \/ Right(v)' \/ v \in Renewing'
               \/ \E b \in Cpu : \E y \in Els(todo'[b]) : Sets(y) /\ Target(y) = v
    <3>1. CASE q = p
      BY <2>4, <3>1
    <3>2. CASE q # p
      <4>1. x \in Els(todo'[q])
        BY <1>1, <3>2
      <4> QED
        BY <2>4, <4>1
    <3> QED
      BY <3>1, <3>2
  <2> QED
    BY <2>1, <2>2, <2>3, <2>4 DEF Levelled, ExtRight, Ahead
<1> QED
  BY <1>4, <1>5, <1>7, <1>8 DEF Levelled

(* A step that neither is nor pushes an update of a level.                  *)
LEMMA QuietKept ==
    ASSUME TypeInv, PlaceInv, NEW p \in Cpu, Act(p), ~raced', Well(todo[p]), Levelled,
           plic' = plic, Source(uart') = Source(uart), uart'.iir = uart.iir,
           \A v \in Vcpu : "ext" \in virq'[v] <=> "ext" \in virq[v],
           \A x : Loud(x) => (x \in Els(todo'[p]) <=> x \in Els(todo[p])),
           Refresh(p) => cur[p] = NoVcpu
    PROVE  Levelled'
<1>1. \A x : Sets(x) => (x \in Els(todo'[p]) <=> x \in Els(todo[p]))
  BY LoudIs
<1>2. \A x : x.op \in HeavyOps => (x \in Els(todo'[p]) <=> x \in Els(todo[p]))
  BY LoudIs
<1>3. \A x : x.op \in InputOps \cup LineOps => (x \in Els(todo'[p]) <=> x \in Els(todo[p]))
  BY <1>2 DEF HeavyOps
<1>4. Everyone \subseteq Vcpu
  BY EveryoneVcpu
<1>5. \A v \in Everyone : "ext" \in virq'[v] <=> "ext" \in virq[v]
  BY <1>4
<1>6. /\ \A x \in Els(todo'[p]) : Sets(x) => x \in Els(todo[p])
      /\ \A x \in Els(todo[p]) : Sets(x) => x \in Els(todo'[p])
      /\ \A x \in Els(todo[p]) : x.op \in HeavyOps => x \in Els(todo'[p])
  BY <1>1, <1>2
<1> HIDE DEF Sets, Target, Level
<1> QED
  BY <1>3, <1>5, <1>6, LightKept

(* The silent actions leave the devices and VSEIP alone.                    *)
LEMMA SilentDevices ==
    ASSUME TypeInv, NEW p \in Cpu, SilentAction(p)
    PROVE  /\ plic' = plic /\ uart' = uart /\ ~Refresh(p) /\ Act(p)
           /\ \A v \in Vcpu : "ext" \in virq'[v] <=> "ext" \in virq[v]
<1>0. virq \in [Vcpu -> SUBSET Virq] /\ cur \in [Cpu -> Vcpu \cup {NoVcpu}]
  BY DEF TypeInv, RvTypeOK
<1> USE DEF devVars, irqVars
<1>1. CASE Tick(p) \/ Soft(p) \/ Ext(p) \/ Redirect(p) \/ NoEffect(p) \/ SendIpi(p) \/ RemoteFence(p)
  BY <1>1 DEF Tick, Soft, Ext, Redirect, NoEffect, SendIpi, RemoteFence, Trap, Refresh, At, Act, GuestStep
<1>2. CASE Take(p) \/ Hfence(p) \/ Count(p) \/ Yield(p) \/ Requeue(p) \/ Switch(p) \/ Publish(p) \/ Materialize(p)
           \/ Kick(p) \/ SbiSendIpi(p) \/ Select(p) \/ Fences(p)
  BY <1>2 DEF Take, Hfence, Count, Yield, Requeue, Switch, Publish, Materialize, Kick, SbiSendIpi, Select, Fences,
              Refresh, At, Act, Continue
<1>3. CASE SyncAction(p)
  BY <1>3 DEF SyncAction, SyncRead, SyncSend, SyncSbi, SyncDone, SyncTimeout, Acknowledged, Refresh, At, Act, Continue
<1>4. CASE TimerRefresh(p)
  <2>1. plic' = plic /\ uart' = uart /\ ~Refresh(p) /\ Act(p)
    BY <1>4 DEF TimerRefresh, Refresh, At, Act, Continue
  <2>2. virq' = virq \/ virq' = [virq EXCEPT ![cur[p]] = @ \cup {"timer"}]
    BY <1>4 DEF TimerRefresh, VirqAssert
  <2> QED
    BY <1>0, <2>1, <2>2
<1>5. CASE SetTimer(p) \/ ClearIpi(p)
  <2>1. plic' = plic /\ uart' = uart /\ ~Refresh(p) /\ Act(p)
    BY <1>5 DEF SetTimer, ClearIpi, Trap, Refresh, At, Act, GuestStep
  <2>2. virq' = [virq EXCEPT ![cur[p]] = @ \ {"timer"}] \/ virq' = [virq EXCEPT ![cur[p]] = @ \ {"soft"}]
    BY <1>5 DEF SetTimer, ClearIpi, VirqClear
  <2> QED
    BY <1>0, <2>1, <2>2
<1> QED
  BY <1>1, <1>2, <1>3, <1>4, <1>5 DEF SilentAction

(* What Well and Levelled are after a step of p.                            *)
Fine(p) == Well(todo'[p]) /\ (~raced' => Levelled')

(* The silent steps.                                                        *)
LEMMA FineSilent ==
    ASSUME TypeInv, PlaceInv, NEW p \in Cpu, SilentAction(p), Well(todo[p]), ~raced => Levelled
    PROVE  Fine(p)
<1>1. TodoOK /\ Silent(p) /\ plic' = plic /\ uart' = uart /\ ~Refresh(p) /\ Act(p)
  BY TypeParts, AllSilent, SilentDevices
<1>2. /\ Well(todo'[p])
      /\ \A x : Loud(x) => (x \in Els(todo'[p]) <=> x \in Els(todo[p]))
  BY <1>1, SilentKeeps
<1>3. ASSUME ~raced' PROVE Levelled'
  <2>1. ~raced
    BY <1>1, <1>3, RaceMeans
  <2>2. \A v \in Vcpu : "ext" \in virq'[v] <=> "ext" \in virq[v]
    BY SilentDevices
  <2> QED
    BY <1>1, <1>2, <1>3, <2>1, <2>2, QuietKept
<1> QED
  BY <1>2, <1>3 DEF Fine

(* What a step that pushes at most one leaves.                              *)
LEMMA OnePushed ==
    ASSUME TypeInv, NEW p \in Cpu, todo[p] # <<>>, Well(todo[p]),
           Now(p).op \in ChainOps \cup {"refresh"},
           \/ Do(p, <<>>)
           \/ \E x \in StepRec : x.op \in ChainOps /\ Do(p, <<x>>)
    PROVE  /\ Well(todo'[p])
           /\ Do(p, <<>>) => Els(todo'[p]) = Els(Tail(todo[p]))
           /\ \A x \in StepRec : x.op \in ChainOps /\ Do(p, <<x>>) => Els(todo'[p]) = {x} \cup Els(Tail(todo[p]))
           /\ Els(todo[p]) = {Now(p)} \cup Els(Tail(todo[p]))
           /\ Now(p) \in StepRec
<1>0. TodoOK /\ <<>> \in Seq(StepRec) /\ Els(<<>>) = {} /\ Well(<<>>)
  BY TypeParts, ElsLiteral DEF Well
<1>1. Now(p) \in StepRec /\ Els(todo[p]) = {Now(p)} \cup Els(Tail(todo[p]))
  BY <1>0, NowType
<1>2. ASSUME Do(p, <<>>) PROVE Well(todo'[p]) /\ Els(todo'[p]) = Els(Tail(todo[p]))
  <2>1. Pushed(p, <<>>)
    BY <1>0, <1>2, DoPushes
  <2>2. Els(todo'[p]) = Els(<<>>) \cup Els(Tail(todo[p]))
    BY <1>0, <2>1, PushedEls
  <2>3. Well(todo'[p])
    BY <1>0, <2>1, WellPushed
  <2> QED
    BY <1>0, <2>2, <2>3
<1>3. ASSUME NEW x \in StepRec, x.op \in ChainOps, Do(p, <<x>>)
      PROVE  Well(todo'[p]) /\ Els(todo'[p]) = {x} \cup Els(Tail(todo[p]))
  <2>1. <<x>> \in Seq(StepRec) /\ Els(<<x>>) = {x}
    BY ElsLiteral
  <2>2. Well(<<x>>)
    BY <1>3, WellOne DEF ChainOps, FindOps, ExtOps
  <2>3. Pushed(p, <<x>>)
    BY <1>0, <1>3, <2>1, DoPushes
  <2>4. Els(todo'[p]) = Els(<<x>>) \cup Els(Tail(todo[p]))
    BY <1>0, <2>3, PushedEls
  <2>5. Well(todo'[p])
    BY <1>0, <1>3, <2>1, <2>2, <2>3, WellPushed
  <2> QED
    BY <2>1, <2>4, <2>5
<1> QED
  BY <1>1, <1>2, <1>3

(* A search hands on what it is for.                                        *)
LEMMA FindNext ==
    ASSUME NEW s \in StepRec, s.op \in FindOps
    PROVE  /\ s.hart \in Vcpu =>
                LET y == For(s.why, s.hart) IN
                /\ y \in StepRec /\ y.op \in ChainOps /\ y.op # "find_ready"
                /\ (Sets(y) <=> Sets(s)) /\ Level(y) = Level(s) /\ Target(y) = Target(s)
           /\ LET y == [s EXCEPT !.op = "find_ready"] IN
                /\ y \in StepRec /\ y.op \in ChainOps /\ y.hart = s.hart
                /\ (Sets(y) <=> Sets(s)) /\ Level(y) = Level(s) /\ Target(y) = Target(s)
<1>1. s.why \in FindWhys
  BY RecOf
<1>2. ASSUME s.hart \in Vcpu
      PROVE  LET y == For(s.why, s.hart) IN
                /\ y \in StepRec /\ y.op \in ChainOps /\ y.op # "find_ready"
                /\ (Sets(y) <=> Sets(s)) /\ Level(y) = Level(s) /\ Target(y) = Target(s)
  <2> DEFINE y == For(s.why, s.hart)
  <2>0. s.why \in VcpuOps
    BY <1>1 DEF VcpuOps
  <2>1. y \in StepRec /\ y.op = s.why /\ y.vcpu = s.hart
    BY <1>2, <2>0, MakeRec
  <2> HIDE DEF y
  <2>2. y.op \notin FindOps /\ y.op \in ChainOps /\ y.op # "find_ready" /\ s.op \notin ExtOps
    BY <1>1, <2>1 DEF FindWhys, FindOps, ChainOps, ExtOps
  <2>3. (Sets(y) <=> Sets(s)) /\ Level(y) = Level(s) /\ Target(y) = Target(s)
    BY <2>1, <2>2 DEF Sets, Level, Target
  <2> QED
    BY <2>1, <2>2, <2>3 DEF y
<1>3. LET y == [s EXCEPT !.op = "find_ready"] IN
                /\ y \in StepRec /\ y.op \in ChainOps /\ y.hart = s.hart
                /\ (Sets(y) <=> Sets(s)) /\ Level(y) = Level(s) /\ Target(y) = Target(s)
  <2> DEFINE y == [s EXCEPT !.op = "find_ready"]
  <2>1. y \in StepRec /\ y.op = "find_ready" /\ y.hart = s.hart /\ y.why = s.why
    BY MakeFindReady
  <2> HIDE DEF y
  <2>2. y.op \in FindOps /\ y.op \in ChainOps
    BY <2>1 DEF FindOps, ChainOps
  <2>3. "find_ready" \notin ExtOps /\ s.op \notin ExtOps
    BY DEF ExtOps, FindOps
  <2> QED
    BY <2>1, <2>2, <2>3 DEF Sets, Level, Target, y
<1> QED
  BY <1>2, <1>3

(* The ops of searches are not those of the devices.                        *)
LEMMA ChainNotHeavy == \A x : x.op \in ChainOps \cup {"refresh"} => x.op \notin HeavyOps /\ x.op \notin InputOps \cup LineOps
BY DEF ChainOps, FindOps, ExtOps, HeavyOps, InputOps, LineOps

(* A search that goes on.                                                   *)
LEMMA SearchKept ==
    ASSUME TypeInv, PlaceInv, NEW p \in Cpu, FindRunning(p) \/ FindReady(p), Act(p), Well(todo[p]),
           ~raced => Levelled,
           NEW y \in StepRec, Do(p, <<y>>), y.op \in ChainOps,
           Sets(y) <=> Sets(Now(p)), Level(y) = Level(Now(p)), Target(y) = Target(Now(p)),
           y.op = "find_ready" /\ y.hart \in Everyone => y.hart \in Listed \cup Renewing
    PROVE  Fine(p)
<1>0. /\ todo[p] # <<>> /\ Now(p).op \in FindOps /\ Now(p).op \in ChainOps /\ ~Refresh(p)
      /\ UNCHANGED <<plic, uart, virq>>
  BY DEF FindRunning, FindReady, At, Now, FindOps, ChainOps, Refresh, devVars, irqVars
<1>1. /\ Well(todo'[p]) /\ Els(todo'[p]) = {y} \cup Els(Tail(todo[p]))
      /\ Els(todo[p]) = {Now(p)} \cup Els(Tail(todo[p]))
  BY <1>0, OnePushed
<1>2. ASSUME ~raced' PROVE Levelled'
  <2>0. Levelled /\ Everyone \subseteq Vcpu
    BY <1>2, RaceMeans, EveryoneVcpu
  <2>1. /\ y.op \notin HeavyOps /\ y.op \notin InputOps \cup LineOps
        /\ Now(p).op \notin HeavyOps /\ Now(p).op \notin InputOps \cup LineOps
    BY <1>0, ChainNotHeavy
  <2>2. \A x : x.op \in InputOps \cup LineOps => (x \in Els(todo'[p]) <=> x \in Els(todo[p]))
    BY <1>1, <2>1
  <2>3. \A x \in Els(todo'[p]) : Sets(x) => \/ x \in Els(todo[p])
                                            \/ Level(x) = "ext_on" <=> HasDeliverable(plic, Target(x))
    <3>1. Sets(y) => (Level(y) = "ext_on" <=> HasDeliverable(plic, Target(y)))
      BY <1>1, <2>0 DEF Levelled, StepsRight
    <3> QED
      BY <1>1, <3>1
  <2>4. \A x \in Els(todo'[p]) : x.op = "find_ready" /\ Sets(x) /\ x.hart \in Everyone =>
                                   x \in Els(todo[p]) \/ x.hart \in Listed \cup Renewing
    BY <1>1
  <2>5. \A x \in Els(todo[p]) : x.op \in HeavyOps => x \in Els(todo'[p])
    BY <1>1, <2>1
  <2>6. \A x \in Els(todo[p]) : Sets(x) => \E z \in Els(todo'[p]) : Sets(z) /\ Target(z) = Target(x)
    BY <1>1
  <2>7. \A v \in Everyone : "ext" \in virq'[v] <=> "ext" \in virq[v]
    BY <1>0
  <2> QED
    BY <1>0, <1>2, <2>0, <2>2, <2>3, <2>4, <2>5, <2>6, <2>7, LightKept
<1> QED
  BY <1>1, <1>2 DEF Fine

(* riscv_find_guest_vcpu                                                    *)
LEMMA FineFind ==
    ASSUME TypeInv, PlaceInv, NEW p \in Cpu, FindRunning(p) \/ FindReady(p), Act(p), Well(todo[p]), ~raced => Levelled
    PROVE  Fine(p)
<1> DEFINE s == Now(p)
<1>0. todo[p] # <<>> /\ s \in StepRec /\ s.op \in FindOps /\ Everyone \subseteq Vcpu /\ s.op \in ChainOps
  BY NowType, EveryoneVcpu DEF TypeInv, FindRunning, FindReady, At, Now, FindOps, ChainOps
<1>1. s.why \in FindWhys /\ s.hart \in Vcpu \cup Ctx
  BY <1>0, RecOf
<1>2. ASSUME s.hart \in Vcpu, Do(p, <<For(s.why, s.hart)>>) PROVE Fine(p)
  <2> DEFINE y == For(s.why, s.hart)
  <2>1. /\ y \in StepRec /\ y.op \in ChainOps /\ y.op # "find_ready"
        /\ (Sets(y) <=> Sets(s)) /\ Level(y) = Level(s) /\ Target(y) = Target(s)
    BY <1>0, <1>2, FindNext
  <2>2. Do(p, <<y>>)
    BY <1>2
  <2> HIDE DEF y
  <2> QED
    BY <2>1, <2>2, SearchKept
<1>3. CASE FindRunning(p)
  <2>1. CASE \E q \in Cpu : cur[q] = s.hart
    <3>1. s.hart \in Vcpu
      BY <1>1, <2>1, RvConstants, VPlicAssumption DEF TypeInv, RvTypeOK, NoVcpu
    <3> QED
      BY <1>2, <1>3, <2>1, <3>1 DEF FindRunning
  <2>2. CASE ~\E q \in Cpu : cur[q] = s.hart
    <3> DEFINE y == [s EXCEPT !.op = "find_ready"]
    <3>1. /\ y \in StepRec /\ y.op \in ChainOps /\ y.hart = s.hart
          /\ (Sets(y) <=> Sets(s)) /\ Level(y) = Level(s) /\ Target(y) = Target(s)
      BY <1>0, FindNext
    <3>2. Do(p, <<y>>)
      BY <1>3, <2>2 DEF FindRunning
    <3> HIDE DEF y
    <3>3. y.hart \in Everyone => y.hart \in Listed \cup Renewing
      BY <1>0, <2>2, <3>1, EveryoneIs DEF Renewing
    <3> QED
      BY <3>1, <3>2, <3>3, SearchKept
  <2> QED
    BY <2>1, <2>2
<1>4. CASE FindReady(p)
  <2>1. CASE \E i \in 1..Len(ready) : ready[i] = s.hart
    <3>1. s.hart \in Vcpu
      BY <2>1, ElementOfSeq DEF TypeInv, RvTypeOK
    <3> QED
      BY <1>2, <1>4, <2>1, <3>1 DEF FindReady
  <2>2. CASE ~\E i \in 1..Len(ready) : ready[i] = s.hart
    <3>0. /\ Do(p, <<>>) /\ s.op = "find_ready" /\ s.hart \notin Listed /\ ~Refresh(p)
          /\ UNCHANGED <<plic, uart, virq>>
      BY <1>4, <2>2 DEF FindReady, At, Now, Listed, Refresh, devVars, irqVars
    <3>1. /\ Well(todo'[p]) /\ Els(todo'[p]) = Els(Tail(todo[p]))
          /\ Els(todo[p]) = {s} \cup Els(Tail(todo[p]))
      BY <1>0, <3>0, OnePushed
    <3>2. ASSUME ~raced' PROVE Levelled'
      <4>0. Levelled
        BY <3>2, RaceMeans
      <4>1. s.op \notin HeavyOps /\ s.op \notin InputOps \cup LineOps
        BY <1>0, ChainNotHeavy
      <4>2. \A x : x.op \in InputOps \cup LineOps => (x \in Els(todo'[p]) <=> x \in Els(todo[p]))
        BY <3>1, <4>1
      <4>3. \A x \in Els(todo'[p]) : x \in Els(todo[p])
        BY <3>1
      <4>4. \A x \in Els(todo[p]) : x.op \in HeavyOps => x \in Els(todo'[p])
        BY <3>1, <4>1
      <4>5. ASSUME NEW v \in Everyone, NEW x \in Els(todo[p]), Sets(x), Target(x) = v
            PROVE  (\E y \in Els(todo'[p]) : Sets(y) /\ Target(y) = v) \/ v \in Renewing'
        <5>1. CASE x = s
          <6>1. v = s.hart
            BY <1>0, <4>5, <5>1 DEF Target
          <6>2. v \in Renewing
            BY <3>0, <3>1, <4>0, <4>5, <5>1, <6>1 DEF Levelled, FindRight
          <6> QED
            BY <1>0, <3>0, <6>2, RenewStep
        <5>2. CASE x # s
          BY <3>1, <4>5, <5>2
        <5> QED
          BY <5>1, <5>2
      <4>6. \A v \in Everyone : "ext" \in virq'[v] <=> "ext" \in virq[v]
        BY <3>0
      <4> HIDE DEF s
      <4> QED
        BY <3>0, <3>2, <4>0, <4>2, <4>3, <4>4, <4>5, <4>6, LightKept
    <3> QED
      BY <3>1, <3>2 DEF Fine
  <2> QED
    BY <2>1, <2>2
<1> QED
  BY <1>3, <1>4

(* vplic_set_task_vseip, and inject_guest_soft_irq                          *)
LEMMA FineSet ==
    ASSUME TypeInv, PlaceInv, NEW p \in Cpu, Inject(p) \/ Retract(p), Act(p), Well(todo[p]), ~raced => Levelled
    PROVE  Fine(p)
<1> DEFINE s == Now(p)
           on == s.op # "ext_off"
           i == IF s.op = "soft" THEN "soft" ELSE "ext"
<1>0. /\ todo[p] # <<>> /\ s \in StepRec /\ s.op \in {"soft", "ext_on", "ext_off"} /\ s.op \in ChainOps /\ ~Refresh(p)
      /\ UNCHANGED <<plic, uart>>
  BY NowType DEF TypeInv, Inject, Retract, At, Now, ChainOps, ExtOps, Refresh, devVars
<1>1. PICK v \in Vcpu : s.vcpu = v
  BY <1>0, RecOf DEF VcpuOps, FindWhys
<1>2. /\ virq' = IF on THEN [virq EXCEPT ![v] = @ \cup {i}] ELSE [virq EXCEPT ![v] = @ \ {"ext"}]
      /\ Do(p, <<>>) \/ Do(p, <<To("kick", Affinity[v])>>)
  BY <1>1 DEF Inject, Retract, VirqAssert, VirqClear, At, Now
<1> DEFINE y == To("kick", Affinity[v])
<1>3. y \in StepRec /\ y.op = "kick"
  BY <1>1, RvConstants, MakeRec DEF ToOps
<1>4. Do(p, <<>>) \/ Do(p, <<y>>)
  BY <1>2
<1> HIDE DEF y
<1>5. /\ Well(todo'[p]) /\ Els(todo[p]) = {s} \cup Els(Tail(todo[p]))
      /\ Els(Tail(todo[p])) \subseteq Els(todo'[p]) /\ Els(todo'[p]) \subseteq {y} \cup Els(Tail(todo[p]))
  <2>1. y.op \in ChainOps
    BY <1>3 DEF ChainOps
  <2> QED
    BY <1>0, <1>3, <1>4, <2>1, OnePushed
<1>6. ~Loud(y) /\ ~Sets(y) /\ y.op \notin HeavyOps /\ y.op # "find_ready"
  BY <1>3 DEF Loud, Sets, LevelOps, FindOps, ExtOps, HeavyOps, InputOps, LineOps
<1>7. virq \in [Vcpu -> SUBSET Virq] /\ Everyone \subseteq Vcpu
  BY EveryoneVcpu DEF TypeInv, RvTypeOK
<1>8. ASSUME ~raced' PROVE Levelled'
  <2>0. Levelled
    BY <1>8, RaceMeans
  <2>1. CASE s.op = "soft"
    <3>1. ~Loud(s)
      BY <2>1 DEF Loud, LevelOps, FindOps
    <3>2. \A x : Loud(x) => (x \in Els(todo'[p]) <=> x \in Els(todo[p]))
      BY <1>5, <1>6, <3>1
    <3>3. \A w \in Vcpu : "ext" \in virq'[w] <=> "ext" \in virq[w]
      BY <1>1, <1>2, <1>7, <2>1
    <3> QED
      BY <1>0, <1>8, <2>0, <3>2, <3>3, QuietKept
  <2>2. CASE s.op \in ExtOps
    <3>0. Sets(s) /\ Level(s) = s.op /\ Target(s) = v
      BY <1>1, <2>2 DEF Sets, Level, Target, ExtOps, FindOps
    <3>1. s.op = "ext_on" <=> HasDeliverable(plic, v)
      BY <1>5, <2>0, <3>0 DEF Levelled, StepsRight
    <3>2. Right(v)'
      BY <1>0, <1>1, <1>2, <1>7, <2>2, <3>1 DEF Right, ExtOps
    <3>3. \A w \in Vcpu \ {v} : virq'[w] = virq[w]
      BY <1>1, <1>2, <1>7
    <3>4. s.op \notin HeavyOps /\ s.op \notin InputOps \cup LineOps
      BY <1>0, ChainNotHeavy
    <3>5. \A x : x.op \in InputOps \cup LineOps => (x \in Els(todo'[p]) <=> x \in Els(todo[p]))
      <4>1. y.op \notin InputOps \cup LineOps
        BY <1>6 DEF HeavyOps
      <4> QED
        BY <1>5, <3>4, <4>1
    <3>6. \A x \in Els(todo'[p]) : Sets(x) => x \in Els(todo[p])
      BY <1>5, <1>6
    <3>7. \A x \in Els(todo[p]) : x.op \in HeavyOps => x \in Els(todo'[p])
      BY <1>5, <3>4
    <3>8. \A x \in Els(todo[p]) : Sets(x) => x \in Els(todo'[p]) \/ Target(x) = v
      BY <1>5, <3>0
    <3>9. \A w \in Everyone : ("ext" \in virq'[w] <=> "ext" \in virq[w]) \/ Right(w)'
      BY <1>7, <3>2, <3>3
    <3>10. \A w \in Everyone : \A x \in Els(todo[p]) : Sets(x) /\ Target(x) = w =>
              (\E z \in Els(todo'[p]) : Sets(z) /\ Target(z) = w) \/ Right(w)'
      BY <3>2, <3>8
    <3> HIDE DEF s, on, i
    <3> QED
      BY <1>0, <1>8, <2>0, <3>5, <3>6, <3>7, <3>9, <3>10, LightKept
  <2> QED
    BY <1>0, <2>1, <2>2 DEF ExtOps
<1> QED
  BY <1>5, <1>8 DEF Fine

(* riscv_vplic_refresh                                                      *)
LEMMA FineRefresh ==
    ASSUME TypeInv, PlaceInv, NEW p \in Cpu, Refresh(p), Act(p), Well(todo[p]), ~raced => Levelled
    PROVE  Fine(p)
<1>0. /\ todo[p] # <<>> /\ Now(p).op = "refresh" /\ todo[p] \in Seq(StepRec) /\ UNCHANGED <<plic, uart, virq>>
  BY TypeParts DEF TodoOK, Refresh, At, Now, devVars, irqVars
<1>1. Quiet(Tail(todo[p])) /\ ~Loud(Now(p)) /\ ~Sets(Now(p))
  BY <1>0, WellHead DEF ChainOps, FindOps, ExtOps, Loud, LevelOps, Now, Sets
<1>2. \A w \in Vcpu : "ext" \in virq'[w] <=> "ext" \in virq[w]
  BY <1>0
<1>3. CASE cur[p] = NoVcpu
  <2>1. Do(p, <<>>)
    BY <1>3 DEF Refresh
  <2>2. /\ Well(todo'[p]) /\ Els(todo'[p]) = Els(Tail(todo[p])) /\ Els(todo[p]) = {Now(p)} \cup Els(Tail(todo[p]))
    BY <1>0, <2>1, OnePushed
  <2>3. \A x : Loud(x) => (x \in Els(todo'[p]) <=> x \in Els(todo[p]))
    BY <1>1, <2>2
  <2>4. ASSUME ~raced' PROVE Levelled'
    <3>1. Levelled
      BY <2>4, RaceMeans
    <3> QED
      BY <1>0, <1>2, <1>3, <2>3, <2>4, <3>1, QuietKept
  <2> QED
    BY <2>2, <2>4 DEF Fine
<1>4. CASE cur[p] # NoVcpu
  <2> DEFINE c == cur[p]
             y == For(IF HasDeliverable(plic, c) THEN "ext_on" ELSE "ext_off", c)
  <2>0. c \in Vcpu
    BY <1>4 DEF TypeInv, RvTypeOK
  <2>1. Do(p, <<y>>)
    BY <1>4 DEF Refresh
  <2>2. y \in StepRec /\ y.op = (IF HasDeliverable(plic, c) THEN "ext_on" ELSE "ext_off") /\ y.vcpu = c
    BY <2>0, MakeRec DEF VcpuOps, FindWhys
  <2> HIDE DEF y
  <2>3. y.op \in ChainOps /\ y.op \notin FindOps /\ y.op \in ExtOps
    BY <2>2 DEF ChainOps, ExtOps, FindOps
  <2>4. Sets(y) /\ Target(y) = c /\ (Level(y) = "ext_on" <=> HasDeliverable(plic, Target(y))) /\ y.op # "find_ready"
    BY <2>2, <2>3 DEF Sets, Target, Level, FindOps
  <2>5. /\ Well(todo'[p]) /\ Els(todo'[p]) = {y} \cup Els(Tail(todo[p])) /\ Els(todo[p]) = {Now(p)} \cup Els(Tail(todo[p]))
    BY <1>0, <2>1, <2>2, <2>3, OnePushed
  <2>6. \A x \in Els(Tail(todo[p])) : ~Sets(x)
    BY <1>1, LoudIs DEF Quiet
  <2>7. ASSUME ~raced' PROVE Levelled'
    <3>0. Levelled /\ Everyone \subseteq Vcpu
      BY <2>7, RaceMeans, EveryoneVcpu
    <3>1. /\ y.op \notin HeavyOps /\ y.op \notin InputOps \cup LineOps
          /\ Now(p).op \notin HeavyOps /\ Now(p).op \notin InputOps \cup LineOps
      BY <1>0, <2>3, ChainNotHeavy
    <3>2. \A x : x.op \in InputOps \cup LineOps => (x \in Els(todo'[p]) <=> x \in Els(todo[p]))
      BY <2>5, <3>1
    <3>3. \A x \in Els(todo'[p]) : Sets(x) => x = y
      BY <2>5, <2>6
    <3>4. \A x \in Els(todo[p]) : ~Sets(x) /\ (x.op \in HeavyOps => x \in Els(todo'[p]))
      BY <1>1, <2>5, <2>6, <3>1
    <3>5. y \in Els(todo'[p])
      BY <2>5
    <3>6. \A v \in Everyone : "ext" \in virq'[v] <=> "ext" \in virq[v]
      BY <1>2, <3>0
    <3> QED
      BY <1>0, <2>4, <2>7, <3>0, <3>2, <3>3, <3>4, <3>5, <3>6, LightKept
  <2> QED
    BY <2>5, <2>7 DEF Fine
<1> QED
  BY <1>3, <1>4

(* ForEach leaves nobody out.                                               *)
LEMMA NthOnto ==
    ASSUME NEW S \in SUBSET Int, IsFiniteSet(S), NEW v \in S
    PROVE  \E i \in 1..Cardinality(S) : Nth(S, i) = v
<1> DEFINE upto(x) == {y \in S : y <= x}
<1>1. Cardinality(S) \in Nat
  BY FS_CardinalityType
<1>2. ASSUME NEW x \in S
      PROVE  /\ IsFiniteSet(upto(x)) /\ Cardinality(upto(x)) \in 1..Cardinality(S)
  <2>1. upto(x) \in SUBSET S /\ x \in upto(x)
    OBVIOUS
  <2> HIDE DEF upto
  <2>2. /\ IsFiniteSet(upto(x)) /\ Cardinality(upto(x)) <= Cardinality(S)
        /\ Cardinality(upto(x)) \in Nat /\ Cardinality(upto(x)) # 0
    BY <2>1, FS_Subset, FS_CardinalityType, FS_EmptySet
  <2> QED
    BY <1>1, <2>2
<1>3. ASSUME NEW x \in S, NEW z \in S, x < z
      PROVE  Cardinality(upto(x)) # Cardinality(upto(z))
  <2>0. x \in Int /\ z \in Int /\ \A y \in S : y \in Int
    OBVIOUS
  <2>1. (\A y \in upto(x) : y \in upto(z)) /\ z \in upto(z) /\ z \notin upto(x)
    BY <1>3, <2>0
  <2> HIDE DEF upto
  <2> QED
    BY <1>2, <2>1, FS_Subset
<1>4. ASSUME NEW x \in S, Cardinality(upto(x)) = Cardinality(upto(v)) PROVE x = v
  <2>1. x < v \/ v < x \/ x = v
    OBVIOUS
  <2> QED
    BY <1>3, <1>4, <2>1
<1> DEFINE i == Cardinality(upto(v))
<1>5. i \in 1..Cardinality(S)
  BY <1>2
<1>6. Nth(S, i) \in S /\ Cardinality(upto(Nth(S, i))) = i
  <2>1. \E x \in S : Cardinality(upto(x)) = i
    OBVIOUS
  <2>2. Nth(S, i) = CHOOSE x \in S : Cardinality(upto(x)) = i
    BY DEF Nth
  <2> HIDE DEF i, upto
  <2> QED
    BY <2>1, <2>2
<1> HIDE DEF upto
<1>7. Nth(S, i) = v
  BY <1>4, <1>6
<1> QED
  BY <1>5, <1>7

(* vplic_update_all_vseip                                                   *)
LEMMA FineLevels ==
    ASSUME TypeInv, PlaceInv, NEW p \in Cpu, Levels(p), Act(p), Well(todo[p]), ~raced => Levelled
    PROVE  Fine(p)
<1>0. /\ todo[p] # <<>> /\ Now(p).op = "levels" /\ TodoOK /\ todo[p] \in Seq(StepRec) /\ UNCHANGED <<plic, uart, virq>>
      /\ ~Refresh(p)
  BY TypeParts DEF TodoOK, Levels, Refresh, At, Now, devVars, irqVars
<1>1. Quiet(Tail(todo[p])) /\ ~Sets(Now(p))
  BY <1>0, WellHead DEF ChainOps, FindOps, ExtOps, Now, Sets
<1> DEFINE f == [i \in 1..Cardinality(Ctx) |->
                   Find(IF HasDeliverable(plic, Nth(Ctx, i)) THEN "ext_on" ELSE "ext_off", Nth(Ctx, i))]
<1>2. Do(p, f)
  BY DEF Levels, ForEach
<1>3. \A i \in 1..Cardinality(Ctx) : Nth(Ctx, i) \in Ctx
  BY NthPlace
<1>4. ASSUME NEW i \in 1..Cardinality(Ctx)
      PROVE  /\ f[i] \in StepRec /\ f[i].op = "find" /\ f[i].hart = Nth(Ctx, i)
             /\ f[i].why = (IF HasDeliverable(plic, Nth(Ctx, i)) THEN "ext_on" ELSE "ext_off")
  <2> DEFINE why == IF HasDeliverable(plic, Nth(Ctx, i)) THEN "ext_on" ELSE "ext_off"
  <2>1. why \in FindWhys /\ Nth(Ctx, i) \in Vcpu \cup Ctx
    BY <1>3 DEF FindWhys
  <2>2. f[i] = Find(why, Nth(Ctx, i))
    OBVIOUS
  <2> HIDE DEF f, why
  <2>3. f[i] \in StepRec /\ f[i].op = "find" /\ f[i].hart = Nth(Ctx, i) /\ f[i].why = why
    BY <2>1, <2>2, MakeRec DEF Find
  <2> QED
    BY <2>3 DEF why
<1>5. f = [i \in 1..Cardinality(Ctx) |-> f[i]]
  OBVIOUS
<1> HIDE DEF f
<1>6. f \in Seq(StepRec) /\ \A x \in Els(f) : \E i \in 1..Cardinality(Ctx) : x = f[i]
  <2>1. \A i \in 1..Cardinality(Ctx) : f[i] \in StepRec
    BY <1>4
  <2>2. f \in Seq(StepRec) /\ \A x \in Els(f) : \E i \in 1..Cardinality(Ctx) : x = f[i] /\ Nth(Ctx, i) \in Ctx
    BY <1>5, <2>1, EachEls
  <2> QED
    BY <2>2
<1>7. \A x \in Els(f) : /\ x.op = "find" /\ Sets(x) /\ x.op \in ChainOps
                        /\ Level(x) = "ext_on" <=> HasDeliverable(plic, Target(x))
  BY <1>4, <1>6 DEF Sets, Level, Target, FindOps, ExtOps, ChainOps
<1>8. \A v \in Ctx : \E x \in Els(f) : Target(x) = v
  <2> SUFFICES ASSUME NEW v \in Ctx PROVE \E x \in Els(f) : Target(x) = v
    OBVIOUS
  <2>1. Ctx \in SUBSET Int /\ IsFiniteSet(Ctx) /\ Cardinality(Ctx) \in Nat
    BY RvConstants, FS_CardinalityType
  <2>2. \E i \in 1..Cardinality(Ctx) : Nth(Ctx, i) = v
    BY <2>1, NthOnto
  <2>3. PICK i \in 1..Cardinality(Ctx) : Nth(Ctx, i) = v
    BY <2>2
  <2>4. Len(f) = Cardinality(Ctx)
    BY <1>5, <1>6, <2>1
  <2>5. f[i] \in Els(f)
    BY <2>4 DEF Els
  <2> QED
    BY <1>4, <2>3, <2>5 DEF Target, FindOps
<1>9. Well(f) /\ Pushed(p, f)
  BY <1>0, <1>2, <1>6, <1>7, WellChain, DoPushes
<1>10. Well(todo'[p])
  BY <1>0, <1>7, <1>9, WellPushed
<1>11. Els(todo'[p]) = Els(f) \cup Els(Tail(todo[p])) /\ Els(todo[p]) = {Now(p)} \cup Els(Tail(todo[p]))
  BY <1>0, <1>9, PushedEls
<1>12. ASSUME ~raced' PROVE Levelled'
  <2>0. Levelled /\ Everyone \subseteq Vcpu
    BY <1>12, RaceMeans, EveryoneVcpu
  <2>1. \A x \in Els(Tail(todo[p])) : ~Sets(x) /\ x.op \notin HeavyOps
    BY <1>1, LoudIs DEF Quiet
  <2>2. Now(p).op \notin InputOps \cup LineOps /\ \A x \in Els(f) : x.op \notin InputOps \cup LineOps /\ x.op # "find_ready"
    BY <1>0, <1>7 DEF InputOps, LineOps
  <2>3. \A x : x.op \in InputOps \cup LineOps => (x \in Els(todo'[p]) <=> x \in Els(todo[p]))
    BY <1>11, <2>2
  <2>4. \A x \in Els(todo'[p]) : Sets(x) => x \in Els(f)
    BY <1>11, <2>1
  <2>5. \A x \in Els(todo[p]) : ~Sets(x)
    BY <1>1, <1>11, <2>1
  <2>6. \A v \in Ctx : \E y \in Els(todo'[p]) : Sets(y) /\ Target(y) = v
    BY <1>7, <1>8, <1>11
  <2>7. \A v \in Everyone : "ext" \in virq'[v] <=> "ext" \in virq[v]
    BY <1>0
  <2>8. \A x \in Els(todo'[p]) : Sets(x) => /\ Level(x) = "ext_on" <=> HasDeliverable(plic, Target(x))
                                            /\ x.op # "find_ready"
    BY <1>7, <2>2, <2>4
  <2> QED
    BY <1>0, <1>12, <2>0, <2>3, <2>5, <2>6, <2>7, <2>8, LightKept
<1> QED
  BY <1>10, <1>12 DEF Fine

(* What a step of a device leaves of a trap, and what it found.             *)
LEMMA DevicePushed ==
    ASSUME TypeInv, NEW p \in Cpu, Well(todo[p]), NEW a \in Seq(StepRec), Well(a),
           \A x \in Els(a) : ~Sets(x),
           \/ todo[p] # <<>> /\ Now(p).op \notin ChainOps \cup {"tx_clear"} /\ Do(p, a)
           \/ Trap(p, a)
    PROVE  /\ Well(todo'[p]) /\ Els(a) \subseteq Els(todo'[p])
           /\ \A x \in Els(todo'[p]) : x \in Els(a) \/ ~Loud(x)
           /\ \A x \in Els(todo[p]) : x = Now(p) \/ ~Loud(x)
           /\ \A x : Sets(x) => x \notin Els(todo'[p]) /\ x \notin Els(todo[p])
           /\ todo[p] = <<>> => Els(todo[p]) = {}
<1>0. TodoOK /\ todo[p] \in Seq(StepRec)
  BY TypeParts DEF TodoOK
<1>1. Pushed(p, a)
  BY <1>0, DoPushes
<1>2. todo[p] # <<>> => Now(p).op \notin ChainOps \cup {"tx_clear"}
  BY DEF Trap
<1>3. Well(todo'[p])
  BY <1>0, <1>1, <1>2, WellPushed
<1>4. CASE todo[p] = <<>>
  <2>1. Els(todo[p]) = {} /\ Els(todo'[p]) = Els(a)
    BY <1>0, <1>1, <1>4, PushedEls
  <2> QED
    BY <1>3, <2>1
<1>5. CASE todo[p] # <<>>
  <2>1. Els(todo[p]) = {Now(p)} \cup Els(Tail(todo[p])) /\ Els(todo'[p]) = Els(a) \cup Els(Tail(todo[p]))
    BY <1>0, <1>1, <1>5, PushedEls
  <2>2. Quiet(Tail(todo[p]))
    BY <1>0, <1>2, <1>5, WellHead DEF Now
  <2>3. \A x \in Els(Tail(todo[p])) : ~Loud(x) /\ ~Sets(x)
    BY <2>2, LoudIs DEF Quiet
  <2>4. ~Sets(Now(p))
    BY <1>2, <1>5 DEF Sets, ChainOps
  <2> QED
    BY <1>3, <1>5, <2>1, <2>3, <2>4
<1> QED
  BY <1>4, <1>5

(* A step of a device that calls for another.                               *)
LEMMA DeviceFine ==
    ASSUME TypeInv, PlaceInv, NEW p \in Cpu, Act(p), ~Refresh(p), Well(todo[p]), ~raced => Levelled,
           NEW a \in Seq(StepRec), Well(a), virq' = virq,
           \A x \in Els(a) : ~Sets(x), \E x \in Els(a) : x.op \in HeavyOps,
           \/ todo[p] # <<>> /\ Now(p).op \notin ChainOps \cup {"tx_clear"} /\ Do(p, a)
           \/ Trap(p, a),
           /\ Levelled
           /\ \A q \in Cpu : \A x \in Els(todo[q]) :
                 x.op \in HeavyOps => q = p /\ x = Now(p) /\ todo[p] # <<>>
           => /\ (\E x \in Els(a) : x.op \in InputOps) \/ uart'.iir = Source(uart')
              /\ \/ \E x \in Els(a) : x.op \in InputOps \cup LineOps
                 \/ Source(uart') # "none" \/ GuestUartIrq \notin plic'.pending
              /\ (\E x \in Els(a) : x.op = "raise") => Source(uart') # "none"
    PROVE  Fine(p)
<1>1. /\ Well(todo'[p]) /\ Els(a) \subseteq Els(todo'[p])
      /\ \A x \in Els(todo'[p]) : x \in Els(a) \/ ~Loud(x)
      /\ \A x \in Els(todo[p]) : x = Now(p) \/ ~Loud(x)
      /\ \A x : Sets(x) => x \notin Els(todo'[p]) /\ x \notin Els(todo[p])
      /\ todo[p] = <<>> => Els(todo[p]) = {}
  BY DevicePushed
<1>2. ASSUME ~raced' PROVE Levelled'
  <2>0. Levelled
    BY <1>2, RaceMeans
  <2>1. ~Quiet(todo'[p])
    BY <1>1, LoudIs DEF Quiet
  <2>2. \A q \in Cpu \ {p} : Quiet(todo[q])
    BY <1>2, <2>1, RaceMeans
  <2>3. \A q \in Cpu : \A x \in Els(todo[q]) : x.op \in HeavyOps => q = p /\ x = Now(p) /\ todo[p] # <<>>
    BY <1>1, <2>2, LoudIs DEF Quiet
  <2>4. /\ (\E x \in Els(a) : x.op \in InputOps) \/ uart'.iir = Source(uart')
        /\ \/ \E x \in Els(a) : x.op \in InputOps \cup LineOps
           \/ Source(uart') # "none" \/ GuestUartIrq \notin plic'.pending
        /\ (\E x \in Els(a) : x.op = "raise") => Source(uart') # "none"
    BY <2>0, <2>3
  <2>5. \E x \in Els(todo'[p]) : x.op \in HeavyOps
    BY <1>1
  <2>6. \A x : Sets(x) => (x \in Els(todo'[p]) <=> x \in Els(todo[p]))
    BY <1>1
  <2>7. \A x \in Els(todo'[p]) : ~Sets(x)
    BY <1>1
  <2>8. (\E x \in Els(todo'[p]) : x.op \in InputOps) \/ uart'.iir = Source(uart')
    BY <1>1, <2>4
  <2>9. \/ \E x \in Els(todo'[p]) : x.op \in InputOps \cup LineOps
        \/ Source(uart') # "none" \/ GuestUartIrq \notin plic'.pending
    BY <1>1, <2>4
  <2>10. (\E x \in Els(todo'[p]) : x.op = "raise") => Source(uart') # "none"
    <3>1. \A x : x.op = "raise" => Loud(x)
      BY DEF Loud, LevelOps
    <3> QED
      BY <1>1, <2>4, <3>1
  <2> QED
    BY <1>2, <2>0, <2>5, <2>6, <2>7, <2>8, <2>9, <2>10, HeavyKept
<1> QED
  BY <1>1, <1>2 DEF Fine

(* A step of a device that leaves the levels as they are.                   *)
LEMMA DeviceQuiet ==
    ASSUME TypeInv, PlaceInv, NEW p \in Cpu, Act(p), ~Refresh(p), Well(todo[p]), ~raced => Levelled,
           plic' = plic, virq' = virq, Source(uart') = Source(uart), uart'.iir = uart.iir,
           (At(p, "service") /\ Do(p, <<>>)) \/ Trap(p, <<>>)
    PROVE  Fine(p)
<1>0. TodoOK /\ <<>> \in Seq(StepRec) /\ \A x \in Els(<<>>) : FALSE
  BY TypeParts, ElsLiteral
<1>1. Silent(p)
  <2>1. CASE At(p, "service") /\ Do(p, <<>>)
    <3>1. "service" \notin LevelOps \cup FindOps
      BY DEF LevelOps, FindOps
    <3> QED
      BY <1>0, <2>1, <3>1, SilentDo
  <2>2. CASE Trap(p, <<>>)
    BY <1>0, <2>2, SilentTrap
  <2> QED
    BY <2>1, <2>2
<1>2. /\ Well(todo'[p])
      /\ \A x : Loud(x) => (x \in Els(todo'[p]) <=> x \in Els(todo[p]))
  BY <1>0, <1>1, SilentKeeps
<1>3. ASSUME ~raced' PROVE Levelled'
  <2>1. ~raced
    BY <1>3, RaceMeans
  <2>2. \A v \in Vcpu : "ext" \in virq'[v] <=> "ext" \in virq[v]
    OBVIOUS
  <2> QED
    BY <1>2, <1>3, <2>1, <2>2, QuietKept
<1> QED
  BY <1>2, <1>3 DEF Fine

(* The steps the devices' functions push.                                   *)
LEMMA DeviceSteps ==
    /\ \A op \in {"levels", "raise", "lower", "update_irq"} :
          /\ <<Step(op)>> \in Seq(StepRec) /\ Els(<<Step(op)>>) = {Step(op)} /\ Step(op).op = op
          /\ Well(<<Step(op)>>) /\ ~Sets(Step(op)) /\ Step(op).op \in HeavyOps
    /\ LET a == <<Step("update_irq"), Step("service")>> IN
          /\ a \in Seq(StepRec) /\ Els(a) = {Step("update_irq"), Step("service")} /\ Well(a)
          /\ \A x \in Els(a) : ~Sets(x) /\ x.op # "raise"
    /\ LET a == <<Step("tx_clear"), Step("update_irq")>> IN
          /\ a \in Seq(StepRec) /\ Els(a) = {Step("tx_clear"), Step("update_irq")} /\ Well(a)
          /\ \A x \in Els(a) : ~Sets(x) /\ x.op # "raise"
<1>1. \A op \in {"levels", "raise", "lower", "update_irq", "tx_clear", "service"} :
          Step(op) \in StepRec /\ Step(op).op = op
  BY MakeRec DEF BareOps
<1>2. \A op \in {"levels", "raise", "lower", "update_irq", "tx_clear", "service"} : ~Sets(Step(op))
  BY <1>1 DEF Sets, ExtOps, FindOps
<1>3. ASSUME NEW op \in {"levels", "raise", "lower", "update_irq"}
      PROVE  /\ <<Step(op)>> \in Seq(StepRec) /\ Els(<<Step(op)>>) = {Step(op)} /\ Step(op).op = op
             /\ Well(<<Step(op)>>) /\ ~Sets(Step(op)) /\ Step(op).op \in HeavyOps
  <2>1. <<Step(op)>> \in Seq(StepRec) /\ Els(<<Step(op)>>) = {Step(op)} /\ Step(op).op = op /\ ~Sets(Step(op))
    BY <1>1, <1>2, ElsLiteral
  <2>2. Well(<<Step(op)>>)
    <3>1. Step(op).op \notin {"tx_clear", "publish"}
      BY <2>1
    <3> QED
      BY <3>1, WellOne
  <2> QED
    BY <2>1, <2>2 DEF HeavyOps, InputOps, LineOps
<1>4. ASSUME NEW x \in StepRec, NEW y \in StepRec, <<x.op, y.op>> \in {<<"update_irq", "service">>, <<"tx_clear", "update_irq">>}
      PROVE  <<x, y>> \in Seq(StepRec) /\ Els(<<x, y>>) = {x, y} /\ Well(<<x, y>>)
  <2> DEFINE a == <<x, y>>
  <2>1. a \in Seq(StepRec) /\ Els(a) = {x, y} /\ Len(a) = 2 /\ a[1] = x /\ a[2] = y
    BY ElsLiteral
  <2> HIDE DEF a
  <2>2. Well(a)
    <3>1. \A i \in 1..Len(a) : i = 1 \/ i = 2
      BY <2>1
    <3>2. x.op \in {"update_irq", "tx_clear"} /\ y.op \in {"service", "update_irq"} /\ (x.op = "tx_clear" => y.op = "update_irq")
          /\ (x.op = "update_irq" => y.op = "service")
      BY <1>4
    <3>3. x.op = "update_irq" => ~Loud(y)
      BY <3>2 DEF Loud, LevelOps, FindOps
    <3>4. \A j \in 1..(2 - 1) : j = 1
      OBVIOUS
    <3>5. \A j \in 1..(1 - 1) : FALSE
      OBVIOUS
    <3>6. Loud(a[1]) => \A j \in 1..(1 - 1) : a[j].op \in ChainOps \cup {"tx_clear"}
      BY <3>5
    <3>7. Loud(a[2]) => \A j \in 1..(2 - 1) : a[j].op \in ChainOps \cup {"tx_clear"}
      BY <2>1, <3>2, <3>3, <3>4
    <3>8. a[1].op = "tx_clear" => 1 + 1 <= Len(a) /\ a[1 + 1].op = "update_irq"
      BY <2>1, <3>2
    <3>9. a[2].op # "tx_clear" /\ a[1].op # "publish" /\ a[2].op # "publish"
      BY <2>1, <3>2
    <3> QED
      BY <3>1, <3>6, <3>7, <3>8, <3>9 DEF Well
  <2> QED
    BY <2>1, <2>2 DEF a
<1> QED
  BY <1>1, <1>2, <1>3, <1>4

(* riscv_vplic_raise, riscv_vplic_clear and ns16550a_update_irq             *)
LEMMA FineLine ==
    ASSUME TypeInv, PlaceInv, NEW p \in Cpu, UartLine(p) \/ UpdateIrq(p), Act(p), Well(todo[p]), ~raced => Levelled
    PROVE  Fine(p)
<1>0. /\ todo[p] # <<>> /\ Now(p).op \in {"raise", "lower", "update_irq"} /\ Now(p).op \notin ChainOps \cup {"tx_clear"}
      /\ ~Refresh(p) /\ virq' = virq /\ TodoOK
  BY TypeParts DEF UartLine, UpdateIrq, At, Now, ChainOps, ExtOps, FindOps, Refresh, irqVars
<1>1. Now(p) \in Els(todo[p])
  BY <1>0, NowType
<1>2. CASE UartLine(p)
  <2> DEFINE a == <<Step("levels")>>
  <2>1. /\ Do(p, a) /\ uart' = uart /\ Now(p).op \in LineOps
        /\ plic' = IF Now(p).op = "raise" THEN Raise(plic, GuestUartIrq) ELSE Lower(plic, GuestUartIrq)
    BY <1>2 DEF UartLine, At, Now, LineOps
  <2>2. a \in Seq(StepRec) /\ Well(a) /\ \A x \in Els(a) : ~Sets(x) /\ x.op = "levels" /\ x.op \in HeavyOps
    BY DeviceSteps
  <2>3. \E x \in Els(a) : x.op \in HeavyOps
    BY DeviceSteps
  <2> HIDE DEF a
  <2>4. ASSUME Levelled, \A q \in Cpu : \A x \in Els(todo[q]) : x.op \in HeavyOps => q = p /\ x = Now(p) /\ todo[p] # <<>>
        PROVE  /\ uart'.iir = Source(uart')
               /\ Source(uart') # "none" \/ GuestUartIrq \notin plic'.pending
    <3>1. ~Ahead(InputOps)
      BY <2>1, <2>4 DEF Ahead, HeavyOps, InputOps, LineOps
    <3>2. uart.iir = Source(uart)
      BY <2>4, <3>1 DEF Levelled, UartRight
    <3>3. CASE Now(p).op = "raise"
      <4>1. Ahead({"raise"})
        BY <1>1, <3>3 DEF Ahead
      <4> QED
        BY <2>1, <2>4, <3>2, <4>1 DEF Levelled, LineRight
    <3>4. CASE Now(p).op # "raise"
      <4>1. GuestUartIrq \notin plic'.pending
        BY <2>1, <3>4, RvAssumption DEF Lower, TypeInv, Plics
      <4> QED
        BY <2>1, <3>2, <4>1
    <3> QED
      BY <3>3, <3>4
  <2>5. ~\E x \in Els(a) : x.op = "raise"
    BY <2>2
  <2> QED
    BY <1>0, <2>1, <2>2, <2>3, <2>4, <2>5, DeviceFine
<1>3. CASE UpdateIrq(p)
  <2> DEFINE op == IF Source(uart) = "none" THEN "lower" ELSE "raise"
             a == <<Step(op)>>
  <2>1. Do(p, a) /\ uart' = UpdateIir(uart)
    BY <1>3 DEF UpdateIrq
  <2>2. Source(uart') = Source(uart) /\ uart'.iir = Source(uart')
    BY <2>1 DEF UpdateIir, Source, TypeInv, Uarts
  <2>3. op \in {"lower", "raise"} /\ (op = "raise" => Source(uart) # "none")
    OBVIOUS
  <2> HIDE DEF op
  <2>4. a \in Seq(StepRec) /\ Well(a) /\ (\A x \in Els(a) : ~Sets(x) /\ x.op = op) /\ Step(op) \in Els(a) /\ Step(op).op = op
    BY <2>3, DeviceSteps
  <2>5. op \in HeavyOps /\ op \in LineOps
    BY <2>3 DEF HeavyOps, LineOps
  <2> HIDE DEF a
  <2>6. \E x \in Els(a) : x.op \in HeavyOps /\ x.op \in InputOps \cup LineOps
    BY <2>4, <2>5
  <2>7. (\E x \in Els(a) : x.op = "raise") => Source(uart') # "none"
    BY <2>2, <2>3, <2>4
  <2>8. (\A x \in Els(a) : ~Sets(x)) /\ (\E x \in Els(a) : x.op \in HeavyOps) /\ (\E x \in Els(a) : x.op \in InputOps \cup LineOps)
    BY <2>4, <2>6
  <2> QED
    BY <1>0, <2>1, <2>2, <2>4, <2>7, <2>8, DeviceFine
<1> QED
  BY <1>2, <1>3

(* uart_emul_service_host, and the accesses that end in ns16550a_update_irq *)
LEMMA FineInput ==
    ASSUME TypeInv, PlaceInv, NEW p \in Cpu, Service(p) \/ UartLoad(p) \/ UartStore(p), Act(p),
           Well(todo[p]), ~raced => Levelled
    PROVE  Fine(p)
<1>0. /\ ~Refresh(p) /\ virq' = virq /\ plic' = plic
      /\ todo[p] # <<>> => Now(p).op = "service" /\ Now(p).op \notin ChainOps \cup {"tx_clear"} /\ At(p, "service")
  BY DEF Service, UartLoad, UartStore, Trap, At, Now, ChainOps, ExtOps, FindOps, Refresh, irqVars
<1>1. ASSUME NEW a, a \in {<<Step("update_irq")>>, <<Step("update_irq"), Step("service")>>, <<Step("tx_clear"), Step("update_irq")>>},
             (todo[p] # <<>> /\ Do(p, a)) \/ Trap(p, a)
      PROVE  Fine(p)
  <2>1. /\ a \in Seq(StepRec) /\ Well(a) /\ (\A x \in Els(a) : ~Sets(x) /\ x.op # "raise")
        /\ Step("update_irq") \in Els(a) /\ Step("update_irq").op = "update_irq"
    BY <1>1, DeviceSteps
  <2>2. "update_irq" \in HeavyOps /\ "update_irq" \in InputOps
    BY DEF HeavyOps, InputOps
  <2>3. (\A x \in Els(a) : ~Sets(x)) /\ (\E x \in Els(a) : x.op \in HeavyOps) /\ (\E x \in Els(a) : x.op \in InputOps)
        /\ (\E x \in Els(a) : x.op \in InputOps \cup LineOps) /\ ~\E x \in Els(a) : x.op = "raise"
    BY <2>1, <2>2
  <2>4. (todo[p] # <<>> /\ Now(p).op \notin ChainOps \cup {"tx_clear"} /\ Do(p, a)) \/ Trap(p, a)
    BY <1>0, <1>1
  <2> QED
    BY <1>0, <2>1, <2>3, <2>4, DeviceFine
<1>2. ASSUME Source(uart') = Source(uart), uart'.iir = uart.iir, (At(p, "service") /\ Do(p, <<>>)) \/ Trap(p, <<>>)
      PROVE  Fine(p)
  BY <1>0, <1>2, DeviceQuiet
<1>3. /\ <<Step("update_irq")>> \o <<>> = <<Step("update_irq")>>
      /\ <<>> \o <<Step("update_irq")>> = <<Step("update_irq")>> /\ <<>> \o <<>> = <<>>
      /\ <<Step("update_irq")>> \o <<Step("service")>> = <<Step("update_irq"), Step("service")>>
      /\ <<Step("tx_clear")>> \o <<Step("update_irq")>> = <<Step("tx_clear"), Step("update_irq")>>
  <2>1. \A x : <<x>> \o <<>> = <<x>> /\ <<>> \o <<x>> = <<x>>
    OBVIOUS
  <2>2. ASSUME NEW x, NEW y PROVE <<x>> \o <<y>> = <<x, y>>
    <3> DEFINE S == {x, y}
    <3>1. <<x>> \in Seq(S) /\ <<y>> \in Seq(S) /\ <<x, y>> \in Seq(S)
      OBVIOUS
    <3>2. /\ Len(<<x>>) = 1 /\ Len(<<y>>) = 1 /\ Len(<<x, y>>) = 2
          /\ <<x>>[1] = x /\ <<y>>[1] = y /\ <<x, y>>[1] = x /\ <<x, y>>[2] = y
      OBVIOUS
    <3>3. <<x>> \o <<y>> \in Seq(S) /\ Len(<<x>> \o <<y>>) = 2
          /\ (<<x>> \o <<y>>)[1] = x /\ (<<x>> \o <<y>>)[2] = y
      BY <3>1, <3>2, ConcatProperties
    <3> DEFINE c == <<x>> \o <<y>>
               d == <<x, y>>
    <3>4. /\ c \in Seq(S) /\ d \in Seq(S) /\ Len(c) = 2 /\ Len(d) = 2
          /\ c[1] = d[1] /\ c[2] = d[2]
      BY <3>1, <3>2, <3>3
    <3> HIDE DEF c, d, S
    <3>5. \A i \in 1..Len(c) : i = 1 \/ i = 2
      BY <3>4
    <3>6. c = d
      BY <3>4, <3>5, SeqEqual
    <3> QED
      BY <3>6 DEF c, d
  <2>3. <<>> \o <<>> = <<>>
    OBVIOUS
  <2> QED
    BY <2>1, <2>2, <2>3, Zenon
<1>4. CASE Service(p)
  <2>1. CASE hostRx = 0
    BY <1>2, <1>4, <2>1 DEF Service
  <2>2. CASE hostRx # 0
    <3>1. At(p, "service") /\ Do(p, <<Step("update_irq")>> \o IF RxFull(uart) THEN <<>> ELSE <<Step("service")>>)
      BY <1>4, <2>2 DEF Service
    <3>2. Do(p, <<Step("update_irq")>>) \/ Do(p, <<Step("update_irq"), Step("service")>>)
      BY <1>3, <3>1
    <3> QED
      BY <1>1, <3>1, <3>2 DEF At
  <2> QED
    BY <2>1, <2>2
<1>5. CASE UartLoad(p)
  <2>1. PICK reg \in {"RBR", "IIR", "LSR"} :
          /\ Trap(p, (IF reg = "IIR" /\ uart.iir = "THRI" THEN <<Step("tx_clear")>> ELSE <<>>)
                     \o IF UpdatesAfterRead(uart, reg) THEN <<Step("update_irq")>> ELSE <<>>)
          /\ uart' = UartRead(uart, reg)
    BY <1>5 DEF UartLoad
  <2>2. CASE UpdatesAfterRead(uart, reg)
    <3>1. Trap(p, <<Step("tx_clear"), Step("update_irq")>>) \/ Trap(p, <<Step("update_irq")>>)
      BY <1>3, <2>1, <2>2
    <3> QED
      BY <1>1, <3>1
  <2>3. CASE ~UpdatesAfterRead(uart, reg)
    <3>1. reg # "IIR" /\ uart' = uart
      BY <2>1, <2>3 DEF UpdatesAfterRead, UartRead
    <3>2. Trap(p, <<>>)
      BY <1>3, <2>1, <2>3, <3>1
    <3> QED
      BY <1>2, <3>1, <3>2
  <2> QED
    BY <2>2, <2>3
<1>6. CASE UartStore(p)
  <2>1. PICK w \in UartStores :
          /\ Trap(p, IF UpdatesAfterWrite(uart, w[1]) THEN <<Step("update_irq")>> ELSE <<>>)
          /\ uart' = UartWrite(uart, w[1], w[2])
    BY <1>6 DEF UartStore
  <2>2. CASE UpdatesAfterWrite(uart, w[1])
    BY <1>1, <2>1, <2>2
  <2>3. CASE ~UpdatesAfterWrite(uart, w[1])
    <3>1. w[1] \in {"THR", "IER", "FCR", "LCR"}
      BY DEF UartStores
    <3>2. uart' = uart \/ uart' = [uart EXCEPT !.dlab = "DLAB" \in w[2]]
      BY <2>1, <2>3, <3>1 DEF UpdatesAfterWrite, UartWrite
    <3>3. Source(uart') = Source(uart) /\ uart'.iir = uart.iir
      BY <3>2 DEF Source, TypeInv, Uarts
    <3> QED
      BY <1>2, <2>1, <2>3, <3>3
  <2> QED
    BY <2>2, <2>3
<1> QED
  BY <1>4, <1>5, <1>6

(* The second half of a read of IIR: ns16550a_update_irq is next.           *)
LEMMA FineTx ==
    ASSUME TypeInv, PlaceInv, NEW p \in Cpu, IirTx(p), Act(p), Well(todo[p]), ~raced => Levelled
    PROVE  Fine(p)
<1>0. /\ todo[p] # <<>> /\ Now(p).op = "tx_clear" /\ Do(p, <<>>) /\ virq' = virq /\ plic' = plic /\ ~Refresh(p)
      /\ TodoOK /\ todo[p] \in Seq(StepRec)
  BY TypeParts DEF TodoOK, IirTx, At, Now, Refresh, irqVars
<1> DEFINE t == Tail(todo[p])
<1>1. todo'[p] = t
  BY <1>0, Pop
<1>2. t # <<>> /\ Head(t).op = "update_irq" /\ Well(t) /\ t \in Seq(StepRec) /\ Els(todo[p]) = {Now(p)} \cup Els(t)
  BY <1>0, WellHead, WellTail, NowType DEF Now
<1> HIDE DEF t
<1>3. Quiet(Tail(t)) /\ Els(t) = {Head(t)} \cup Els(Tail(t))
  <2>1. Head(t).op \notin ChainOps \cup {"tx_clear"}
    BY <1>2 DEF ChainOps, FindOps, ExtOps
  <2> QED
    BY <1>2, <2>1, WellHead, ElsTail
<1>4. \A x \in Els(Tail(t)) : ~Sets(x) /\ x.op # "raise"
  BY <1>3, LoudIs DEF Quiet, Loud, LevelOps
<1>5. ~Sets(Head(t)) /\ ~Sets(Now(p)) /\ Head(t).op \in HeavyOps /\ Head(t).op \in InputOps /\ Head(t).op # "raise"
  BY <1>0, <1>2 DEF Sets, ExtOps, FindOps, HeavyOps, InputOps
<1>6. ASSUME ~raced' PROVE Levelled'
  <2>0. Levelled
    BY <1>6, RaceMeans
  <2>1. \A x : Sets(x) => (x \in Els(todo'[p]) <=> x \in Els(todo[p]))
    BY <1>1, <1>2, <1>3, <1>4, <1>5
  <2>2. /\ \E x \in Els(todo'[p]) : x.op \in HeavyOps
        /\ \E x \in Els(todo'[p]) : x.op \in InputOps
        /\ \E x \in Els(todo'[p]) : x.op \in InputOps \cup LineOps
        /\ ~\E x \in Els(todo'[p]) : x.op = "raise"
    BY <1>1, <1>3, <1>4, <1>5
  <2> QED
    BY <1>0, <1>6, <2>0, <2>1, <2>2, HeavyKept
<1> QED
  BY <1>1, <1>2, <1>6 DEF Fine

(* vplic_read and vplic_write, then vplic_update_all_vseip                  *)
LEMMA FinePlic ==
    ASSUME TypeInv, PlaceInv, NEW p \in Cpu, PlicLoad(p) \/ PlicStore(p), Act(p), Well(todo[p]), ~raced => Levelled
    PROVE  Fine(p)
<1> DEFINE a == <<Step("levels")>>
<1>0. /\ Trap(p, a) /\ todo[p] = <<>> /\ virq' = virq /\ uart' = uart /\ ~Refresh(p)
  BY DEF PlicLoad, PlicStore, Trap, At, Refresh, irqVars
<1>1. plic'.pending \subseteq plic.pending
  <2>0. plic \in Plics
    BY DEF TypeInv
  <2>1. \A i : Lower(plic, i).pending \subseteq plic.pending
    BY <2>0 DEF Lower, Plics
  <2>2. CASE PlicLoad(p)
    BY <2>1, <2>2 DEF PlicLoad, PlicRead, Claim
  <2>3. CASE PlicStore(p)
    <3>1. PICK w \in PlicStores(cur[p]) : plic' = PlicWrite(plic, w)
      BY <2>3 DEF PlicStore
    <3>2. plic'.pending = plic.pending
      BY <2>0, <3>1 DEF PlicWrite, Plics
    <3> QED
      BY <3>2
  <2> QED
    BY <2>2, <2>3
<1>2. a \in Seq(StepRec) /\ Well(a) /\ \A x \in Els(a) : ~Sets(x) /\ x.op = "levels"
  BY DeviceSteps
<1>3. \E x \in Els(a) : x.op \in HeavyOps
  BY DeviceSteps
<1> HIDE DEF a
<1>4. ASSUME Levelled, \A q \in Cpu : \A x \in Els(todo[q]) : x.op \in HeavyOps => q = p /\ x = Now(p) /\ todo[p] # <<>>
      PROVE  /\ uart'.iir = Source(uart')
             /\ Source(uart') # "none" \/ GuestUartIrq \notin plic'.pending
  <2>1. ~Ahead(InputOps) /\ ~Ahead(InputOps \cup LineOps)
    BY <1>0, <1>4 DEF Ahead, HeavyOps
  <2> QED
    BY <1>0, <1>1, <1>4, <2>1 DEF Levelled, UartRight, LineRight
<1>5. (\A x \in Els(a) : ~Sets(x)) /\ ~\E x \in Els(a) : x.op = "raise"
  BY <1>2
<1> QED
  BY <1>0, <1>2, <1>3, <1>4, <1>5, DeviceFine

(* LevelInv is kept by every step.                                          *)
LEMMA LevelStep ==
    ASSUME TypeInv, PlaceInv, LevelInv, [RvNext]_vars
    PROVE  LevelInv'
<1>1. ASSUME UNCHANGED <<ready, todo, cur, virq, plic, uart, raced>> PROVE LevelInv'
  <2>1. Renewing' = Renewing /\ Listed' = Listed /\ Everyone' = Everyone
    BY <1>1 DEF Renewing, Incoming, Listed, Everyone
  <2> QED
    BY <1>1, <2>1 DEF LevelInv, Levelled, UartRight, LineRight, StepsRight, ExtRight, FindRight, Ahead, Right
<1>2. ASSUME NEW p \in Cpu, Act(p) PROVE LevelInv'
  <2>1. CASE Compute(p)
    BY <1>1, <2>1 DEF Compute, Guest, schedVars, irqVars, devVars
  <2>2. CASE ~Compute(p)
    <3>0. Well(todo[p]) /\ (~raced => Levelled)
      BY DEF LevelInv
    <3>1. Fine(p)
      <4>1. CASE SilentAction(p)
        BY <3>0, <4>1, FineSilent
      <4>2. CASE FindRunning(p) \/ FindReady(p)
        BY <1>2, <3>0, <4>2, FineFind
      <4>3. CASE Inject(p) \/ Retract(p)
        BY <1>2, <3>0, <4>3, FineSet
      <4>4. CASE Refresh(p)
        BY <1>2, <3>0, <4>4, FineRefresh
      <4>5. CASE Levels(p)
        BY <1>2, <3>0, <4>5, FineLevels
      <4>6. CASE UartLine(p) \/ UpdateIrq(p)
        BY <1>2, <3>0, <4>6, FineLine
      <4>7. CASE Service(p) \/ UartLoad(p) \/ UartStore(p)
        BY <1>2, <3>0, <4>7, FineInput
      <4>8. CASE IirTx(p)
        BY <1>2, <3>0, <4>8, FineTx
      <4>9. CASE PlicLoad(p) \/ PlicStore(p)
        BY <1>2, <3>0, <4>9, FinePlic
      <4> QED
        BY <1>2, <2>2, <4>1, <4>2, <4>3, <4>4, <4>5, <4>6, <4>7, <4>8, <4>9
        DEF Act, Continue, GuestStep, SilentAction, SyncAction
    <3>2. \A q \in Cpu \ {p} : todo'[q] = todo[q]
      BY <1>2, <2>2, TailKept
    <3>3. \A q \in Cpu : Well(todo'[q])
      BY <3>1, <3>2 DEF Fine, LevelInv
    <3> QED
      BY <3>1, <3>3 DEF Fine, LevelInv
  <2> QED
    BY <2>1, <2>2
<1>3. ASSUME NEW v \in Vcpu, Expire(v) PROVE LevelInv'
  BY <1>1, <1>3 DEF Expire, schedVars, devVars
<1>4. CASE UNCHANGED vars
  BY <1>1, <1>4 DEF vars, schedVars, irqVars, devVars
<1> QED
  BY <1>2, <1>3, <1>4 DEF RvNext, Act

(* It holds when boot ends.                                                 *)
LEMMA LevelBegins == ASSUME RvInit PROVE LevelInv
<1>0. /\ \A p \in Cpu : todo[p] = <<>>
      /\ \A v \in Vcpu : virq[v] = {}
      /\ plic = PlicRegisterEmul /\ uart = UartRegisterEmul
  BY DEF RvInit
<1>1. (\A p \in Cpu : Els(todo[p]) = {}) /\ (\A p \in Cpu : Well(todo[p]))
  BY <1>0, ElsLiteral DEF Well
<1>2. plic.pending = {} /\ uart.iir = "none" /\ Source(uart) = "none" /\ \A v : ~HasDeliverable(plic, v)
  BY <1>0 DEF PlicRegisterEmul, UartRegisterEmul, Source, HasDeliverable, Deliverable
<1>3. Everyone \subseteq Vcpu
  BY TypeInit, EveryoneVcpu
<1>4. \A v \in Everyone : Right(v)
  BY <1>0, <1>2, <1>3 DEF Right
<1>5. UartRight /\ LineRight /\ StepsRight /\ ExtRight /\ FindRight
  BY <1>1, <1>2, <1>4 DEF UartRight, LineRight, StepsRight, ExtRight, FindRight, Ahead
<1> QED
  BY <1>1, <1>5 DEF LevelInv, Levelled

(* With no trap under way it is LevelSettled.                               *)
LEMMA LevelMeans == ASSUME TypeInv, PlaceInv, LevelInv PROVE LevelSettled
<1> SUFFICES ASSUME \A p \in Cpu : todo[p] = <<>>, ~raced
             PROVE  /\ \A v \in Vcpu : (v \in Listed \/ \E p \in Cpu : cur[p] = v) => Right(v)
                    /\ uart.iir = Source(uart)
                    /\ Source(uart) = "none" => GuestUartIrq \notin plic.pending
  BY DEF LevelSettled, Right
<1>1. \A p \in Cpu : Els(todo[p]) = {} /\ ~Renews(todo[p]) /\ Incoming(p) = {}
  BY ElsLiteral, IncomingIs DEF Renews, Coming
<1>2. Levelled /\ Renewing = {} /\ \A S : ~Ahead(S)
  BY <1>1 DEF LevelInv, Renewing, Ahead
<1>3. ASSUME NEW v \in Vcpu, v \in Listed \/ \E p \in Cpu : cur[p] = v PROVE Right(v)
  <2>1. v \in Everyone
    BY <1>3, EveryoneIs, RvConstants
  <2> QED
    BY <1>1, <1>2, <2>1 DEF Levelled, ExtRight
<1> QED
  BY <1>2, <1>3 DEF Levelled, UartRight, LineRight

(* Outside traps VSEIP, IIR and the UART's line are what the devices say,   *)
(* unless two pCPUs ever updated them at once: nothing else leaves a level  *)
(* stale.                                                                   *)
THEOREM LevelsSettle == RvSpec => []LevelSettled
<1>1. RvInit => LevelInv
  BY LevelBegins
<1>2. TypeInv /\ PlaceInv /\ LevelInv /\ [RvNext]_vars => LevelInv'
  BY LevelStep
<1>3. TypeInv /\ PlaceInv /\ LevelInv => LevelSettled
  BY LevelMeans
<1> QED
  BY <1>1, <1>2, <1>3, RvInductive, PTL DEF RvSpec
=============================================================================
