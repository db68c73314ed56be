----------------------------- MODULE UartProofs -----------------------------
(***************************************************************************)
(* The emulated PL011, for any number of pCPUs (two for the latch), any     *)
(* FIFO size and number of characters: its interrupt latch, its ring, and   *)
(* that no character is lost in it or delivered twice.                      *)
(***************************************************************************)
EXTENDS Uart, SequenceTheorems, FiniteSetTheorems, TLAPS

PcLabels == {"out", "flag", "data", "push", "update", "update_guest",
             "inject", "inject_guest", "publish", "requeue"}

(* What uart_emul_target_task relies on.  The search misses vCPU0's task    *)
(* only while pCPU0 is in sched_yield; before vCPU0 has run nothing is      *)
(* unmasked; and pCPU0 has a second task, to which it switches, only when   *)
(* another pCPU has a current task.                                         *)
WhereInv ==
    /\ pc \in [Cpu -> PcLabels]
    /\ cur \in [Cpu -> Task \cup {NoTask}]
    /\ cur[0] \in {NoTask, 0, Other}
    /\ imsc \in BOOLEAN
    /\ ~Found => pc[0] \in {"publish", "requeue"}
    /\ cur[0] = NoTask =>
         /\ ~imsc
         /\ \A c \in Cpu : cur[c] = NoTask /\ pc[c] \notin {"inject", "inject_guest"}
    /\ cur[0] = Other \/ (cur[0] = 0 /\ pc[0] = "publish")
         => \E c \in Cpu \ {0} : cur[c] # NoTask

(* pCPU0 and its tasks are told apart.                                      *)
LEMMA Zero == 0 \in Cpu /\ Other # 0 /\ Other # NoTask /\ NoTask # 0 /\ NoTask \notin Cpu
BY CpuAssumption DEF Cpu, Other, NoTask

(* WhereInv is inductive: YieldNext, Publish and Requeue move vCPU0's task  *)
(* through the window, and every other step leaves it where it is.          *)
LEMMA WhereStep == WhereInv /\ [Next]_vars => WhereInv'
<1> SUFFICES ASSUME WhereInv, [Next]_vars
             PROVE  WhereInv'
  OBVIOUS
<1> USE Zero DEF WhereInv, Found, PcLabels, Goto, fifo, outer, sched, guest, hist
<1>1. CASE HostReceive
  BY <1>1 DEF HostReceive
<1>2. ASSUME NEW c \in Cpu, ServiceHost(c) PROVE WhereInv'
  BY <1>2 DEF ServiceHost
<1>3. ASSUME NEW c \in Cpu, PollFlag(c) PROVE WhereInv'
  BY <1>3 DEF PollFlag
<1>4. ASSUME NEW c \in Cpu, ReadData(c) PROVE WhereInv'
  BY <1>4 DEF ReadData
<1>5. ASSUME NEW c \in Cpu, InjectRx(c) PROVE WhereInv'
  BY <1>5 DEF InjectRx
<1>6. ASSUME NEW c \in Cpu, UpdateIrq(c) PROVE WhereInv'
  BY <1>6 DEF UpdateIrq, Returns
<1>7. ASSUME NEW c \in Cpu, InjectIrq(c) PROVE WhereInv'
  BY <1>7 DEF InjectIrq
<1>8. CASE YieldNext
  BY <1>8 DEF YieldNext
<1>9. CASE Publish
  <2>1. cur' \in [Cpu -> Task \cup {NoTask}] /\ pc' \in [Cpu -> PcLabels]
    BY <1>9 DEF Publish, Task
  <2> QED
    BY <1>9, <2>1 DEF Publish
<1>10. CASE Requeue
  BY <1>10 DEF Requeue
<1>11. ASSUME NEW c \in Cpu, StartVcpu(c) PROVE WhereInv'
  <2>1. cur' \in [Cpu -> Task \cup {NoTask}]
    BY <1>11 DEF StartVcpu, Task
  <2> QED
    BY <1>11, <2>1 DEF StartVcpu
<1>12. ASSUME NEW c \in Cpu, Guest(c) PROVE WhereInv'
  <2>0. pc[c] = "out" /\ cur[c] # NoTask /\ UNCHANGED sched
    BY <1>12 DEF Guest, GuestReadDr, GuestWriteImsc, GuestWriteIcr, GuestWriteCr,
                 GuestTakeIrq, GuestIsrDone, Access, InGuest
  <2>1. \/ pc' = pc
        \/ pc' = [pc EXCEPT ![c] = "update_guest"]
    BY <1>12 DEF Guest, GuestReadDr, GuestWriteImsc, GuestWriteIcr, GuestWriteCr,
                 GuestTakeIrq, GuestIsrDone
  <2>2. imsc' \in BOOLEAN
    BY <1>12 DEF Guest, GuestReadDr, GuestWriteImsc, GuestWriteIcr, GuestWriteCr,
                 GuestTakeIrq, GuestIsrDone
  <2>3. cur[0] # NoTask
    BY <2>0
  <2> QED
    BY <2>0, <2>1, <2>2, <2>3
<1>13. CASE UNCHANGED vars
  BY <1>13 DEF vars
<1> QED
  BY <1>1, <1>2, <1>3, <1>4, <1>5, <1>6, <1>7, <1>8, <1>9, <1>10, <1>11, <1>12, <1>13
  DEF Next, Service, Yield

(* Outside an access of the guest, the latch says that RX is pending and    *)
(* unmasked.  While an access is under way it may still say so, and the     *)
(* uart_emul_update_irq at its end puts it right.                           *)
LatchInv ==
    /\ WhereInv
    /\ irq_latched => (rx_count # 0 /\ imsc) \/ \E c \in Cpu : pc[c] = "update_guest"
    /\ rx_count \in Nat
    /\ LatchHasIrq

(* On two pCPUs a vIRQ that is sent has a target: the pCPU that sends it is *)
(* not the one whose sched_yield has vCPU0's task, so it is the other, and  *)
(* has a current task.                                                      *)
LEMMA HasTarget ==
    ASSUME NCpu <= 2, WhereInv, NEW c \in Cpu, pc[c] \in {"inject", "inject_guest"}
    PROVE  Target(c) # NoTask
<1>1. CASE Found
  BY <1>1, Zero DEF Target
<1>2. CASE ~Found
  <2>1. pc[0] \in {"publish", "requeue"} /\ c # 0
    BY <1>2 DEF WhereInv
  <2>2. cur[0] = Other
    BY <1>2 DEF WhereInv, Found
  <2>3. PICK d \in Cpu \ {0} : cur[d] # NoTask
    BY <2>2 DEF WhereInv
  <2>4. d = c
    BY <2>1, CpuAssumption DEF Cpu
  <2> QED
    BY <1>2, <2>3, <2>4 DEF Target
<1> QED
  BY <1>1, <1>2

(* LatchInv is preserved: uart_emul_update_irq sets the latch only on its   *)
(* way to the injection, which reaches a task or finds its queue full, and  *)
(* the guest's accesses end with a call of it.                              *)
LEMMA LatchStep ==
    ASSUME NCpu <= 2
    PROVE  LatchInv /\ [Next]_vars => LatchInv'
<1> SUFFICES ASSUME LatchInv, [Next]_vars
             PROVE  LatchInv'
  OBVIOUS
<1>0. WhereInv /\ WhereInv' /\ pc \in [Cpu -> PcLabels]
  BY WhereStep DEF LatchInv, WhereInv
<1> USE <1>0, Zero DEF LatchInv, LatchHasIrq, PcLabels, Goto, fifo, outer, sched, guest, hist
<1>1. CASE HostReceive
  BY <1>1 DEF HostReceive
<1>2. ASSUME NEW c \in Cpu, ServiceHost(c) PROVE LatchInv'
  BY <1>2 DEF ServiceHost
<1>3. ASSUME NEW c \in Cpu, PollFlag(c) PROVE LatchInv'
  BY <1>3 DEF PollFlag
<1>4. ASSUME NEW c \in Cpu, ReadData(c) PROVE LatchInv'
  BY <1>4 DEF ReadData
<1>5. ASSUME NEW c \in Cpu, InjectRx(c) PROVE LatchInv'
  BY <1>5 DEF InjectRx
<1>6. ASSUME NEW c \in Cpu, UpdateIrq(c) PROVE LatchInv'
  BY <1>6 DEF UpdateIrq, Returns, RxEmpty
<1>7. ASSUME NEW c \in Cpu, InjectIrq(c) PROVE LatchInv'
  <2>1. Target(c) # NoTask
    BY <1>7, HasTarget DEF InjectIrq
  <2>2. virq' # {} \/ lost'
    BY <1>7, <2>1 DEF InjectIrq, Inject
  <2> QED
    BY <1>7, <2>2 DEF InjectIrq
<1>8. ASSUME NEW c \in Cpu, GuestReadDr(c) PROVE LatchInv'
  BY <1>8 DEF GuestReadDr, Access, InGuest, RxEmpty
<1>9. ASSUME NEW c \in Cpu, NEW on \in BOOLEAN, GuestWriteImsc(c, on) PROVE LatchInv'
  BY <1>9 DEF GuestWriteImsc, Access, InGuest
<1>10. ASSUME NEW c \in Cpu, GuestWriteIcr(c) \/ GuestWriteCr(c) PROVE LatchInv'
  BY <1>10 DEF GuestWriteIcr, GuestWriteCr, Access, InGuest
<1>11. ASSUME NEW c \in Cpu, GuestTakeIrq(c) PROVE LatchInv'
  BY <1>11 DEF GuestTakeIrq
<1>12. ASSUME NEW c \in Cpu, GuestIsrDone(c) PROVE LatchInv'
  BY <1>12 DEF GuestIsrDone, Access, RxEmpty
<1>13. CASE Yield
  BY <1>13 DEF Yield, YieldNext, Publish, Requeue
<1>14. ASSUME NEW c \in Cpu, StartVcpu(c) PROVE LatchInv'
  BY <1>14 DEF StartVcpu
<1>15. CASE UNCHANGED vars
  BY <1>15 DEF vars
<1> QED
  BY <1>1, <1>2, <1>3, <1>4, <1>5, <1>6, <1>7, <1>8, <1>9, <1>10, <1>11, <1>12, <1>13, <1>14, <1>15
  DEF Next, Service, Guest

(* On the two pCPUs that secondary_entry admits, uart_emul_update_irq never *)
(* leaves the latch set without a vIRQ that will bring the guest's handler  *)
(* in, however pushes, reads, mask changes and the switches of vCPU0's task *)
(* interleave, unless gic_vcpu_inject_virq finds a full queue.              *)
THEOREM LatchAlwaysHasIrq ==
    ASSUME NCpu <= 2
    PROVE  Spec => []LatchHasIrq
<1>1. Init => LatchInv
  <2> SUFFICES ASSUME Init PROVE LatchInv
    OBVIOUS
  <2>1. pc \in [Cpu -> PcLabels] /\ rx_count \in Nat /\ imsc \in BOOLEAN /\ ~imsc
    BY DEF Init, PcLabels
  <2>2. ~irq_latched
    BY DEF Init
  <2>3. cur \in [Cpu -> Task \cup {NoTask}] /\ \A c \in Cpu : cur[c] = NoTask /\ pc[c] = "out"
    BY DEF Init
  <2>4. WhereInv
    BY <2>1, <2>3, Zero DEF WhereInv, Found, Init
  <2> QED
    BY <2>1, <2>2, <2>4 DEF LatchInv, LatchHasIrq
<1>2. LatchInv => LatchHasIrq
  BY DEF LatchInv
<1>3. LatchInv /\ [Next]_vars => LatchInv'
  BY LatchStep
<1> QED
  BY <1>1, <1>2, <1>3, PTL DEF Spec

-----------------------------------------------------------------------------
(* A position in the ring, counted from one of its slots.                   *)
LEMMA RingIndex ==
    ASSUME NEW a \in Slot, NEW k \in 0..FifoSize
    PROVE  (a + k) % FifoSize = IF a + k < FifoSize THEN a + k ELSE a + k - FifoSize
BY FifoAssumption, SMTT(30) DEF Slot

(* How often a character occurs is a number.                                *)
LEMMA CountFinite ==
    ASSUME NEW S, NEW s \in Seq(S), NEW x
    PROVE  IsFiniteSet({i \in 1..Len(s) : s[i] = x}) /\ Count(s, x) \in Nat
<1>1. Len(s) \in Nat
  BY LenProperties
<1>2. IsFiniteSet(1..Len(s))
  BY <1>1, FS_Interval
<1>3. IsFiniteSet({i \in 1..Len(s) : s[i] = x})
  BY <1>2, FS_Subset
<1> QED
  BY <1>3, FS_CardinalityType DEF Count

(* An appended character counts once more.                                  *)
LEMMA CountAppend ==
    ASSUME NEW S, NEW s \in Seq(S), NEW e \in S, NEW x
    PROVE  Count(Append(s, e), x) = Count(s, x) + (IF e = x THEN 1 ELSE 0)
<1> DEFINE r == Append(s, e)
           P == {i \in 1..Len(s) : s[i] = x}
           Q == {i \in 1..Len(r) : r[i] = x}
<1>1. Len(s) \in Nat /\ Len(r) = Len(s) + 1 /\ r[Len(s) + 1] = e /\ \A i \in 1..Len(s) : r[i] = s[i]
  BY LenProperties, AppendProperties
<1> HIDE DEF r
<1>2. Q = IF e = x THEN P \cup {Len(s) + 1} ELSE P
  BY <1>1
<1>3. IsFiniteSet(P) /\ Cardinality(P) = Count(s, x) /\ Count(s, x) \in Nat
  BY CountFinite DEF Count
<1>4. Len(s) + 1 \notin P
  BY <1>1
<1>5. Cardinality(P \cup {Len(s) + 1}) = Cardinality(P) + 1
  BY <1>3, <1>4, FS_AddElement
<1>7. Count(r, x) = Cardinality(Q)
  BY DEF Count
<1> HIDE DEF P, Q
<1>6. Cardinality(Q) = Cardinality(P) + (IF e = x THEN 1 ELSE 0)
  BY <1>2, <1>3, <1>5
<1> QED
  BY <1>3, <1>6, <1>7 DEF r

(* The first character of a sequence counts once in it.                     *)
LEMMA CountTail ==
    ASSUME NEW S, NEW s \in Seq(S), s # <<>>, NEW x
    PROVE  Count(s, x) = Count(Tail(s), x) + (IF Head(s) = x THEN 1 ELSE 0)
<1> DEFINE r == Tail(s)
           P == {i \in 1..Len(r) : r[i] = x}
           Q == {i \in 1..Len(s) : s[i] = x}
           f == [i \in P |-> i + 1]
<1>1. /\ Len(s) \in Nat \ {0} /\ r \in Seq(S) /\ Len(r) = Len(s) - 1
      /\ \A i \in 1..Len(r) : r[i] = s[i + 1]
  BY LenProperties, EmptySeq, HeadTailProperties
<1>2. Head(s) = s[1]
  OBVIOUS
<1> HIDE DEF r
<1>3. IsFiniteSet(P) /\ Cardinality(P) = Count(r, x) /\ Count(r, x) \in Nat
  BY <1>1, CountFinite DEF Count
<1>4. IsFiniteSet(Q) /\ Cardinality(Q) = Count(s, x) /\ Count(s, x) \in Nat
  BY CountFinite DEF Count
<1>5. f \in Bijection(P, Q \ {1})
  <2>1. f \in [P -> Q \ {1}]
    BY <1>1
  <2>2. \A i, j \in P : f[i] = f[j] => i = j
    OBVIOUS
  <2>3. \A j \in Q \ {1} : \E i \in P : f[i] = j
    <3> SUFFICES ASSUME NEW j \in Q \ {1} PROVE \E i \in P : f[i] = j
      OBVIOUS
    <3>1. j - 1 \in P
      BY <1>1
    <3> QED
      BY <3>1
  <2> QED
    BY <2>1, <2>2, <2>3 DEF Bijection, Injection, Surjection, IsInjective
<1>6. Cardinality(Q \ {1}) = Cardinality(P)
  BY <1>3, <1>5, FS_Bijection DEF ExistsBijection
<1>7. Cardinality(Q \ {1}) = IF 1 \in Q THEN Cardinality(Q) - 1 ELSE Cardinality(Q)
  BY <1>4, FS_RemoveElement
<1>8. 1 \in Q <=> Head(s) = x
  BY <1>1, <1>2
<1> HIDE DEF P, Q
<1> QED
  BY <1>3, <1>4, <1>6, <1>7, <1>8 DEF r

(* How many pCPUs hold x, f being what each holds.                          *)
Holding(f, x) == Cardinality({c \in Cpu : f[c] = x})

(* One pCPU's character changes: f and g are ch before and after.           *)
LEMMA HandsStep ==
    ASSUME NEW f \in [Cpu -> Char \cup {Junk}], NEW g \in [Cpu -> Char \cup {Junk}],
           NEW x, NEW c \in Cpu, \A d \in Cpu \ {c} : g[d] = f[d]
    PROVE  /\ Holding(f, x) \in Nat
           /\ Holding(g, x) \in Nat
           /\ f[c] = x => Holding(f, x) > 0
           /\ Holding(g, x) + (IF f[c] = x THEN 1 ELSE 0)
              = Holding(f, x) + (IF g[c] = x THEN 1 ELSE 0)
<1> DEFINE P == {d \in Cpu : f[d] = x}
           Q == {d \in Cpu : g[d] = x}
           O == {d \in Cpu \ {c} : f[d] = x}
<1>1. IsFiniteSet(Cpu)
  BY CpuAssumption, FS_Interval DEF Cpu
<1>2. IsFiniteSet(O) /\ IsFiniteSet(P) /\ IsFiniteSet(Q) /\ c \notin O
  BY <1>1, FS_Subset
<1>3. /\ P = IF f[c] = x THEN O \cup {c} ELSE O
      /\ Q = IF g[c] = x THEN O \cup {c} ELSE O
  OBVIOUS
<1> HIDE DEF O, P, Q
<1>4. Cardinality(O \cup {c}) = Cardinality(O) + 1
  BY <1>2, FS_AddElement
<1>5. Cardinality(O) \in Nat /\ Cardinality(P) \in Nat /\ Cardinality(Q) \in Nat
  BY <1>2, FS_CardinalityType
<1>6. /\ Cardinality(P) = Cardinality(O) + (IF f[c] = x THEN 1 ELSE 0)
      /\ Cardinality(Q) = Cardinality(O) + (IF g[c] = x THEN 1 ELSE 0)
  BY <1>3, <1>4, <1>5
<1>7. Cardinality(Q) + (IF f[c] = x THEN 1 ELSE 0) = Cardinality(P) + (IF g[c] = x THEN 1 ELSE 0)
  BY <1>5, <1>6
<1>8. f[c] = x => Cardinality(P) > 0
  BY <1>5, <1>6
<1> QED
  BY <1>5, <1>7, <1>8 DEF P, Q, Holding

(* uart_emul_rx_push, on the ring as a sequence.                            *)
LEMMA RingPush ==
    ASSUME TypeOK, rx_head = (rx_tail + rx_count) % FifoSize, ~RxFull,
           NEW e \in Char \cup {Junk},
           rx_fifo' = [rx_fifo EXCEPT ![rx_head] = e],
           rx_head' = (rx_head + 1) % FifoSize, rx_count' = rx_count + 1, rx_tail' = rx_tail
    PROVE  /\ Ring \in Seq(Char \cup {Junk}) /\ Ring' = Append(Ring, e)
           /\ rx_head' = (rx_tail' + rx_count') % FifoSize
           /\ rx_head' \in Slot /\ rx_count' \in 0..FifoSize
<1> DEFINE at(i) == (rx_tail + i - 1) % FifoSize
<1>1. FifoSize \in Nat \ {0} /\ rx_tail \in Slot /\ rx_count \in 0..(FifoSize - 1) /\ rx_head \in Slot
  BY FifoAssumption DEF TypeOK, RxFull
<1>2. \A i \in 1..(rx_count + 1) :
         at(i) = IF rx_tail + i - 1 < FifoSize THEN rx_tail + i - 1 ELSE rx_tail + i - 1 - FifoSize
  <2> SUFFICES ASSUME NEW i \in 1..(rx_count + 1)
               PROVE at(i) = IF rx_tail + i - 1 < FifoSize THEN rx_tail + i - 1
                             ELSE rx_tail + i - 1 - FifoSize
    OBVIOUS
  <2>1. i - 1 \in 0..FifoSize /\ rx_tail + (i - 1) = rx_tail + i - 1
    BY <1>1 DEF Slot
  <2> QED
    BY <1>1, <2>1, RingIndex
<1>3. rx_head = IF rx_tail + rx_count < FifoSize THEN rx_tail + rx_count ELSE rx_tail + rx_count - FifoSize
  <2>1. rx_count \in 0..FifoSize
    BY <1>1
  <2> QED
    BY <1>1, <2>1, RingIndex
<1>4. \A i \in 1..rx_count : at(i) \in Slot /\ at(i) # rx_head
  BY <1>1, <1>2, <1>3 DEF Slot
<1>5. at(rx_count + 1) = rx_head
  BY <1>1, <1>2, <1>3 DEF Slot
<1> HIDE DEF at
<1>6. Ring = [i \in 1..rx_count |-> rx_fifo[at(i)]]
  BY DEF Ring, at
<1>7. Ring' = [i \in 1..(rx_count + 1) |-> rx_fifo'[at(i)]]
  BY DEF Ring, at
<1>8. rx_fifo \in [Slot -> Char \cup {Junk}]
  BY DEF TypeOK
<1>9. Ring \in [1..rx_count -> Char \cup {Junk}]
  BY <1>4, <1>6, <1>8
<1>10. Ring \in Seq(Char \cup {Junk}) /\ Len(Ring) = rx_count
  BY <1>1, <1>9
<1>11. Ring' \in Seq(Char \cup {Junk}) /\ Len(Ring') = rx_count + 1
  <2>0. rx_fifo' \in [Slot -> Char \cup {Junk}] /\ \A i \in 1..(rx_count + 1) : at(i) \in Slot
    BY <1>1, <1>4, <1>5, <1>8
  <2>1. Ring' \in [1..(rx_count + 1) -> Char \cup {Junk}]
    BY <2>0, <1>7
  <2> QED
    BY <1>1, <2>1
<1>12. Ring' = Append(Ring, e)
  <2>1. /\ Append(Ring, e) \in Seq(Char \cup {Junk}) /\ Len(Append(Ring, e)) = rx_count + 1
        /\ \A i \in 1..rx_count : Append(Ring, e)[i] = Ring[i]
        /\ Append(Ring, e)[rx_count + 1] = e
    BY <1>10, AppendProperties
  <2>2. \A i \in 1..(rx_count + 1) : Ring'[i] = Append(Ring, e)[i]
    BY <1>1, <1>4, <1>5, <1>6, <1>7, <1>8, <2>1
  <2> HIDE DEF Ring
  <2> QED
    BY <1>11, <2>1, <2>2, SeqEqual
<1>13. rx_head' = (rx_tail' + rx_count') % FifoSize /\ rx_head' \in Slot
  <2>1. rx_head' = IF rx_head + 1 < FifoSize THEN rx_head + 1 ELSE rx_head + 1 - FifoSize
    BY <1>1, RingIndex
  <2>2. (rx_tail + (rx_count + 1)) % FifoSize = IF rx_tail + (rx_count + 1) < FifoSize
           THEN rx_tail + (rx_count + 1) ELSE rx_tail + (rx_count + 1) - FifoSize
    <3>1. rx_count + 1 \in 0..FifoSize
      BY <1>1
    <3> QED
      BY <1>1, <3>1, RingIndex
  <2> QED
    BY <1>1, <1>3, <2>1, <2>2 DEF Slot
<1> QED
  BY <1>1, <1>10, <1>12, <1>13

(* uart_emul_rx_pop, on the ring as a sequence.                             *)
LEMMA RingPop ==
    ASSUME TypeOK, rx_head = (rx_tail + rx_count) % FifoSize, ~RxEmpty,
           rx_tail' = (rx_tail + 1) % FifoSize, rx_count' = rx_count - 1,
           rx_head' = rx_head, rx_fifo' = rx_fifo
    PROVE  /\ Ring \in Seq(Char \cup {Junk}) /\ Ring # <<>>
           /\ Ring' = Tail(Ring) /\ rx_fifo[rx_tail] = Head(Ring)
           /\ rx_head' = (rx_tail' + rx_count') % FifoSize
           /\ rx_tail' \in Slot /\ rx_count' \in 0..FifoSize
<1> DEFINE at(i) == (rx_tail + i - 1) % FifoSize
<1>1. FifoSize \in Nat \ {0} /\ rx_tail \in Slot /\ rx_count \in 1..FifoSize /\ rx_head \in Slot
  BY FifoAssumption DEF TypeOK, RxEmpty
<1>2. \A i \in 1..rx_count :
         at(i) = IF rx_tail + i - 1 < FifoSize THEN rx_tail + i - 1 ELSE rx_tail + i - 1 - FifoSize
  <2> SUFFICES ASSUME NEW i \in 1..rx_count
               PROVE at(i) = IF rx_tail + i - 1 < FifoSize THEN rx_tail + i - 1
                             ELSE rx_tail + i - 1 - FifoSize
    OBVIOUS
  <2>1. i - 1 \in 0..FifoSize /\ rx_tail + (i - 1) = rx_tail + i - 1
    BY <1>1 DEF Slot
  <2> QED
    BY <1>1, <2>1, RingIndex
<1>3. rx_tail' = IF rx_tail + 1 < FifoSize THEN rx_tail + 1 ELSE rx_tail + 1 - FifoSize
  BY <1>1, RingIndex
<1>4. rx_tail' \in Slot /\ rx_count' \in 0..(FifoSize - 1)
  BY <1>1, <1>3 DEF Slot
<1>5. \A i \in 1..(rx_count - 1) : (rx_tail' + i - 1) % FifoSize = at(i + 1)
  <2> SUFFICES ASSUME NEW i \in 1..(rx_count - 1)
               PROVE  (rx_tail' + i - 1) % FifoSize = at(i + 1)
    OBVIOUS
  <2>1. i - 1 \in 0..FifoSize /\ rx_tail' + (i - 1) = rx_tail' + i - 1
    BY <1>1, <1>4 DEF Slot
  <2>2. (rx_tail' + i - 1) % FifoSize = IF rx_tail' + i - 1 < FifoSize THEN rx_tail' + i - 1
                             ELSE rx_tail' + i - 1 - FifoSize
    BY <1>4, <2>1, RingIndex
  <2>3. at(i + 1) = IF rx_tail + i < FifoSize THEN rx_tail + i ELSE rx_tail + i - FifoSize
    <3>1. i + 1 \in 1..rx_count /\ rx_tail + (i + 1) - 1 = rx_tail + i
      BY <1>1 DEF Slot
    <3> HIDE DEF at
    <3> QED
      BY <1>2, <3>1
  <2> HIDE DEF at
  <2> QED
    BY <1>1, <1>3, <2>2, <2>3 DEF Slot
<1>6. \A i \in 1..rx_count : at(i) \in Slot
  BY <1>1, <1>2 DEF Slot
<1>7. at(1) = rx_tail
  BY <1>1, <1>2 DEF Slot
<1> HIDE DEF at
<1>8. Ring = [i \in 1..rx_count |-> rx_fifo[at(i)]]
  BY DEF Ring, at
<1>9. Ring' = [i \in 1..(rx_count - 1) |-> rx_fifo[(rx_tail' + i - 1) % FifoSize]]
  BY DEF Ring
<1>10. Ring' = [i \in 1..(rx_count - 1) |-> rx_fifo[at(i + 1)]]
  BY <1>5, <1>9
<1>11. rx_fifo \in [Slot -> Char \cup {Junk}]
  BY DEF TypeOK
<1>12. Ring \in Seq(Char \cup {Junk}) /\ Len(Ring) = rx_count
  <2>1. Ring \in [1..rx_count -> Char \cup {Junk}]
    BY <1>6, <1>8, <1>11
  <2> QED
    BY <1>1, <2>1
<1>13. Ring' \in Seq(Char \cup {Junk}) /\ Len(Ring') = rx_count - 1
  <2>0. \A i \in 1..(rx_count - 1) : at(i + 1) \in Slot
    BY <1>1, <1>6
  <2>1. Ring' \in [1..(rx_count - 1) -> Char \cup {Junk}]
    BY <2>0, <1>10, <1>11
  <2> QED
    BY <1>1, <2>1
<1>14. Ring # <<>>
  BY <1>1, <1>12
<1>15. Ring' = Tail(Ring)
  <2>1. /\ Tail(Ring) \in Seq(Char \cup {Junk}) /\ Len(Tail(Ring)) = rx_count - 1
        /\ \A i \in 1..(rx_count - 1) : Tail(Ring)[i] = Ring[i + 1]
    BY <1>12, <1>14, HeadTailProperties
  <2>2. \A i \in 1..(rx_count - 1) : Ring'[i] = Tail(Ring)[i]
    BY <1>1, <1>8, <1>10, <2>1
  <2> HIDE DEF Ring
  <2> QED
    BY <1>13, <2>1, <2>2, SeqEqual
<1>16. Head(Ring) = rx_fifo[rx_tail]
  <2>1. Head(Ring) = Ring[1]
    BY <1>12, <1>14
  <2> QED
    BY <1>1, <1>7, <1>8, <2>1
<1>17. rx_head' = (rx_tail' + rx_count') % FifoSize
  <2>0. rx_count \in 0..FifoSize /\ rx_count' \in 0..FifoSize /\ rx_count \in Nat /\ rx_count' = rx_count - 1
    BY <1>1
  <2>1. rx_head = IF rx_tail + rx_count < FifoSize THEN rx_tail + rx_count ELSE rx_tail + rx_count - FifoSize
    BY <1>1, <2>0, RingIndex
  <2>2. (rx_tail' + rx_count') % FifoSize = IF rx_tail' + rx_count' < FifoSize
           THEN rx_tail' + rx_count' ELSE rx_tail' + rx_count' - FifoSize
    BY <1>4, <2>0, RingIndex
  <2>3. rx_head = IF rx_tail' + rx_count' < FifoSize
                  THEN rx_tail' + rx_count' ELSE rx_tail' + rx_count' - FifoSize
    <3>1. rx_tail \in 0..(FifoSize - 1) /\ rx_count \in 1..FifoSize /\ FifoSize \in Nat
      BY <1>1 DEF Slot
    <3> QED
      BY <3>1, <1>3, <2>0, <2>1
  <2> QED
    BY <2>2, <2>3
<1>18. rx_count' \in 0..FifoSize
  BY <1>1
<1> HIDE DEF Ring
<1> QED
  BY <1>4, <1>12, <1>14, <1>15, <1>16, <1>17, <1>18

-----------------------------------------------------------------------------
(* uart_emul_rx_push and uart_emul_rx_pop keep their indices in the ring.   *)
LEMMA SlotStep ==
    ASSUME NEW s \in Slot
    PROVE  (s + 1) % FifoSize \in Slot
<1>1. FifoSize \in Nat \ {0} /\ s \in 0..(FifoSize - 1) /\ 1 \in 0..FifoSize
  BY FifoAssumption DEF Slot
<1>2. (s + 1) % FifoSize = IF s + 1 < FifoSize THEN s + 1 ELSE s + 1 - FifoSize
  BY <1>1, RingIndex
<1> QED
  BY <1>1, <1>2 DEF Slot

(* TypeOK is inductive: a push is guarded by RxFull, a pop by RxEmpty, each *)
(* under the lock that covers the update of the count.                      *)
LEMMA TypeStep == TypeOK /\ [Next]_vars => TypeOK'
<1> SUFFICES ASSUME TypeOK, [Next]_vars
             PROVE  TypeOK'
  OBVIOUS
<1>0. 0 \in Cpu /\ Junk \notin Char /\ NChar \in Nat
  BY CpuAssumption, CharAssumption DEF Cpu, Junk, Char
<1>t. 0 \in Task /\ Other \in Task /\ \A c \in Cpu : c \in Task
  BY <1>0 DEF Task
<1> USE <1>0 DEF TypeOK, Goto, fifo, outer, sched, guest, hist
<1>1. CASE HostReceive
  <2>1. arrived' \in 0..NChar /\ arrived' \in Char
    BY <1>1 DEF HostReceive, Char
  <2>2. host' \in Seq(Char)
    BY <1>1, <2>1, AppendProperties DEF HostReceive
  <2> QED
    BY <1>1, <2>1, <2>2 DEF HostReceive
<1>2. ASSUME NEW c \in Cpu, ServiceHost(c) PROVE TypeOK'
  BY <1>2 DEF ServiceHost
<1>3. ASSUME NEW c \in Cpu, PollFlag(c) PROVE TypeOK'
  BY <1>3 DEF PollFlag
<1>4. ASSUME NEW c \in Cpu, ReadData(c) PROVE TypeOK'
  <2>1. host # <<>> => Head(host) \in Char /\ Tail(host) \in Seq(Char)
    BY HeadTailProperties
  <2>2. host' \in Seq(Char) /\ ch' \in [Cpu -> Char \cup {Junk}]
    BY <1>4, <2>1 DEF ReadData
  <2> QED
    BY <1>4, <2>2 DEF ReadData
<1>5. ASSUME NEW c \in Cpu, InjectRx(c) PROVE TypeOK'
  <2>1. ch' \in [Cpu -> Char \cup {Junk}] /\ ch[c] \in Char \cup {Junk}
    BY <1>5 DEF InjectRx
  <2>2. CASE RxFull
    BY <1>5, <2>1, <2>2 DEF InjectRx
  <2>3. CASE ~RxFull
    <3>1. rx_head' \in Slot
      BY <1>5, <2>3, SlotStep DEF InjectRx
    <3>2. rx_count' \in 0..FifoSize
      BY <1>5, <2>3, FifoAssumption DEF InjectRx, RxFull
    <3> QED
      BY <1>5, <2>1, <2>3, <3>1, <3>2 DEF InjectRx
  <2> QED
    BY <2>2, <2>3
<1>6. ASSUME NEW c \in Cpu, UpdateIrq(c) PROVE TypeOK'
  <2>1. pc' \in [Cpu -> {"out", "flag", "data", "push", "update", "update_guest",
                       "inject", "inject_guest", "publish", "requeue"}]
    BY <1>6 DEF UpdateIrq, Returns
  <2>2. ris' \in BOOLEAN /\ irq_latched' \in BOOLEAN
    BY <1>6 DEF UpdateIrq
  <2> QED
    BY <1>6, <2>1, <2>2 DEF UpdateIrq
<1>7. ASSUME NEW c \in Cpu, InjectIrq(c) PROVE TypeOK'
  <2>1. Target(c) # NoTask => Target(c) \in Task
    BY <1>t DEF Target
  <2>2. virq' \subseteq Task /\ lost' \in BOOLEAN
    BY <1>7, <2>1 DEF InjectIrq, Inject
  <2> QED
    BY <1>7, <2>2 DEF InjectIrq
<1>8. ASSUME NEW c \in Cpu, GuestReadDr(c) PROVE TypeOK'
  <2>1. CASE RxEmpty
    BY <1>8, <2>1 DEF GuestReadDr
  <2>2. CASE ~RxEmpty
    <3>1. rx_tail' \in Slot
      BY <1>8, <2>2, SlotStep DEF GuestReadDr
    <3>2. rx_count' \in 0..FifoSize
      BY <1>8, <2>2, FifoAssumption DEF GuestReadDr, RxEmpty
    <3>3. rx_fifo[rx_tail] \in Char \cup {Junk} /\ got' = Append(got, rx_fifo[rx_tail])
      BY <1>8, <2>2 DEF GuestReadDr
    <3>4. got' \in Seq(Char \cup {Junk})
      BY <3>3
    <3> QED
      BY <1>8, <2>2, <3>1, <3>2, <3>4 DEF GuestReadDr
  <2> QED
    BY <2>1, <2>2
<1>9. ASSUME NEW c \in Cpu, NEW on \in BOOLEAN, GuestWriteImsc(c, on) PROVE TypeOK'
  BY <1>9 DEF GuestWriteImsc
<1>10. ASSUME NEW c \in Cpu, GuestWriteIcr(c) \/ GuestWriteCr(c) PROVE TypeOK'
  BY <1>10 DEF GuestWriteIcr, GuestWriteCr
<1>11. ASSUME NEW c \in Cpu, GuestTakeIrq(c) PROVE TypeOK'
  BY <1>11 DEF GuestTakeIrq
<1>12. ASSUME NEW c \in Cpu, GuestIsrDone(c) PROVE TypeOK'
  <2>1. ris' \in BOOLEAN
    BY <1>12 DEF GuestIsrDone
  <2> QED
    BY <1>12, <2>1 DEF GuestIsrDone
<1>13. CASE YieldNext \/ Requeue
  BY <1>13 DEF YieldNext, Requeue
<1>14. CASE Publish
  BY <1>14, <1>t DEF Publish
<1>15. ASSUME NEW c \in Cpu, StartVcpu(c) PROVE TypeOK'
  BY <1>15, <1>t DEF StartVcpu
<1>16. CASE UNCHANGED vars
  BY <1>16 DEF vars
<1> QED
  BY <1>1, <1>2, <1>3, <1>4, <1>5, <1>6, <1>7, <1>8, <1>9, <1>10, <1>11, <1>12, <1>13, <1>14,
     <1>15, <1>16
  DEF Next, Service, Guest, Yield

-----------------------------------------------------------------------------
(* Where a character can be, and how often it is there in all.              *)
Hands(x) == Holding(ch, x)
Total(x) == Count(host, x) + Hands(x) + Count(Ring, x) + Count(got, x) + Cardinality({x} \cap dropped)

(* The ring is the rx_count slots from rx_tail on, and rx_head the next;    *)
(* a pCPU holds a character only between the read and the push; a character *)
(* is in one place from its arrival on, and in none before.                 *)
PlaceInv ==
    /\ TypeOK
    /\ rx_head = (rx_tail + rx_count) % FifoSize
    /\ \A c \in Cpu : pc[c] # "push" => ch[c] = Junk
    /\ \A x \in Char : Total(x) = IF x <= arrived THEN 1 ELSE 0

(* Whether a character was dropped, as a number.                            *)
LEMMA DroppedCount ==
    ASSUME NEW D, NEW x
    PROVE  Cardinality({x} \cap D) = IF x \in D THEN 1 ELSE 0
<1>1. x \in D => {x} \cap D = {x}
  OBVIOUS
<1>2. x \notin D => {x} \cap D = {}
  OBVIOUS
<1> QED
  BY <1>1, <1>2, FS_EmptySet, FS_Singleton

(* The ring as a sequence of characters.                                    *)
LEMMA RingType ==
    ASSUME TypeOK
    PROVE  Ring \in Seq(Char \cup {Junk})
<1>1. FifoSize \in Nat \ {0} /\ rx_tail \in Slot /\ rx_count \in 0..FifoSize
  BY FifoAssumption DEF TypeOK
<1>2. \A i \in 1..rx_count : (rx_tail + i - 1) % FifoSize \in Slot
  <2> SUFFICES ASSUME NEW i \in 1..rx_count PROVE (rx_tail + i - 1) % FifoSize \in Slot
    OBVIOUS
  <2>1. i - 1 \in 0..FifoSize /\ rx_tail + (i - 1) = rx_tail + i - 1
    BY <1>1 DEF Slot
  <2>2. (rx_tail + i - 1) % FifoSize
           = IF rx_tail + i - 1 < FifoSize THEN rx_tail + i - 1 ELSE rx_tail + i - 1 - FifoSize
    BY <1>1, <2>1, RingIndex
  <2> QED
    BY <1>1, <2>1, <2>2 DEF Slot
<1>3. rx_fifo \in [Slot -> Char \cup {Junk}]
  BY DEF TypeOK
<1>4. Ring \in [1..rx_count -> Char \cup {Junk}]
  BY <1>2, <1>3 DEF Ring
<1> QED
  BY <1>1, <1>4

(* Each of the five places holds a number of copies of a character.         *)
LEMMA PlacesType ==
    ASSUME TypeOK, NEW x \in Char
    PROVE  /\ Count(host, x) \in Nat /\ Hands(x) \in Nat /\ Count(Ring, x) \in Nat
           /\ Count(got, x) \in Nat /\ Cardinality({x} \cap dropped) \in Nat
<1>1. Count(host, x) \in Nat /\ Count(got, x) \in Nat
  BY CountFinite DEF TypeOK
<1>2. Count(Ring, x) \in Nat
  BY RingType, CountFinite
<1>3. Hands(x) \in Nat
  <2>1. IsFiniteSet(Cpu)
    BY CpuAssumption, FS_Interval DEF Cpu
  <2>2. IsFiniteSet({c \in Cpu : ch[c] = x})
    BY <2>1, FS_Subset
  <2> QED
    BY <2>2, FS_CardinalityType DEF Hands, Holding
<1>4. Cardinality({x} \cap dropped) \in Nat
  BY DroppedCount
<1> QED
  BY <1>1, <1>2, <1>3, <1>4

(* A step that touches none of the places keeps PlaceInv.                   *)
LEMMA PlaceKept ==
    ASSUME PlaceInv, TypeOK', UNCHANGED <<outer, fifo, ch, hist>>,
           \A c \in Cpu : pc'[c] # "push" => pc[c] # "push"
    PROVE  PlaceInv'
<1>1. \A x \in Char : Total(x)' = Total(x)
  BY DEF Total, Hands, Count, Ring, outer, fifo, hist
<1> QED
  BY <1>1 DEF PlaceInv, outer, fifo

(* PlaceInv is preserved.  A full FIFO drops the character of one pCPU: it  *)
(* is in that pCPU's hands and nowhere else, so it was not dropped before.  *)
LEMMA PlaceStep == PlaceInv /\ [Next]_vars => PlaceInv'
<1> SUFFICES ASSUME PlaceInv, [Next]_vars
             PROVE  PlaceInv'
  OBVIOUS
<1>0. 0 \in Cpu /\ Junk \notin Char /\ NChar \in Nat
  BY CpuAssumption, CharAssumption DEF Cpu, Junk, Char
<1>a. TypeOK /\ TypeOK'
  BY TypeStep DEF PlaceInv
<1>b. \A x \in Char :
        /\ Count(host, x) \in Nat /\ Hands(x) \in Nat /\ Count(Ring, x) \in Nat
        /\ Count(got, x) \in Nat /\ Cardinality({x} \cap dropped) \in Nat
        /\ Total(x) = Count(host, x) + Hands(x) + Count(Ring, x) + Count(got, x)
                      + Cardinality({x} \cap dropped)
        /\ Total(x) = IF x <= arrived THEN 1 ELSE 0
  BY <1>a, PlacesType DEF PlaceInv, Total
<1>c. \A x \in Char : Total(x) \in {0, 1}
  BY DEF PlaceInv
<1>1. CASE HostReceive
  <2>1. /\ arrived \in 0..NChar /\ arrived' = arrived + 1 /\ host' = Append(host, arrived')
        /\ arrived' \in Char /\ UNCHANGED <<fifo, pc, ch, hist>>
    BY <1>1, <1>a DEF HostReceive, TypeOK, Char
  <2>2. \A x \in Char : Total(x)' = IF x <= arrived' THEN 1 ELSE 0
    <3> SUFFICES ASSUME NEW x \in Char PROVE Total(x)' = IF x <= arrived' THEN 1 ELSE 0
      OBVIOUS
    <3>b. /\ Count(host, x) \in Nat /\ Hands(x) \in Nat /\ Count(Ring, x) \in Nat
          /\ Count(got, x) \in Nat /\ Cardinality({x} \cap dropped) \in Nat
          /\ Count(host, x) + Hands(x) + Count(Ring, x) + Count(got, x)
             + Cardinality({x} \cap dropped) = IF x <= arrived THEN 1 ELSE 0
      BY <1>b
    <3>1. Count(host', x) = Count(host, x) + (IF arrived' = x THEN 1 ELSE 0)
      BY <1>a, <2>1, CountAppend DEF TypeOK
    <3>2. Total(x)' = Count(host', x) + Hands(x) + Count(Ring, x) + Count(got, x)
                      + Cardinality({x} \cap dropped)
      BY <2>1 DEF Total, Hands, Ring, fifo, hist, Count
    <3> QED
      BY <3>b, <2>1, <3>1, <3>2 DEF Char
  <2> QED
    BY <1>a, <2>1, <2>2 DEF PlaceInv, fifo
<1>2. ASSUME NEW c \in Cpu, ServiceHost(c) \/ PollFlag(c) PROVE PlaceInv'
  BY <1>2, <1>a, PlaceKept DEF ServiceHost, PollFlag, Goto, TypeOK
<1>4. ASSUME NEW c \in Cpu, ReadData(c) PROVE PlaceInv'
  <2>0. ch[c] = Junk /\ ch \in [Cpu -> Char \cup {Junk}] /\ host \in Seq(Char)
    BY <1>4 DEF ReadData, PlaceInv, TypeOK
  <2>1. UNCHANGED <<arrived, fifo, hist>>
    BY <1>4 DEF ReadData
  <2>2. \A d \in Cpu : pc'[d] # "push" => ch'[d] = Junk
    BY <1>4, <1>a, <2>0 DEF ReadData, PlaceInv, Goto, TypeOK
  <2>3. \A x \in Char : Total(x)' = Total(x)
    <3> SUFFICES ASSUME NEW x \in Char PROVE Total(x)' = Total(x)
      OBVIOUS
    <3>b. /\ Count(host, x) \in Nat /\ Hands(x) \in Nat /\ Count(Ring, x) \in Nat
          /\ Count(got, x) \in Nat /\ Cardinality({x} \cap dropped) \in Nat
          /\ Total(x) = Count(host, x) + Hands(x) + Count(Ring, x) + Count(got, x)
                        + Cardinality({x} \cap dropped)
      BY <1>b
    <3>0. x # Junk
      BY <1>0
    <3>1. Total(x)' = Count(host', x) + Hands(x)' + Count(Ring, x) + Count(got, x)
                      + Cardinality({x} \cap dropped)
      BY <2>1 DEF Total, Ring, fifo, hist, Count
    <3>2. CASE host = <<>>
      <4>1. host' = host /\ ch' = ch
        BY <1>4, <3>2, <2>0 DEF ReadData
      <4> QED
        BY <3>b, <3>1, <4>1 DEF Hands
    <3>3. CASE host # <<>>
      <4>1. host' = Tail(host) /\ ch' = [ch EXCEPT ![c] = Head(host)]
        BY <1>4, <3>3 DEF ReadData
      <4>2. Count(host, x) = Count(host', x) + (IF Head(host) = x THEN 1 ELSE 0)
        BY <2>0, <3>3, <4>1, CountTail
      <4>3. Hands(x)' = Hands(x) + (IF Head(host) = x THEN 1 ELSE 0)
        <5>1. Hands(x)' = Holding(ch', x) /\ Hands(x) = Holding(ch, x)
          BY DEF Hands, Holding
        <5> QED
          <6>1. /\ Holding(ch, x) \in Nat
                /\ Holding(ch', x) \in Nat
                /\ ch[c] = x => Holding(ch, x) > 0
                /\ Holding(ch', x) + (IF ch[c] = x THEN 1 ELSE 0)
                   = Holding(ch, x) + (IF ch'[c] = x THEN 1 ELSE 0)
            <7>1. ch' \in [Cpu -> Char \cup {Junk}] /\ \A d \in Cpu \ {c} : ch'[d] = ch[d]
              BY <1>a, <2>0, <4>1 DEF TypeOK
            <7> QED
              BY <2>0, <7>1, HandsStep
          <6> QED
            BY <3>0, <2>0, <4>1, <5>1, <6>1
      <4>4. Count(host', x) \in Nat
        BY <1>a, CountFinite DEF TypeOK
      <4> QED
        BY <3>b, <3>1, <4>2, <4>3, <4>4
    <3> QED
      BY <3>2, <3>3
  <2> QED
    BY <1>a, <2>1, <2>2, <2>3 DEF PlaceInv, fifo
<1>5. ASSUME NEW c \in Cpu, InjectRx(c) PROVE PlaceInv'
  <2>0. /\ ch \in [Cpu -> Char \cup {Junk}] /\ ch[c] \in Char \cup {Junk}
        /\ ch' = [ch EXCEPT ![c] = Junk] /\ UNCHANGED <<outer, got>>
    BY <1>5, <1>a DEF InjectRx, TypeOK
  <2>1. \A d \in Cpu : pc'[d] # "push" => ch'[d] = Junk
    <3>1. \A d \in Cpu \ {c} : pc'[d] = pc[d]
      BY <1>5, <1>a DEF InjectRx, Goto, TypeOK
    <3> QED
      BY <2>0, <3>1 DEF PlaceInv
  <2>2. \A x \in Char : /\ Hands(x)' \in Nat /\ (ch[c] = x => Hands(x) > 0)
                        /\ Hands(x)' + (IF ch[c] = x THEN 1 ELSE 0) = Hands(x)
    <3> SUFFICES ASSUME NEW x \in Char
                 PROVE  /\ Hands(x)' \in Nat /\ (ch[c] = x => Hands(x) > 0)
                        /\ Hands(x)' + (IF ch[c] = x THEN 1 ELSE 0) = Hands(x)
      OBVIOUS
    <3>1. x # Junk
      BY <1>0
    <3>2. /\ Hands(x)' \in Nat /\ (ch[c] = x => Hands(x) > 0)
          /\ Hands(x)' + (IF ch[c] = x THEN 1 ELSE 0) = Hands(x) + (IF Junk = x THEN 1 ELSE 0)
      <4>1. Hands(x)' = Holding(ch', x) /\ Hands(x) = Holding(ch, x)
        BY DEF Hands, Holding
      <4> QED
        <5>1. /\ Holding(ch, x) \in Nat
              /\ Holding(ch', x) \in Nat
              /\ ch[c] = x => Holding(ch, x) > 0
              /\ Holding(ch', x) + (IF ch[c] = x THEN 1 ELSE 0)
                 = Holding(ch, x) + (IF ch'[c] = x THEN 1 ELSE 0)
          <6>1. /\ ch \in [Cpu -> Char \cup {Junk}] /\ ch' \in [Cpu -> Char \cup {Junk}]
                /\ \A d \in Cpu \ {c} : ch'[d] = ch[d]
            BY <2>0
          <6> QED
            BY <6>1, HandsStep
        <5> QED
          BY <2>0, <4>1, <5>1
    <3>3. Hands(x) \in Nat
      BY <1>b
    <3> QED
      BY <3>1, <3>2, <3>3
  <2>3. CASE RxFull
    <3>1. UNCHANGED fifo /\ dropped' = dropped \cup ({ch[c]} \ {Junk})
      BY <1>5, <2>3 DEF InjectRx
    <3>2. \A x \in Char : Total(x)' = Total(x)
      <4> SUFFICES ASSUME NEW x \in Char PROVE Total(x)' = Total(x)
        OBVIOUS
      <4>b. /\ Count(host, x) \in Nat /\ Hands(x) \in Nat /\ Count(Ring, x) \in Nat
            /\ Count(got, x) \in Nat /\ Cardinality({x} \cap dropped) \in Nat
            /\ Total(x) = Count(host, x) + Hands(x) + Count(Ring, x) + Count(got, x)
                          + Cardinality({x} \cap dropped)
        BY <1>b
      <4>0. x # Junk
        BY <1>0
      <4>1. Total(x)' = Count(host, x) + Hands(x)' + Count(Ring, x) + Count(got, x)
                        + Cardinality({x} \cap dropped')
        BY <2>0, <3>1 DEF Total, Ring, fifo, outer, Count
      <4>h. /\ Hands(x)' \in Nat /\ (ch[c] = x => Hands(x) > 0)
            /\ Hands(x)' + (IF ch[c] = x THEN 1 ELSE 0) = Hands(x)
        BY <2>2
      <4>2. Cardinality({x} \cap dropped') = IF x \in dropped \/ ch[c] = x THEN 1 ELSE 0
        <5>1. x \in dropped' <=> x \in dropped \/ ch[c] = x
          BY <3>1, <4>0
        <5> QED
          BY <5>1, DroppedCount
      <4>3. Cardinality({x} \cap dropped) = IF x \in dropped THEN 1 ELSE 0
        BY DroppedCount
      <4>4. ch[c] = x => x \notin dropped
        <5>1. Total(x) \in {0, 1}
          BY <1>c
        <5> QED
          BY <4>b, <4>h, <4>3, <5>1
      <4> QED
        BY <4>b, <4>h, <4>1, <4>2, <4>3, <4>4
    <3> QED
      BY <1>a, <2>0, <2>1, <3>1, <3>2 DEF PlaceInv, fifo, outer
  <2>4. CASE ~RxFull
    <3>1. /\ rx_fifo' = [rx_fifo EXCEPT ![rx_head] = ch[c]]
          /\ rx_head' = (rx_head + 1) % FifoSize /\ rx_count' = rx_count + 1
          /\ rx_tail' = rx_tail /\ dropped' = dropped
      BY <1>5, <2>4 DEF InjectRx
    <3>2. /\ Ring \in Seq(Char \cup {Junk}) /\ Ring' = Append(Ring, ch[c])
          /\ rx_head' = (rx_tail' + rx_count') % FifoSize
      BY <2>0, <2>4, <3>1, RingPush DEF PlaceInv
    <3>3. \A x \in Char : Total(x)' = Total(x)
      <4> SUFFICES ASSUME NEW x \in Char PROVE Total(x)' = Total(x)
        OBVIOUS
      <4>b. /\ Count(host, x) \in Nat /\ Hands(x) \in Nat /\ Count(Ring, x) \in Nat
            /\ Count(got, x) \in Nat /\ Cardinality({x} \cap dropped) \in Nat
            /\ Total(x) = Count(host, x) + Hands(x) + Count(Ring, x) + Count(got, x)
                          + Cardinality({x} \cap dropped)
        BY <1>b
      <4>1. Total(x)' = Count(host, x) + Hands(x)' + Count(Ring', x) + Count(got, x)
                        + Cardinality({x} \cap dropped)
        BY <2>0, <3>1 DEF Total, outer, Count
      <4>h. /\ Hands(x)' \in Nat /\ (ch[c] = x => Hands(x) > 0)
            /\ Hands(x)' + (IF ch[c] = x THEN 1 ELSE 0) = Hands(x)
        BY <2>2
      <4>2. Count(Ring', x) = Count(Ring, x) + (IF ch[c] = x THEN 1 ELSE 0)
        BY <2>0, <3>2, CountAppend
      <4> QED
        BY <4>b, <4>h, <4>1, <4>2
    <3> QED
      BY <1>a, <2>0, <2>1, <3>2, <3>3 DEF PlaceInv, outer
  <2> QED
    BY <2>3, <2>4
<1>6. ASSUME NEW c \in Cpu, UpdateIrq(c) PROVE PlaceInv'
  BY <1>6, <1>a, PlaceKept DEF UpdateIrq, Goto, TypeOK
<1>7. ASSUME NEW c \in Cpu, InjectIrq(c) PROVE PlaceInv'
  BY <1>7, <1>a, PlaceKept DEF InjectIrq, Goto, TypeOK
<1>8. ASSUME NEW c \in Cpu, GuestReadDr(c) PROVE PlaceInv'
  <2>0. /\ pc' = [pc EXCEPT ![c] = "update_guest"] /\ pc[c] = "out" /\ ch' = ch
        /\ UNCHANGED <<outer, dropped>>
    BY <1>8 DEF GuestReadDr, Goto, Access, InGuest
  <2>1. \A d \in Cpu : pc'[d] # "push" => ch'[d] = Junk
    BY <1>0, <1>a, <2>0 DEF PlaceInv, TypeOK
  <2>2. CASE RxEmpty
    <3>1. UNCHANGED <<outer, fifo, ch, hist>>
      BY <1>8, <2>0, <2>2 DEF GuestReadDr, hist, fifo
    <3> QED
      BY <1>0, <1>a, <2>0, <3>1, PlaceKept DEF TypeOK
  <2>3. CASE ~RxEmpty
    <3>1. /\ got' = Append(got, rx_fifo[rx_tail])
          /\ rx_tail' = (rx_tail + 1) % FifoSize /\ rx_count' = rx_count - 1
          /\ rx_head' = rx_head /\ rx_fifo' = rx_fifo
      BY <1>8, <2>3 DEF GuestReadDr
    <3>2. /\ Ring \in Seq(Char \cup {Junk}) /\ Ring # <<>>
          /\ Ring' = Tail(Ring) /\ rx_fifo[rx_tail] = Head(Ring)
          /\ rx_head' = (rx_tail' + rx_count') % FifoSize
      BY <2>3, <3>1, RingPop DEF PlaceInv
    <3>3. \A x \in Char : Total(x)' = Total(x)
      <4> SUFFICES ASSUME NEW x \in Char PROVE Total(x)' = Total(x)
        OBVIOUS
      <4>b. /\ Count(host, x) \in Nat /\ Hands(x) \in Nat /\ Count(Ring, x) \in Nat
            /\ Count(got, x) \in Nat /\ Cardinality({x} \cap dropped) \in Nat
            /\ Total(x) = Count(host, x) + Hands(x) + Count(Ring, x) + Count(got, x)
                          + Cardinality({x} \cap dropped)
        BY <1>b
      <4>1. Total(x)' = Count(host, x) + Hands(x) + Count(Ring', x) + Count(got', x)
                        + Cardinality({x} \cap dropped)
        BY <2>0 DEF Total, outer, Count, Hands
      <4>2. Count(Ring, x) = Count(Ring', x) + (IF Head(Ring) = x THEN 1 ELSE 0)
        BY <3>2, CountTail
      <4>3. Count(got', x) = Count(got, x) + (IF Head(Ring) = x THEN 1 ELSE 0)
        <5>1. Head(Ring) \in Char \cup {Junk}
          BY <3>2, <1>a DEF TypeOK
        <5> QED
          BY <1>a, <3>1, <3>2, <5>1, CountAppend DEF TypeOK
      <4>4. Count(Ring', x) \in Nat
        BY <3>2, HeadTailProperties, CountFinite
      <4> QED
        BY <4>b, <4>1, <4>2, <4>3, <4>4
    <3> QED
      BY <1>a, <2>0, <2>1, <3>2, <3>3 DEF PlaceInv, outer
  <2> QED
    BY <2>2, <2>3
<1>9. ASSUME NEW c \in Cpu, NEW on \in BOOLEAN, GuestWriteImsc(c, on) PROVE PlaceInv'
  BY <1>9, <1>a, PlaceKept DEF GuestWriteImsc, Goto, TypeOK, Access, InGuest
<1>10. ASSUME NEW c \in Cpu, GuestWriteIcr(c) \/ GuestWriteCr(c) PROVE PlaceInv'
  BY <1>10, <1>a, PlaceKept DEF GuestWriteIcr, GuestWriteCr, Goto, TypeOK, Access, InGuest
<1>11. ASSUME NEW c \in Cpu, GuestTakeIrq(c) \/ GuestIsrDone(c) PROVE PlaceInv'
  BY <1>11, <1>a, PlaceKept DEF GuestTakeIrq, GuestIsrDone
<1>12. CASE Yield
  BY <1>0, <1>12, <1>a, PlaceKept DEF Yield, YieldNext, Publish, Requeue, Goto, TypeOK
<1>13. ASSUME NEW c \in Cpu, StartVcpu(c) PROVE PlaceInv'
  BY <1>13, <1>a, PlaceKept DEF StartVcpu
<1>14. CASE UNCHANGED vars
  BY <1>14, <1>a, PlaceKept DEF vars, outer, fifo, hist
<1> QED
  BY <1>1, <1>2, <1>4, <1>5, <1>6, <1>7, <1>8, <1>9, <1>10, <1>11, <1>12, <1>13, <1>14
  DEF Next, Service, Guest

(* The ring starts empty and nothing has arrived.                           *)
LEMMA PlaceInit == Init => PlaceInv
<1> SUFFICES ASSUME Init PROVE PlaceInv
  OBVIOUS
<1>1. FifoSize \in Nat \ {0} /\ 0 \in Slot /\ NChar \in Nat
  BY FifoAssumption, CharAssumption DEF Slot
<1>2. TypeOK
  <2>1. host \in Seq(Char) /\ got \in Seq(Char \cup {Junk})
    BY DEF Init
  <2>2. rx_fifo \in [Slot -> Char \cup {Junk}] /\ ch \in [Cpu -> Char \cup {Junk}]
    BY DEF Init
  <2>3. pc \in [Cpu -> {"out", "flag", "data", "push", "update", "update_guest",
                       "inject", "inject_guest", "publish", "requeue"}]
    BY DEF Init
  <2>4. /\ imsc \in BOOLEAN /\ ris \in BOOLEAN /\ irq_latched \in BOOLEAN /\ listed \in BOOLEAN
        /\ cur \in [Cpu -> Task \cup {NoTask}] /\ virq \subseteq Task /\ isr \subseteq Task
        /\ lost \in BOOLEAN
    BY DEF Init
  <2> QED
    BY <1>1, <2>1, <2>2, <2>3, <2>4 DEF Init, TypeOK
<1>3. rx_head = (rx_tail + rx_count) % FifoSize
  <2>1. 0 \in 0..FifoSize
    BY <1>1
  <2>2. (0 + 0) % FifoSize = 0
    BY <1>1, <2>1, RingIndex
  <2> QED
    BY <2>2 DEF Init
<1>4. \A x \in Char : Total(x) = 0
  <2> SUFFICES ASSUME NEW x \in Char PROVE Total(x) = 0
    OBVIOUS
  <2>1. Len(host) = 0 /\ Len(got) = 0 /\ Len(Ring) = 0
    BY DEF Init, Ring
  <2>2. {i \in 1..0 : host[i] = x} = {} /\ {i \in 1..0 : got[i] = x} = {} /\ {i \in 1..0 : Ring[i] = x} = {}
    OBVIOUS
  <2>3. Count(host, x) = 0 /\ Count(got, x) = 0 /\ Count(Ring, x) = 0
    BY <2>1, <2>2, FS_EmptySet DEF Count
  <2>4. {c \in Cpu : ch[c] = x} = {}
    BY DEF Init, Junk, Char
  <2>5. Hands(x) = 0
    BY <2>4, FS_EmptySet DEF Hands, Holding
  <2>6. Cardinality({x} \cap dropped) = 0
    BY DroppedCount DEF Init
  <2> QED
    BY <2>3, <2>5, <2>6 DEF Total
<1> QED
  BY <1>2, <1>3, <1>4 DEF PlaceInv, Init, Char

(* The ring's indices and count stay in range, for any number of pCPUs that *)
(* push into the emulated PL011 while the guest pops.                       *)
THEOREM UartTypes == Spec => []TypeOK
<1>1. Init => TypeOK
  BY PlaceInit DEF PlaceInv
<1> QED
  BY <1>1, TypeStep, PTL DEF Spec

(* Every character the host's UART received is in one place, whatever the   *)
(* number of pCPUs in uart_emul_service_host and the size of the ring.      *)
THEOREM NothingLost == Spec => []Conserved
<1>1. PlaceInv => Conserved
  <2> SUFFICES ASSUME PlaceInv, NEW x \in 1..arrived PROVE Total(x) = 1
    BY DEF Conserved, Total, Hands, Holding
  <2>1. x \in Char /\ x <= arrived
    BY CharAssumption DEF PlaceInv, TypeOK, Char
  <2> QED
    BY <2>1 DEF PlaceInv
<1> QED
  BY <1>1, PlaceInit, PlaceStep, PTL DEF Spec
=============================================================================
