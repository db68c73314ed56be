---------------------------- MODULE VGicProofs -----------------------------
(***************************************************************************)
(* Facts about a vIRQ queue and its flush into the list registers, for any  *)
(* number of vINTIDs and list registers.                                    *)
(***************************************************************************)
EXTENDS VGic, SequenceTheorems, FiniteSetTheorems, TLAPS

(* A queue that gic_vcpu_inject_virq and gic_vcpu_flush_lr may leave: within *)
(* VCPU_MAX_PENDING_VIRQ, no vINTID twice.                                   *)
GoodQueue(q) == q \in Seq(Virq) /\ Len(q) <= QMax /\ IsInjective(q)

(* gic_vcpu_inject_virq returns a queue, and keeps a good one good.         *)
THEOREM InjectQueue ==
    ASSUME NEW q \in Seq(Virq), NEW v \in Virq
    PROVE  /\ InjectVirq(q, v) \in Seq(Virq)
           /\ GoodQueue(q) => GoodQueue(InjectVirq(q, v))
<1>1. CASE Len(q) >= QMax \/ Contains(q, v)
  BY <1>1 DEF InjectVirq
<1>2. CASE ~(Len(q) >= QMax \/ Contains(q, v))
  <2> DEFINE r == Append(q, v)
  <2>1. InjectVirq(q, v) = r
    BY <1>2 DEF InjectVirq
  <2>2. /\ r \in Seq(Virq) /\ Len(r) = Len(q) + 1
        /\ \A i \in 1..Len(q) : r[i] = q[i]
        /\ r[Len(q) + 1] = v
    BY AppendProperties
  <2> HIDE DEF r
  <2>3. Len(q) \in Nat /\ DOMAIN q = 1..Len(q) /\ DOMAIN r = 1..(Len(q) + 1)
    BY <2>2, LenProperties
  <2>4. Len(r) <= QMax
    BY <1>2, <2>2, <2>3, QMaxAssumption
  <2>5. ASSUME IsInjective(q) PROVE IsInjective(r)
    <3> SUFFICES ASSUME NEW i \in 1..(Len(q) + 1), NEW j \in 1..(Len(q) + 1), r[i] = r[j]
                 PROVE  i = j
      BY <2>3 DEF IsInjective
    <3>1. \A k \in 1..Len(q) : q[k] # v
      BY <1>2 DEF Contains
    <3>2. \A k, l \in 1..Len(q) : q[k] = q[l] => k = l
      BY <2>3, <2>5 DEF IsInjective
    <3> QED
      BY <2>2, <2>3, <3>1, <3>2
  <2> QED
    BY <2>1, <2>2, <2>4, <2>5 DEF GoodQueue
<1> QED
  BY <1>1, <1>2

(* The free list registers are finitely many.                               *)
LEMMA FreeLrsFinite ==
    ASSUME NEW l
    PROVE  IsFiniteSet(FreeLrs(l)) /\ Cardinality(FreeLrs(l)) \in Nat
<1>1. IsFiniteSet(1..NLr)
  BY FS_Interval, LrAssumption
<1>2. FreeLrs(l) \subseteq 1..NLr
  BY DEF FreeLrs
<1> QED
  BY <1>1, <1>2, FS_Subset, FS_CardinalityType

(* What gic_vcpu_flush_lr leaves queued is the tail of the queue.           *)
THEOREM FlushQueueIsTail ==
    ASSUME NEW q \in Seq(Virq), NEW l
    PROVE  /\ FlushQueue(q, l) \in Seq(Virq)
           /\ GoodQueue(q) => GoodQueue(FlushQueue(q, l))
<1> DEFINE n == Cardinality(FreeLrs(l))
           r == FlushQueue(q, l)
<1>1. n \in Nat
  BY FreeLrsFinite
<1>2. Len(q) \in Nat /\ DOMAIN q = 1..Len(q) /\ \A i \in 1..Len(q) : q[i] \in Virq
  BY LenProperties, ElementOfSeq
<1> HIDE DEF n
<1>3. /\ r \in Seq(Virq)
      /\ Len(r) = IF n + 1 <= Len(q) THEN Len(q) - (n + 1) + 1 ELSE 0
      /\ \A i \in 1..(Len(q) - (n + 1) + 1) : r[i] = q[(n + 1) + i - 1]
  <2>1. \A i \in (n + 1)..Len(q) : q[i] \in Virq
    BY <1>1, <1>2
  <2>2. /\ SubSeq(q, n + 1, Len(q)) \in Seq(Virq)
        /\ Len(SubSeq(q, n + 1, Len(q))) = IF n + 1 <= Len(q) THEN Len(q) - (n + 1) + 1 ELSE 0
        /\ \A i \in 1..(Len(q) - (n + 1) + 1) : SubSeq(q, n + 1, Len(q))[i] = q[(n + 1) + i - 1]
    BY <1>1, <1>2, <2>1, SubSeqProperties
  <2> QED
    BY <2>2 DEF FlushQueue, n
<1> HIDE DEF r
<1>4. DOMAIN r = 1..Len(r) /\ Len(r) \in Nat /\ Len(r) <= Len(q)
  <2>1. DOMAIN r = 1..Len(r) /\ Len(r) \in Nat
    BY <1>3, LenProperties
  <2>2. Len(q) \in Nat /\ Len(r) = IF n + 1 <= Len(q) THEN Len(q) - (n + 1) + 1 ELSE 0
    BY <1>2, <1>3
  <2>3. Len(r) <= Len(q)
    BY <2>1, <2>2, <1>1
  <2> QED
    BY <2>1, <2>3
<1>5. ASSUME IsInjective(q) PROVE IsInjective(r)
  <2> SUFFICES ASSUME NEW i \in 1..Len(r), NEW j \in 1..Len(r), r[i] = r[j]
               PROVE  i = j
    BY <1>4 DEF IsInjective
  <2>1. \A k, m \in 1..Len(q) : q[k] = q[m] => k = m
    BY <1>2, <1>5 DEF IsInjective
  <2>2. ASSUME NEW k \in 1..Len(r) PROVE n + k \in 1..Len(q) /\ r[k] = q[n + k]
    <3>0. Len(q) \in Nat /\ Len(r) = IF n + 1 <= Len(q) THEN Len(q) - (n + 1) + 1 ELSE 0
      BY <1>2, <1>3
    <3>1. Len(r) = Len(q) - n /\ k \in 1..(Len(q) - (n + 1) + 1)
      BY <3>0, <1>1, <1>4
    <3>2. n + k \in 1..Len(q) /\ (n + 1) + k - 1 = n + k
      BY <3>1, <1>1, <1>2
    <3> QED
      BY <3>1, <3>2, <1>3
  <2>3. n + i = n + j
    BY <2>1, <2>2
  <2> QED
    BY <2>3, <1>1, <1>4
<1>6. Len(q) <= QMax => Len(r) <= QMax
  BY <1>2, <1>4, QMaxAssumption
<1> QED
  BY <1>3, <1>5, <1>6 DEF GoodQueue, r

(* gic_vcpu_flush_lr writes vINTIDs of the queue and nothing else.          *)
THEOREM FlushLrsType ==
    ASSUME NEW q \in Seq(Virq), NEW l \in Lrs
    PROVE  FlushLrs(q, l) \in Lrs
<1> SUFFICES ASSUME NEW i \in 1..NLr, LrFree(l, i), Rank(l, i) <= Len(q)
             PROVE  q[Rank(l, i)] \in Virq
  BY DEF FlushLrs, Lrs, PendingLr, LrStates
<1> DEFINE S == {j \in FreeLrs(l) : j <= i}
<1>1. IsFiniteSet(S) /\ Cardinality(S) \in Nat
  BY FreeLrsFinite, FS_Subset, FS_CardinalityType
<1>2. i \in S
  BY LrAssumption DEF FreeLrs
<1>3. Cardinality(S) # 0
  BY <1>1, <1>2, FS_EmptySet
<1>4. Rank(l, i) \in 1..Len(q)
  BY <1>1, <1>3, LenProperties DEF Rank
<1> QED
  BY <1>4, ElementOfSeq

(* A register file of zeroes is one.                                        *)
LEMMA ZeroLrsType ==
    ASSUME Virq # {}
    PROVE  ZeroLrs \in Lrs
BY DEF ZeroLrs, Lrs, LrStates

(* The guest's acknowledgement of a list register leaves a register file.   *)
LEMMA AckType ==
    ASSUME NEW l \in Lrs, NEW i \in 1..NLr
    PROVE  [l EXCEPT ![i].state = "active"] \in Lrs
<1>1. l[i] \in [state : LrStates, vintid : Virq]
  BY DEF Lrs
<1>2. [l[i] EXCEPT !.state = "active"] \in [state : LrStates, vintid : Virq]
  BY <1>1 DEF LrStates
<1> QED
  BY <1>2 DEF Lrs
=============================================================================
