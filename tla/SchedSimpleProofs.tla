------------------------- MODULE SchedSimpleProofs -------------------------
(***************************************************************************)
(* What insertion into and extraction from the ready list do to its length, *)
(* its entries and their uniqueness, for lists of any length.               *)
(***************************************************************************)
EXTENDS SchedSimple, SequenceTheorems, FiniteSetTheorems, TLAPS

(* Insertion at position i (__insert_task_sorted) adds one entry and keeps  *)
(* the others in order.                                                     *)
LEMMA InsertAtEntries ==
    ASSUME NEW S, NEW s \in Seq(S), NEW e \in S, NEW i \in 1..(Len(s) + 1)
    PROVE  /\ InsertAt(s, i, e) \in Seq(S)
           /\ Len(InsertAt(s, i, e)) = Len(s) + 1
           /\ \A k \in 1..(Len(s) + 1) :
                InsertAt(s, i, e)[k] = IF k < i THEN s[k]
                                       ELSE IF k = i THEN e ELSE s[k - 1]
<1> DEFINE a == SubSeq(s, 1, i - 1)
           b == SubSeq(s, i, Len(s))
           m == a \o <<e>>
<1>0. Len(s) \in Nat /\ \A k \in 1..Len(s) : s[k] \in S
  BY LenProperties, ElementOfSeq
<1>1. a \in Seq(S) /\ Len(a) = i - 1 /\ \A k \in 1..(i - 1) : a[k] = s[k]
  BY <1>0, SubSeqProperties
<1>2. /\ b \in Seq(S) /\ Len(b) = Len(s) - i + 1
      /\ \A k \in 1..(Len(s) - i + 1) : b[k] = s[i + k - 1]
  BY <1>0, SubSeqProperties
<1>3. <<e>> \in Seq(S) /\ Len(<<e>>) = 1 /\ <<e>>[1] = e
  OBVIOUS
<1> HIDE DEF a, b
<1>4. m \in Seq(S) /\ Len(m) = i /\ \A k \in 1..i : m[k] = IF k < i THEN s[k] ELSE e
  <2>1. /\ m \in Seq(S) /\ Len(m) = Len(a) + 1
        /\ \A k \in 1..(Len(a) + 1) : m[k] = IF k <= Len(a) THEN a[k] ELSE <<e>>[k - Len(a)]
    BY <1>1, <1>3, ConcatProperties
  <2> QED
    BY <2>1, <1>1, <1>3
<1> HIDE DEF m
<1>5. /\ m \o b \in Seq(S) /\ Len(m \o b) = Len(m) + Len(b)
      /\ \A k \in 1..(Len(m) + Len(b)) : (m \o b)[k] = IF k <= Len(m) THEN m[k] ELSE b[k - Len(m)]
  BY <1>2, <1>4, ConcatProperties
<1>6. InsertAt(s, i, e) = m \o b
  BY DEF InsertAt, m, a, b
<1> QED
  BY <1>0, <1>2, <1>4, <1>5, <1>6

(* Extraction of entry i (simple_scheduler_next_no_publish) closes the gap. *)
LEMMA RemoveAtEntries ==
    ASSUME NEW S, NEW s \in Seq(S), NEW i \in 1..Len(s)
    PROVE  /\ RemoveAt(s, i) \in Seq(S)
           /\ Len(RemoveAt(s, i)) = Len(s) - 1
           /\ \A k \in 1..(Len(s) - 1) :
                RemoveAt(s, i)[k] = IF k < i THEN s[k] ELSE s[k + 1]
<1> DEFINE a == SubSeq(s, 1, i - 1)
           b == SubSeq(s, i + 1, Len(s))
<1>0. Len(s) \in Nat /\ \A k \in 1..Len(s) : s[k] \in S
  BY LenProperties, ElementOfSeq
<1>1. a \in Seq(S) /\ Len(a) = i - 1 /\ \A k \in 1..(i - 1) : a[k] = s[k]
  BY <1>0, SubSeqProperties
<1>2. /\ b \in Seq(S) /\ Len(b) = Len(s) - i
      /\ \A k \in 1..(Len(s) - i) : b[k] = s[i + k]
  <2>1. /\ b \in Seq(S) /\ Len(b) = IF i + 1 <= Len(s) THEN Len(s) - (i + 1) + 1 ELSE 0
        /\ \A k \in 1..(Len(s) - (i + 1) + 1) : b[k] = s[(i + 1) + k - 1]
    BY <1>0, SubSeqProperties
  <2> QED
    BY <1>0, <2>1
<1> HIDE DEF a, b
<1>3. /\ a \o b \in Seq(S) /\ Len(a \o b) = Len(a) + Len(b)
      /\ \A k \in 1..(Len(a) + Len(b)) : (a \o b)[k] = IF k <= Len(a) THEN a[k] ELSE b[k - Len(a)]
  BY <1>1, <1>2, ConcatProperties
<1>4. RemoveAt(s, i) = a \o b
  BY DEF RemoveAt, a, b
<1>5. Len(a) + Len(b) = Len(s) - 1
  BY <1>0, <1>1, <1>2
<1>6. ASSUME NEW k \in 1..(Len(s) - 1)
      PROVE  (a \o b)[k] = IF k < i THEN s[k] ELSE s[k + 1]
  <2>1. (a \o b)[k] = IF k <= Len(a) THEN a[k] ELSE b[k - Len(a)]
    BY <1>3, <1>5
  <2>2. CASE k < i
    <3>1. k <= Len(a) /\ k \in 1..(i - 1)
      BY <2>2, <1>0, <1>1
    <3> QED
      BY <2>1, <2>2, <3>1, <1>1
  <2>3. CASE ~(k < i)
    <3>1. ~(k <= Len(a)) /\ k - Len(a) = k - i + 1 /\ k - i + 1 \in 1..(Len(s) - i)
      BY <2>3, <1>0, <1>1
    <3>2. b[k - i + 1] = s[i + (k - i + 1)] /\ i + (k - i + 1) = k + 1
      BY <3>1, <1>0, <1>2
    <3> QED
      BY <2>1, <2>3, <3>1, <3>2
  <2> QED
    BY <2>2, <2>3
<1> QED
  BY <1>3, <1>4, <1>5, <1>6

(* simple_scheduler_sched leaves a list of tasks.                           *)
LEMMA InsertType ==
    ASSUME NEW S, NEW s \in Seq(S), NEW e \in S, NEW prio, NEW r, Insert(s, prio, e, r)
    PROVE  r \in Seq(S)
<1>1. PICK i \in 1..(Len(s) + 1) : r = InsertAt(s, i, e)
  BY DEF Insert
<1>2. InsertAt(s, i, e) \in Seq(S)
  BY InsertAtEntries
<1> QED
  BY <1>1, <1>2

(* An insertion of simple_scheduler_sched leaves a list of distinct tasks   *)
(* that holds the old ones and the new one, if the new one was not on it.   *)
THEOREM InsertKeepsUnique ==
    ASSUME NEW S, NEW s \in Seq(S), NEW e \in S, NEW prio, NEW r,
           IsInjective(s), e \notin ToSet(s), Insert(s, prio, e, r)
    PROVE  r \in Seq(S) /\ IsInjective(r) /\ ToSet(r) = ToSet(s) \cup {e}
<1>1. PICK i \in 1..(Len(s) + 1) : r = InsertAt(s, i, e)
  BY DEF Insert
<1>2. /\ r \in Seq(S) /\ Len(r) = Len(s) + 1
      /\ \A k \in 1..(Len(s) + 1) : r[k] = IF k < i THEN s[k] ELSE IF k = i THEN e ELSE s[k - 1]
  <2>1. /\ InsertAt(s, i, e) \in Seq(S)
        /\ Len(InsertAt(s, i, e)) = Len(s) + 1
        /\ \A k \in 1..(Len(s) + 1) :
              InsertAt(s, i, e)[k] = IF k < i THEN s[k] ELSE IF k = i THEN e ELSE s[k - 1]
    BY InsertAtEntries
  <2> QED
    BY <1>1, <2>1
<1>3. Len(s) \in Nat /\ DOMAIN s = 1..Len(s) /\ DOMAIN r = 1..(Len(s) + 1)
  BY <1>2, LenProperties
<1>4. \A k \in 1..Len(s) : s[k] # e
  BY <1>3 DEF ToSet
<1>5. IsInjective(r)
  <2> SUFFICES ASSUME NEW j \in 1..(Len(s) + 1), NEW k \in 1..(Len(s) + 1), r[j] = r[k]
               PROVE  j = k
    BY <1>3 DEF IsInjective
  <2>1. \A x, y \in 1..Len(s) : s[x] = s[y] => x = y
    BY <1>3 DEF IsInjective
  <2> DEFINE old(x) == IF x < i THEN x ELSE x - 1
  <2>2. ASSUME NEW x \in 1..(Len(s) + 1), x # i
        PROVE  old(x) \in 1..Len(s) /\ r[x] = s[old(x)]
    BY <1>2, <1>3, <2>2
  <2>3. r[i] = e
    BY <1>2
  <2>4. CASE j # i /\ k # i
    <3>1. old(j) = old(k)
      BY <2>1, <2>2, <2>4
    <3> QED
      BY <3>1, <2>4, <1>3
  <2>5. CASE j = i \/ k = i
    BY <2>2, <2>3, <2>5, <1>4
  <2> QED
    BY <2>4, <2>5
<1>6. ToSet(r) = ToSet(s) \cup {e}
  <2>1. ASSUME NEW x \in ToSet(r) PROVE x \in ToSet(s) \cup {e}
    BY <1>2, <1>3 DEF ToSet
  <2>2. ASSUME NEW k \in 1..Len(s) PROVE s[k] \in ToSet(r)
    <3>1. CASE k < i
      BY <3>1, <1>2, <1>3 DEF ToSet
    <3>2. CASE k >= i
      <4>1. k + 1 \in 1..(Len(s) + 1) /\ r[k + 1] = s[k]
        BY <3>2, <1>2, <1>3
      <4> QED
        BY <4>1, <1>3 DEF ToSet
    <3> QED
      BY <3>1, <3>2, <1>3
  <2>3. e \in ToSet(r)
    BY <1>2, <1>3 DEF ToSet
  <2> QED
    BY <2>1, <2>2, <2>3, <1>3 DEF ToSet
<1> QED
  BY <1>2, <1>5, <1>6

(* The extraction of simple_scheduler_next_no_publish leaves a list of      *)
(* distinct tasks: the old ones without the one it returns.                 *)
LEMMA RemoveKeepsUnique ==
    ASSUME NEW S, NEW s \in Seq(S), NEW i \in 1..Len(s), IsInjective(s)
    PROVE  /\ RemoveAt(s, i) \in Seq(S)
           /\ IsInjective(RemoveAt(s, i))
           /\ ToSet(RemoveAt(s, i)) = ToSet(s) \ {s[i]}
<1> DEFINE r == RemoveAt(s, i)
<1>2. /\ r \in Seq(S) /\ Len(r) = Len(s) - 1
      /\ \A k \in 1..(Len(s) - 1) : r[k] = IF k < i THEN s[k] ELSE s[k + 1]
  BY RemoveAtEntries
<1> HIDE DEF r
<1>3. Len(s) \in Nat /\ DOMAIN s = 1..Len(s) /\ DOMAIN r = 1..(Len(s) - 1)
  BY <1>2, LenProperties
<1>4. \A x, y \in 1..Len(s) : s[x] = s[y] => x = y
  BY <1>3 DEF IsInjective
<1>5. IsInjective(r)
  <2> SUFFICES ASSUME NEW j \in 1..(Len(s) - 1), NEW k \in 1..(Len(s) - 1), r[j] = r[k]
               PROVE  j = k
    BY <1>3 DEF IsInjective
  <2> QED
    BY <1>2, <1>3, <1>4
<1>6. ToSet(r) = ToSet(s) \ {s[i]}
  <2>1. ASSUME NEW k \in 1..(Len(s) - 1) PROVE r[k] \in ToSet(s) \ {s[i]}
    <3>1. CASE k < i
      <4>1. k \in 1..Len(s) /\ r[k] = s[k] /\ k # i
        BY <3>1, <1>2, <1>3
      <4> QED
        BY <4>1, <1>3, <1>4 DEF ToSet
    <3>2. CASE k >= i
      <4>1. k + 1 \in 1..Len(s) /\ r[k] = s[k + 1] /\ k + 1 # i
        BY <3>2, <1>2, <1>3
      <4> QED
        BY <4>1, <1>3, <1>4 DEF ToSet
    <3> QED
      BY <3>1, <3>2, <1>3
  <2>2. ASSUME NEW k \in 1..Len(s), k # i PROVE s[k] \in ToSet(r)
    <3>1. CASE k < i
      BY <3>1, <1>2, <1>3 DEF ToSet
    <3>2. CASE k > i
      <4>1. k - 1 \in 1..(Len(s) - 1) /\ r[k - 1] = s[k]
        BY <3>2, <1>2, <1>3
      <4> QED
        BY <4>1, <1>3 DEF ToSet
    <3> QED
      BY <3>1, <3>2, <2>2, <1>3
  <2> QED
    BY <2>1, <2>2, <1>3 DEF ToSet
<1> QED
  BY <1>2, <1>5, <1>6 DEF r

-----------------------------------------------------------------------------
(* A finite set of numbers can be walked in increasing order: for each      *)
(* count k up to its size, one of them has k members up to itself.          *)
LEMMA RankOnto ==
    ASSUME NEW S \in SUBSET Int, IsFiniteSet(S), NEW k \in 1..Cardinality(S)
    PROVE  \E x \in S : Cardinality({y \in S : y <= x}) = k
<1> DEFINE upto(x) == {y \in S : y <= x}
           f == [x \in S |-> Cardinality(upto(x))]
<1>1. Cardinality(S) \in Nat
  BY FS_CardinalityType
<1>2. ASSUME NEW x \in S
      PROVE  /\ IsFiniteSet(upto(x)) /\ Cardinality(upto(x)) \in 1..Cardinality(S)
  <2>1. upto(x) \in SUBSET S /\ x \in upto(x)
    OBVIOUS
  <2> HIDE DEF upto
  <2>2. /\ IsFiniteSet(upto(x)) /\ Cardinality(upto(x)) <= Cardinality(S)
        /\ Cardinality(upto(x)) \in Nat /\ Cardinality(upto(x)) # 0
    BY <2>1, FS_Subset, FS_CardinalityType, FS_EmptySet
  <2> QED
    BY <1>1, <2>2
<1>3. ASSUME NEW x \in S, NEW z \in S, x < z
      PROVE  Cardinality(upto(x)) # Cardinality(upto(z))
  <2>0. x \in Int /\ z \in Int /\ \A y \in S : y \in Int
    OBVIOUS
  <2>1. (\A y \in upto(x) : y \in upto(z)) /\ z \in upto(z) /\ z \notin upto(x)
    BY <1>3, <2>0
  <2> HIDE DEF upto
  <2> QED
    BY <1>2, <2>1, FS_Subset
<1>4. f \in Injection(S, 1..Cardinality(S))
  <2>1. f \in [S -> 1..Cardinality(S)]
    BY <1>2
  <2>2. ASSUME NEW x \in S, NEW z \in S, f[x] = f[z] PROVE x = z
    <3>1. x < z \/ z < x \/ x = z
      OBVIOUS
    <3> QED
      BY <1>3, <2>2, <3>1
  <2> HIDE DEF f
  <2> QED
    BY <2>1, <2>2 DEF Injection, IsInjective
<1>5. IsFiniteSet(1..Cardinality(S)) /\ Cardinality(1..Cardinality(S)) = Cardinality(S)
  BY <1>1, FS_Interval
<1>6. f \in Surjection(S, 1..Cardinality(S))
  BY <1>4, <1>5, FS_Injection
<1>7. \E x \in S : f[x] = k
  BY <1>6 DEF Surjection
<1> QED
  BY <1>7
=============================================================================
