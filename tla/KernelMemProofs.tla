--------------------------- MODULE KernelMemProofs --------------------------
(***************************************************************************)
(* Exclusive ownership of pages follows from what PagePool promises, and    *)
(* the page allocator keeps that promise, for every number of pages, word   *)
(* width, alignment and set of request sizes.  The searches of              *)
(* src/core/bitmap.c are recursive functions; what they compute is proved   *)
(* by taking the least point at which a claim about them would fail.        *)
(* The heap of src/core/tlsf.c stays sound for every pool and every set of  *)
(* requests: the invariant says which blocks tile the pool and which of     *)
(* them the call under way has taken out of marks and lists, so that each   *)
(* function of tlsf.c has a lemma of its own and a call is their sequence.  *)
(* From it, the heap implements HeapSpec: what a call returns was free,     *)
(* aligned and long enough, and no call fails while a free run would serve. *)
(***************************************************************************)
EXTENDS KernelMem, SequenceTheorems, WellFoundedInduction, TLAPS

-----------------------------------------------------------------------------
(* The pool                                                                 *)

(* A run of pages that fits meets no block that is held: alloc_pages_cnt    *)
(* answering with it gives no page away twice.                              *)
LEMMA AllocExclusive ==
    ASSUME Exclusive, NEW cnt \in Counts, PoolAlloc(cnt)
    PROVE  Exclusive'
<1>1. PICK pfn \in Page :
          /\ Fits(pfn, cnt)
          /\ blocks' = blocks \cup {[pfn |-> pfn, cnt |-> cnt]}
  BY DEF PoolAlloc
<1> DEFINE new == [pfn |-> pfn, cnt |-> cnt]
<1>2. new \in Block /\ new.pfn + new.cnt <= NPages
  BY <1>1 DEF Block, Fits
<1>3. \A b \in blocks : Pages(new.pfn, new.cnt) \cap Pages(b.pfn, b.cnt) = {}
  BY <1>1 DEF Fits
<1>4. \A b \in blocks' : b \in Block /\ b.pfn + b.cnt <= NPages
  <2> SUFFICES ASSUME NEW b \in blocks'
               PROVE  b \in Block /\ b.pfn + b.cnt <= NPages
    OBVIOUS
  <2>1. CASE b \in blocks
    BY <2>1 DEF Exclusive
  <2>2. CASE b = new
    BY <2>2, <1>2
  <2> QED
    BY <1>1, <2>1, <2>2
<1>5. ASSUME NEW b \in blocks', NEW c \in blocks', b # c
      PROVE  Pages(b.pfn, b.cnt) \cap Pages(c.pfn, c.cnt) = {}
  <2> HIDE DEF new
  <2>1. CASE b \in blocks /\ c \in blocks
    BY <2>1, <1>5 DEF Exclusive
  <2>2. CASE b = new /\ c \in blocks
    BY <2>2, <1>3
  <2>3. CASE b \in blocks /\ c = new
    BY <2>3, <1>3
  <2> QED
    BY <1>1, <1>5, <2>1, <2>2, <2>3 DEF new
<1> QED
  BY <1>4, <1>5 DEF Exclusive, Block, Page, Pages

(* Whatever is asked for and given back, in whatever order, no page of      *)
(* alloc_pages_cnt is in the hands of two callers or outside of memory.     *)
LEMMA PagesExclusive == PoolSpec => []Exclusive
<1>1. PoolInit => Exclusive
  BY DEF PoolInit, Exclusive
<1>2. Exclusive /\ [PoolNext]_poolVars => Exclusive'
  <2> SUFFICES ASSUME Exclusive, [PoolNext]_poolVars
               PROVE  Exclusive'
    OBVIOUS
  <2>1. ASSUME NEW cnt \in Counts, PoolAlloc(cnt)
        PROVE  Exclusive'
    BY <2>1, AllocExclusive
  <2>2. ASSUME NEW cnt \in Counts, PoolFail(cnt)
        PROVE  Exclusive'
    BY <2>2 DEF PoolFail, Exclusive, Block, Page, Pages
  <2>3. ASSUME NEW b \in blocks, PoolFree(b)
        PROVE  Exclusive'
    BY <2>3 DEF PoolFree, Exclusive, Block, Page, Pages
  <2>4. CASE UNCHANGED poolVars
    BY <2>4 DEF poolVars, Exclusive, Block, Page, Pages
  <2> QED
    BY <2>1, <2>2, <2>3, <2>4 DEF PoolNext
<1> QED
  BY <1>1, <1>2, PTL DEF PoolSpec

-----------------------------------------------------------------------------
(* Numbers                                                                  *)

(* A set of natural numbers that is not empty has a least element.          *)
LEMMA LeastNumber ==
    ASSUME NEW T \in SUBSET Nat, T # {}
    PROVE  \E m \in T : \A n \in T : m <= n
<1> DEFINE R == {ss \in Nat \X Nat : ss[1] < ss[2]}
<1>1. IsWellFoundedOn(R, Nat)
  BY NatLessThanWellFounded DEF OpToRel
<1> HIDE DEF R
<1>2. \E m \in T : \A n \in T : ~(<<n, m>> \in R)
  BY <1>1, WFMin
<1> USE DEF R
<1>3. PICK m \in T : \A n \in T : ~(<<n, m>> \in R)
  BY <1>2
<1>4. \A n \in T : ~(n < m)
  BY <1>3
<1> QED
  BY <1>4

(* Words and their bits.                                                    *)
LEMMA WordOf ==
    ASSUME NEW n \in Nat
    PROVE  /\ n \div W \in Nat /\ (n \div W) * W \in Nat
           /\ (n \div W) * W <= n /\ n < (n \div W) * W + W
BY WordAssumption

(* AlignUp is the first aligned page from index on.                         *)
LEMMA AlignUpIs ==
    ASSUME NEW n \in Nat
    PROVE  /\ AlignUp(n) \in Nat /\ AlignUp(n) >= n /\ AlignUp(n) % Align = 0
           /\ \A p \in Nat : p % Align = 0 /\ p >= n => p >= AlignUp(n)
<1> DEFINE A == Align
           m == n + A - 1
           q == m \div A
<1>0. A \in Nat \ {0} /\ m \in Nat
  BY AlignAssumption
<1>1. q \in Nat /\ q * A \in Nat /\ q * A <= m /\ m < q * A + A
  BY <1>0
<1>2. AlignUp(n) = q * A
  BY DEF AlignUp
<1>3. (q * A) % A = 0
  BY <1>0, <1>1
<1>4. ASSUME NEW p \in Nat, p % A = 0, p >= n PROVE p >= q * A
  <2> DEFINE k == p \div A
  <2>1. k \in Nat /\ p = k * A
    BY <1>0, <1>4
  <2>2. CASE k >= q
    <3>1. k * A >= q * A
      BY <1>0, <1>1, <2>1, <2>2
    <3> QED
      BY <2>1, <3>1
  <2>3. CASE k < q
    <3>1. (k + 1) * A <= q * A /\ (k + 1) * A = k * A + A
      BY <1>0, <1>1, <2>1, <2>3
    <3>2. p + A <= q * A
      BY <2>1, <3>1
    <3> QED
      BY <1>0, <1>1, <1>4, <3>2
  <2> QED
    BY <1>0, <1>1, <2>1, <2>2, <2>3
<1> QED
  BY <1>0, <1>1, <1>2, <1>3, <1>4

(* Going down from n + 1, what is passed on from k + 1 to k reaches 0.       *)
LEMMA Downward ==
    ASSUME NEW n \in Nat, NEW G, n + 1 \in G,
           \A k \in 0..n : k + 1 \in G => k \in G
    PROVE  \A k \in 0..(n + 1) : k \in G
<1> DEFINE Bad == {j \in 0..(n + 1) : (n + 1) - j \notin G}
<1>1. Bad = {}
  <2> SUFFICES ASSUME Bad # {} PROVE FALSE
    OBVIOUS
  <2>1. PICK j \in Bad : \A i \in Bad : j <= i
    <3>1. Bad \in SUBSET Nat
      OBVIOUS
    <3> QED
      BY <3>1, LeastNumber
  <2>2. j \in 0..(n + 1) /\ (n + 1) - j \notin G
    OBVIOUS
  <2>3. j # 0
    <3>1. (n + 1) - 0 = n + 1
      OBVIOUS
    <3> QED
      BY <2>2, <3>1
  <2>4. j - 1 \notin Bad
    BY <2>1, <2>2
  <2>5. (n + 1) - (j - 1) \in G
    BY <2>2, <2>3, <2>4
  <2>6. (n + 1) - (j - 1) = ((n + 1) - j) + 1 /\ (n + 1) - j \in 0..n
    BY <2>2, <2>3
  <2>7. ((n + 1) - j) + 1 \in G
    BY <2>5, <2>6
  <2> QED
    BY <2>2, <2>6, <2>7
<1>2. ASSUME NEW k \in 0..(n + 1) PROVE k \in G
  <2>1. (n + 1) - k \in 0..(n + 1) /\ (n + 1) - ((n + 1) - k) = k
    OBVIOUS
  <2>2. (n + 1) - k \notin Bad
    BY <1>1
  <2>3. (n + 1) - ((n + 1) - k) \in G
    BY <2>1, <2>2
  <2> QED
    BY <2>1, <2>3
<1> QED
  BY <1>2

(* A search over 0..n that at each point stops with val, or goes on at a    *)
(* later point nxt; and the function that says what it finds from each.     *)
Advances(n, V, stop, val, nxt) ==
    \A s \in 0..n : IF s \in stop THEN val[s] \in V ELSE nxt[s] \in (s + 1)..n
Solves(f, n, stop, val, nxt) ==
    \A s \in 0..n : f[s] = IF s \in stop THEN val[s] ELSE f[nxt[s]]

(* Such a search has a solution.                                            *)
LEMMA Recursion ==
    ASSUME NEW n \in Nat, NEW V, NEW stop, NEW val, NEW nxt,
           Advances(n, V, stop, val, nxt)
    PROVE  \E f \in [0..n -> V] : Solves(f, n, stop, val, nxt)
<1> USE DEF Advances, Solves
<1> DEFINE Good(k) == \E f \in [k..n -> V] :
                          \A s \in k..n : f[s] = IF s \in stop THEN val[s] ELSE f[nxt[s]]
           G == {k \in 0..(n + 1) : Good(k)}
<1>1. n + 1 \in G
  <2>1. (n + 1)..n = {}
    OBVIOUS
  <2> DEFINE f == [s \in (n + 1)..n |-> CHOOSE x \in V : TRUE]
  <2>2. f \in [(n + 1)..n -> V]
    BY <2>1
  <2>3. Good(n + 1)
    BY <2>1, <2>2
  <2> HIDE DEF Good
  <2> QED
    BY <2>3
<1>2. ASSUME NEW k \in 0..n, k + 1 \in G PROVE k \in G
  <2>4. Good(k + 1)
    <3> HIDE DEF Good
    <3> QED
      BY <1>2
  <2>5. PICK f \in [(k + 1)..n -> V] : \A s \in (k + 1)..n : f[s] = IF s \in stop THEN val[s] ELSE f[nxt[s]]
    BY <2>4
  <2> DEFINE g == [s \in k..n |-> IF s \in (k + 1)..n THEN f[s] ELSE IF k \in stop THEN val[k] ELSE f[nxt[k]]]
  <2>7. IF k \in stop THEN val[k] \in V ELSE nxt[k] \in (k + 1)..n
    OBVIOUS
  <2>8. \A s \in k..n : s = k \/ s \in (k + 1)..n
    OBVIOUS
  <2>9. k \notin (k + 1)..n /\ k \in k..n /\ (k + 1)..n \subseteq k..n
    OBVIOUS
  <2>10. g \in [k..n -> V]
    BY <2>5, <2>7, <2>8
  <2>11. \A s \in (k + 1)..n : g[s] = f[s]
    BY <2>9
  <2>12. ASSUME NEW s \in k..n PROVE g[s] = IF s \in stop THEN val[s] ELSE g[nxt[s]]
    <3>1. CASE s = k
      <4>1. g[k] = IF k \in stop THEN val[k] ELSE f[nxt[k]]
        BY <2>9
      <4> HIDE DEF g
      <4> QED
        BY <2>7, <2>11, <3>1, <4>1
    <3>2. CASE s \in (k + 1)..n
      <4>1. g[s] = IF s \in stop THEN val[s] ELSE f[nxt[s]]
        BY <2>5, <2>11, <3>2
      <4>2. s \notin stop => nxt[s] \in (k + 1)..n
        <5>1. s \in 0..n /\ s >= k + 1
          BY <3>2
        <5>2. IF s \in stop THEN val[s] \in V ELSE nxt[s] \in (s + 1)..n
          BY <5>1
        <5> QED
          BY <5>1, <5>2
      <4> HIDE DEF g
      <4> QED
        BY <2>11, <4>1, <4>2
    <3> QED
      BY <2>8, <3>1, <3>2
  <2> HIDE DEF g
  <2>13. Good(k)
    BY <2>10, <2>12
  <2> HIDE DEF Good
  <2> QED
    BY <2>13
<1>3. Good(0)
  <2> HIDE DEF Good
  <2>1. 0 \in G
    <3> HIDE DEF G
    <3>1. \A k \in 0..(n + 1) : k \in G
      BY <1>1, <1>2, Downward
    <3> QED
      BY <3>1
  <2> QED
    BY <2>1
<1> QED
  BY <1>3

-----------------------------------------------------------------------------
(* The searches of src/core/bitmap.c                                         *)

(* _find_next_bit answers the first bit from start on that is 1, or 0 when  *)
(* invert is TRUE, and nbits when there is none below nbits.                *)
LEMMA FindNextIs ==
    ASSUME NEW bitmap \in SUBSET Nat, NEW nbits \in Nat, NEW start \in Nat,
           NEW invert \in BOOLEAN
    PROVE  \E r \in 0..nbits :
               /\ FindNext(bitmap, nbits, start, invert) = r
               /\ start <= nbits => start <= r
               /\ \A b \in start..(r - 1) : (b \in bitmap) = invert
               /\ r < nbits => (r \in bitmap) # invert
<1> DEFINE n == nbits \div W + 1
           Tmp(k) == {b \in Word(bitmap, k, invert) : b >= start}
           scan[k \in 0..(nbits \div W + 1)] ==
               LET tmp == {b \in Word(bitmap, k, invert) : b >= start}
               IN  IF k * W >= nbits THEN nbits
                   ELSE IF tmp # {} THEN SmallerOf(Min(tmp), nbits)
                   ELSE scan[k + 1]
<1>1. FindNext(bitmap, nbits, start, invert) = IF start >= nbits THEN nbits ELSE scan[start \div W]
  BY DEF FindNext
<1> DEFINE stop == {k \in 0..n : k * W >= nbits \/ Tmp(k) # {}}
           val == [k \in 0..n |-> IF k * W >= nbits THEN nbits ELSE SmallerOf(Min(Tmp(k)), nbits)]
           nxt == [k \in 0..n |-> k + 1]
<1>2. n \in Nat /\ n * W >= nbits
  BY WordOf, WordAssumption
<1>3. \A k \in 0..n : k * W \in Nat /\ (k + 1) * W = k * W + W
  BY <1>2, WordAssumption
<1>4. ASSUME NEW k \in 0..n, Tmp(k) # {}
      PROVE  \E m \in Tmp(k) : Min(Tmp(k)) = m /\ \A b \in Tmp(k) : m <= b
  <2>1. Tmp(k) \in SUBSET Nat
    BY <1>3, WordAssumption DEF Word
  <2> HIDE DEF Tmp
  <2>2. \E m \in Tmp(k) : \A b \in Tmp(k) : m <= b
    BY <1>4, <2>1, LeastNumber
  <2> QED
    BY <2>2 DEF Min
<1>0. \A k \in 0..n : /\ k \in stop <=> k * W >= nbits \/ Tmp(k) # {}
                      /\ val[k] = IF k * W >= nbits THEN nbits ELSE SmallerOf(Min(Tmp(k)), nbits)
                      /\ nxt[k] = k + 1
  <2> HIDE DEF Tmp, n
  <2> QED
    OBVIOUS
<1>5. \A k \in 0..n : IF k \in stop THEN val[k] \in 0..nbits ELSE nxt[k] \in (k + 1)..n
  <2> SUFFICES ASSUME NEW k \in 0..n
               PROVE  IF k \in stop THEN val[k] \in 0..nbits ELSE nxt[k] \in (k + 1)..n
    OBVIOUS
  <2>1. CASE k * W >= nbits
    <3> HIDE DEF val, stop, nxt, Tmp, n
    <3>1. k \in stop /\ val[k] = nbits
      BY <1>0, <2>1
    <3> QED
      BY <3>1
  <2>2. CASE k * W < nbits /\ Tmp(k) # {}
    <3>1. PICK m \in Tmp(k) : Min(Tmp(k)) = m
      BY <1>4, <2>2
    <3>2. m \in Nat
      BY <1>3, WordAssumption DEF Word
    <3> HIDE DEF val, stop, Tmp, n
    <3>3. val[k] = SmallerOf(m, nbits) /\ k \in stop
      <4>1. k * W \in Nat /\ ~(k * W >= nbits)
        BY <1>3, <2>2
      <4> QED
        BY <1>0, <2>2, <3>1, <4>1
    <3> QED
      BY <3>2, <3>3 DEF SmallerOf
  <2>3. CASE k * W < nbits /\ Tmp(k) = {}
    <3>1. k # n
      BY <1>2, <1>3, <2>3
    <3> HIDE DEF val, stop, nxt, Tmp, n
    <3>2. k \notin stop /\ nxt[k] = k + 1
      <4>1. k * W \in Nat /\ ~(k * W >= nbits)
        BY <1>3, <2>3
      <4> QED
        BY <1>0, <2>3, <4>1
    <3> QED
      BY <1>2, <3>1, <3>2
  <2> QED
    BY <1>3, <2>1, <2>2, <2>3
<1>6. \E f \in [0..n -> 0..nbits] : Solves(f, n, stop, val, nxt)
  <2>1. n \in Nat /\ Advances(n, 0..nbits, stop, val, nxt)
    BY <1>2, <1>5 DEF Advances
  <2> HIDE DEF n, stop, val, nxt
  <2> QED
    BY <2>1, Recursion
<1>7. \E f : f = [k \in 0..(nbits \div W + 1) |->
                     LET tmp == {b \in Word(bitmap, k, invert) : b >= start}
                     IN  IF k * W >= nbits THEN nbits
                         ELSE IF tmp # {} THEN SmallerOf(Min(tmp), nbits)
                         ELSE f[k + 1]]
  <2>1. PICK f \in [0..n -> 0..nbits] : \A k \in 0..n : f[k] = IF k \in stop THEN val[k] ELSE f[nxt[k]]
    <3> HIDE DEF n, stop, val, nxt
    <3> QED
      BY <1>6 DEF Solves
  <2>2. \A k \in 0..n : (IF k \in stop THEN val[k] ELSE f[nxt[k]])
                        = IF k * W >= nbits THEN nbits
                          ELSE IF Tmp(k) # {} THEN SmallerOf(Min(Tmp(k)), nbits)
                          ELSE f[k + 1]
    <3> HIDE DEF Tmp, n
    <3> QED
      OBVIOUS
  <2>3. f = [k \in 0..n |-> IF k * W >= nbits THEN nbits
                            ELSE IF Tmp(k) # {} THEN SmallerOf(Min(Tmp(k)), nbits)
                            ELSE f[k + 1]]
    <3> HIDE DEF Tmp, n, stop, val, nxt
    <3>1. f = [k \in 0..n |-> f[k]]
      OBVIOUS
    <3> QED
      BY <2>1, <2>2, <3>1
  <2> QED
    BY <2>3
<1>8. scan = [k \in 0..(nbits \div W + 1) |->
                 LET tmp == {b \in Word(bitmap, k, invert) : b >= start}
                 IN  IF k * W >= nbits THEN nbits
                     ELSE IF tmp # {} THEN SmallerOf(Min(tmp), nbits)
                     ELSE scan[k + 1]]
  BY <1>7
<1>9. \A k \in 0..n : scan[k] = IF k * W >= nbits THEN nbits
                                ELSE IF Tmp(k) # {} THEN SmallerOf(Min(Tmp(k)), nbits)
                                ELSE scan[k + 1]
  <2> HIDE DEF scan
  <2> QED
    BY <1>8
<1> HIDE DEF scan
(* What the scan from word k on answers.                                    *)
<1> DEFINE Found(k) == /\ scan[k] \in 0..nbits
                       /\ \A b \in (k * W)..(scan[k] - 1) : b >= start => (b \in bitmap) = invert
                       /\ scan[k] < nbits => scan[k] >= start /\ (scan[k] \in bitmap) # invert
           G == {k \in 0..(n + 1) : k <= n => Found(k)}
<1>10. n + 1 \in G
  BY <1>2
<1>11. ASSUME NEW k \in 0..n, k + 1 \in G PROVE k \in G
  <2> HIDE DEF n
  <2>0. k * W \in Nat /\ (k + 1) * W = k * W + W /\ W \in Nat \ {0}
    BY <1>3, WordAssumption
  <2>1. CASE k * W >= nbits
    <3>1. scan[k] = nbits
      BY <1>9, <2>1
    <3>2. (k * W)..(nbits - 1) = {}
      BY <2>0, <2>1
    <3>3. Found(k)
      BY <3>1, <3>2
    <3> QED
      BY <1>2, <3>3
  <2>2. CASE k * W < nbits /\ Tmp(k) # {}
    <3>1. PICK m \in Tmp(k) : Min(Tmp(k)) = m /\ \A b \in Tmp(k) : m <= b
      BY <1>4, <2>2
    <3>2. m \in (k * W)..(k * W + W - 1) /\ (m \in bitmap) # invert /\ m >= start /\ m \in Nat
      BY <2>0 DEF Word
    <3>3. scan[k] = IF m < nbits THEN m ELSE nbits
      <4> HIDE DEF Tmp
      <4> QED
        BY <1>9, <2>0, <2>2, <3>1 DEF SmallerOf
    <3>4. \A b \in (k * W)..(m - 1) : b >= start => (b \in bitmap) = invert
      BY <2>0, <3>1, <3>2 DEF Word
    <3>5. Found(k)
      BY <2>0, <3>2, <3>3, <3>4
    <3> QED
      BY <1>2, <3>5
  <2>3. CASE k * W < nbits /\ Tmp(k) = {}
    <3>1. scan[k] = scan[k + 1]
      <4> HIDE DEF Tmp
      <4> QED
        BY <1>9, <2>0, <2>3
    <3>2. \A b \in (k * W)..(k * W + W - 1) : b >= start => (b \in bitmap) = invert
      BY <2>0, <2>3 DEF Word
    <3>3. k + 1 <= n
      <4> USE DEF n
      <4> QED
        BY <1>2, <2>0, <2>3
    <3>4. Found(k + 1)
      BY <1>2, <1>11, <3>3
    <3>5. Found(k)
      <4>1. scan[k] \in 0..nbits /\ (scan[k] < nbits => scan[k] >= start /\ (scan[k] \in bitmap) # invert)
        BY <3>1, <3>4
      <4>2. ASSUME NEW b \in (k * W)..(scan[k] - 1), b >= start PROVE (b \in bitmap) = invert
        <5>1. CASE b < k * W + W
          BY <2>0, <3>2, <4>1, <4>2, <5>1
        <5>2. CASE b >= k * W + W
          <6>1. b \in ((k + 1) * W)..(scan[k + 1] - 1)
            BY <2>0, <3>1, <4>1, <5>2
          <6> QED
            BY <3>4, <4>2, <6>1
        <5> QED
          BY <2>0, <4>1, <5>1, <5>2
      <4> QED
        BY <4>1, <4>2
    <3> QED
      BY <1>2, <3>5
  <2> QED
    BY <2>0, <2>1, <2>2, <2>3
<1>12. \A k \in 0..(n + 1) : k \in G
  <2> HIDE DEF G, n
  <2> QED
    BY <1>2, <1>10, <1>11, Downward
<1>13. CASE start >= nbits
  BY <1>1, <1>13
<1>14. CASE start < nbits
  <2> DEFINE k == start \div W
  <2>1. k \in 0..n /\ k * W <= start
    <3>1. k \in Nat /\ k * W <= start
      BY WordOf
    <3>2. k * W < n * W
      BY <1>2, <1>14, <3>1, WordAssumption
    <3> HIDE DEF n, k
    <3> QED
      BY <1>2, <3>1, <3>2, WordAssumption
  <2>2. Found(k)
    <3> HIDE DEF n, k
    <3>1. k \in 0..(n + 1) /\ k <= n
      BY <1>2, <2>1
    <3> HIDE DEF Found
    <3> QED
      BY <1>12, <3>1
  <2>3. FindNext(bitmap, nbits, start, invert) = scan[k]
    BY <1>1, <1>14
  <2> HIDE DEF k, n
  <2>4. k * W \in Nat
    BY <1>3, <2>1
  <2> DEFINE r == scan[k]
  <2>5. r \in 0..nbits /\ start <= r /\ (r < nbits => (r \in bitmap) # invert)
    BY <1>14, <2>2
  <2>6. \A b \in start..(r - 1) : (b \in bitmap) = invert
    BY <2>1, <2>2, <2>4, <2>5
  <2> QED
    BY <2>3, <2>5, <2>6
<1> QED
  BY <1>13, <1>14

(* find_next_zero_bit: the same, for a search for a 0.                       *)
LEMMA NextZero ==
    ASSUME NEW bitmap \in SUBSET Nat, NEW nbits \in Nat, NEW start \in 0..nbits
    PROVE  \E r \in start..nbits :
               /\ FindNext(bitmap, nbits, start, TRUE) = r
               /\ \A b \in start..(r - 1) : b \in bitmap
               /\ r < nbits => r \notin bitmap
<1> DEFINE invert == TRUE
<1>1. invert \in BOOLEAN
  OBVIOUS
<1>2. start \in Nat /\ start <= nbits
  OBVIOUS
<1> HIDE DEF invert
<1>3. PICK r \in 0..nbits :
          /\ FindNext(bitmap, nbits, start, invert) = r
          /\ start <= nbits => start <= r
          /\ \A b \in start..(r - 1) : (b \in bitmap) = invert
          /\ r < nbits => (r \in bitmap) # invert
  BY <1>1, <1>2, FindNextIs
<1>4. /\ FindNext(bitmap, nbits, start, TRUE) = r
      /\ \A b \in start..(r - 1) : b \in bitmap
      /\ r < nbits => r \notin bitmap
  BY <1>3 DEF invert
<1>5. r \in start..nbits
  BY <1>2, <1>3
<1> QED
  BY <1>4, <1>5, Zenon

(* find_next_bit: the same, for a search for a 1.                          *)
LEMMA NextOne ==
    ASSUME NEW bitmap \in SUBSET Nat, NEW nbits \in Nat, NEW start \in 0..nbits
    PROVE  \E r \in start..nbits :
               /\ FindNext(bitmap, nbits, start, FALSE) = r
               /\ \A b \in start..(r - 1) : b \notin bitmap
               /\ r < nbits => r \in bitmap
<1> DEFINE invert == FALSE
<1>1. invert \in BOOLEAN
  OBVIOUS
<1>2. start \in Nat /\ start <= nbits
  OBVIOUS
<1> HIDE DEF invert
<1>3. PICK r \in 0..nbits :
          /\ FindNext(bitmap, nbits, start, invert) = r
          /\ start <= nbits => start <= r
          /\ \A b \in start..(r - 1) : (b \in bitmap) = invert
          /\ r < nbits => (r \in bitmap) # invert
  BY <1>1, <1>2, FindNextIs
<1>4. /\ FindNext(bitmap, nbits, start, FALSE) = r
      /\ \A b \in start..(r - 1) : b \notin bitmap
      /\ r < nbits => r \in bitmap
  <2> USE DEF invert
  <2>1. FindNext(bitmap, nbits, start, FALSE) = r
    BY <1>3
  <2>2. ASSUME NEW b \in start..(r - 1) PROVE b \notin bitmap
    <3>1. (b \in bitmap) = FALSE
      BY <1>3, Zenon
    <3> QED
      BY <3>1
  <2>3. ASSUME r < nbits PROVE r \in bitmap
    <3>1. (r \in bitmap) # FALSE
      BY <1>3, <2>3, Zenon
    <3>2. r \notin bitmap => (r \in bitmap) = FALSE
      OBVIOUS
    <3> QED
      BY <3>1, <3>2, Zenon
  <2> QED
    BY <2>1, <2>2, <2>3, Zenon
<1>5. r \in start..nbits
  BY <1>2, <1>3
<1> QED
  BY <1>4, <1>5, Zenon

(* A run of nr zero bits below size that starts at an aligned bit.          *)
ZeroArea(bitmap, size, nr, p) ==
    p % Align = 0 /\ p + nr <= size /\ Pages(p, nr) \cap bitmap = {}

(* bitmap_find_next_zero_area answers the lowest such run, or a number that *)
(* is not below size when there is none.                                    *)
LEMMA ZeroAreaIs ==
    ASSUME NEW bitmap \in SUBSET Nat, NEW size \in Nat, NEW nr \in Nat \ {0}
    PROVE  \E r \in Nat :
               /\ FindNextZeroArea(bitmap, size, nr) = r
               /\ r < size => /\ ZeroArea(bitmap, size, nr, r)
                              /\ \A p \in 0..(r - 1) : ~ZeroArea(bitmap, size, nr, p)
               /\ r >= size => \A p \in Nat : ~ZeroArea(bitmap, size, nr, p)
<1> DEFINE ZeroAt(p) == ZeroArea(bitmap, size, nr, p)
           Idx(s) == AlignUp(FindNext(bitmap, size, s, TRUE))
           End(s) == Idx(s) + nr
           Way(s) == FindNext(bitmap, End(s), Idx(s), FALSE)
           again[start \in 0..size] ==
               LET index == AlignUp(FindNext(bitmap, size, start, TRUE))
                   end   == index + nr
                   i     == FindNext(bitmap, end, index, FALSE)
               IN  IF end > size THEN end
                   ELSE IF i < end THEN again[i + 1]
                   ELSE index
           stop == {s \in 0..size : End(s) > size \/ ~(Way(s) < End(s))}
           val == [s \in 0..size |-> IF End(s) > size THEN End(s) ELSE Idx(s)]
           nxt == [s \in 0..size |-> Way(s) + 1]
<1>1. FindNextZeroArea(bitmap, size, nr) = again[0]
  BY DEF FindNextZeroArea
(* A free run from s on does not begin before Idx(s).                       *)
<1>2. ASSUME NEW s \in 0..size
      PROVE  /\ Idx(s) \in Nat /\ Idx(s) >= s /\ Idx(s) % Align = 0
             /\ \A p \in Nat : p >= s /\ ZeroAt(p) => p >= Idx(s)
  <2>1. PICK f \in s..size : /\ FindNext(bitmap, size, s, TRUE) = f
                             /\ \A b \in s..(f - 1) : b \in bitmap
    BY NextZero, Zenon
  <2>2. /\ AlignUp(f) \in Nat /\ AlignUp(f) >= f /\ AlignUp(f) % Align = 0
        /\ \A p \in Nat : p % Align = 0 /\ p >= f => p >= AlignUp(f)
    BY AlignUpIs
  <2>3. ASSUME NEW p \in Nat, p >= s, ZeroAt(p) PROVE p >= f
    <3>1. p \in Pages(p, nr)
      BY DEF Pages
    <3>2. p \notin bitmap
      BY <2>3, <3>1 DEF ZeroArea
    <3> QED
      BY <2>1, <2>3, <3>2
  <2>4. \A p \in Nat : p >= s /\ ZeroAt(p) => p >= AlignUp(f)
    BY <2>2, <2>3 DEF ZeroArea
  <2>5. Idx(s) = AlignUp(f)
    BY <2>1
  <2>6. AlignUp(f) >= s
    BY <2>1, <2>2
  <2> QED
    BY <2>2, <2>4, <2>5, <2>6
(* Nor does it contain the bit that is in the way.                          *)
<1>3. ASSUME NEW s \in 0..size
      PROVE  /\ Way(s) \in Idx(s)..End(s)
             /\ Way(s) < End(s) => \A p \in Nat : p >= s /\ ZeroAt(p) => p >= Way(s) + 1
             /\ ~(Way(s) < End(s)) /\ End(s) <= size => ZeroAt(Idx(s))
  <2> DEFINE x == Idx(s)
  <2>1. /\ x \in Nat /\ x >= s /\ x % Align = 0
        /\ \A p \in Nat : p >= s /\ ZeroAt(p) => p >= x
    BY <1>2
  <2> HIDE DEF x
  <2>2. x + nr \in Nat
    BY <2>1
  <2>3. PICK i \in x..(x + nr) : /\ FindNext(bitmap, x + nr, x, FALSE) = i
                                 /\ \A b \in x..(i - 1) : b \notin bitmap
                                 /\ i < x + nr => i \in bitmap
    <3>1. x \in 0..(x + nr)
      BY <2>1
    <3> QED
      BY <2>2, <3>1, NextOne, Zenon
  <2>4. x <= i
    BY <2>1, <2>3
  <2>5. ASSUME i < x + nr, NEW p \in Nat, p >= s, ZeroAt(p) PROVE p >= i + 1
    <3>1. p >= x /\ Pages(p, nr) \cap bitmap = {}
      BY <2>1, <2>5 DEF ZeroArea
    <3>2. i \notin Pages(p, nr)
      BY <2>3, <2>5, <3>1
    <3> QED
      BY <2>1, <2>3, <2>5, <3>1, <3>2 DEF Pages
  <2>6. ASSUME ~(i < x + nr), x + nr <= size PROVE ZeroAt(x)
    <3>1. Pages(x, nr) \cap bitmap = {}
      BY <2>1, <2>3, <2>6 DEF Pages
    <3> QED
      BY <2>1, <2>6, <3>1 DEF ZeroArea
  <2>7. Idx(s) = x /\ End(s) = x + nr /\ Way(s) = i
    BY <2>3 DEF x
  <2> HIDE DEF ZeroAt, Idx, End, Way
  <2> QED
    BY <2>1, <2>3, <2>4, <2>5, <2>6, <2>7
<1>4. \A s \in 0..size : Idx(s) \in Nat /\ End(s) = Idx(s) + nr /\ End(s) \in Nat /\ Way(s) \in Nat
  <2> HIDE DEF Idx, Way
  <2> QED
    BY <1>2, <1>3
<1>5. \A s \in 0..size :
          /\ s \in stop <=> End(s) > size \/ ~(Way(s) < End(s))
          /\ val[s] = IF End(s) > size THEN End(s) ELSE Idx(s)
          /\ nxt[s] = Way(s) + 1
  <2> HIDE DEF Idx, End, Way
  <2> QED
    OBVIOUS
<1>6. Advances(size, Nat, stop, val, nxt)
  <2> SUFFICES ASSUME NEW s \in 0..size
               PROVE  IF s \in stop THEN val[s] \in Nat ELSE nxt[s] \in (s + 1)..size
    BY DEF Advances
  <2> HIDE DEF stop, val, nxt, Idx, End, Way, ZeroAt
  <2> QED
    BY <1>2, <1>3, <1>4, <1>5
<1>7. PICK f0 \in [0..size -> Nat] : Solves(f0, size, stop, val, nxt)
  <2> HIDE DEF stop, val, nxt
  <2> QED
    BY <1>6, Recursion
<1>8. \E f : f = [start \in 0..size |->
                     LET index == AlignUp(FindNext(bitmap, size, start, TRUE))
                         end   == index + nr
                         i     == FindNext(bitmap, end, index, FALSE)
                     IN  IF end > size THEN end
                         ELSE IF i < end THEN f[i + 1]
                         ELSE index]
  <2>1. \A s \in 0..size : f0[s] = IF s \in stop THEN val[s] ELSE f0[nxt[s]]
    <3> HIDE DEF stop, val, nxt
    <3> QED
      BY <1>7 DEF Solves
  <2>2. \A s \in 0..size : (IF s \in stop THEN val[s] ELSE f0[nxt[s]])
                           = IF End(s) > size THEN End(s)
                             ELSE IF Way(s) < End(s) THEN f0[Way(s) + 1]
                             ELSE Idx(s)
    <3> HIDE DEF stop, val, nxt, Idx, End, Way
    <3> QED
      BY <1>5
  <2>3. f0 = [s \in 0..size |-> IF End(s) > size THEN End(s)
                                ELSE IF Way(s) < End(s) THEN f0[Way(s) + 1]
                                ELSE Idx(s)]
    <3> HIDE DEF stop, val, nxt, Idx, End, Way
    <3>1. f0 = [s \in 0..size |-> f0[s]]
      OBVIOUS
    <3> QED
      BY <2>1, <2>2, <3>1
  <2> QED
    BY <2>3
<1>9. again = [start \in 0..size |->
                  LET index == AlignUp(FindNext(bitmap, size, start, TRUE))
                      end   == index + nr
                      i     == FindNext(bitmap, end, index, FALSE)
                  IN  IF end > size THEN end
                      ELSE IF i < end THEN again[i + 1]
                      ELSE index]
  BY <1>8
<1>10. \A s \in 0..size : again[s] = IF End(s) > size THEN End(s)
                                     ELSE IF Way(s) < End(s) THEN again[Way(s) + 1]
                                     ELSE Idx(s)
  <2> HIDE DEF again
  <2> QED
    BY <1>9
<1> HIDE DEF again, stop, val, nxt, Idx, End, Way, ZeroAt
(* What the search from s on answers.                                       *)
<1> DEFINE Found(s) ==
               /\ again[s] \in Nat
               /\ again[s] < size => /\ ZeroAt(again[s])
                                     /\ \A p \in s..(again[s] - 1) : ~ZeroAt(p)
               /\ again[s] >= size => \A p \in Nat : p >= s => ~ZeroAt(p)
           Least(s) == \A t \in s..size : Found(t)
           G == {s \in 0..(size + 1) : Least(s)}
<1>11. size + 1 \in G
  OBVIOUS
<1>12. ASSUME NEW s \in 0..size, s + 1 \in G PROVE s \in G
  <2>0. /\ Idx(s) \in Nat /\ End(s) = Idx(s) + nr /\ Way(s) \in Nat
        /\ Way(s) <= End(s) /\ Idx(s) >= s /\ Idx(s) <= Way(s)
    BY <1>2, <1>3, <1>4
  <2>1. CASE End(s) > size
    <3>1. again[s] = End(s)
      BY <1>10, <2>1
    <3>2. \A p \in Nat : p >= s => ~ZeroAt(p)
      <4>1. \A p \in Nat : ZeroAt(p) => p + nr <= size
        BY DEF ZeroAt, ZeroArea
      <4> QED
        BY <1>2, <2>0, <2>1, <4>1
    <3>3. Found(s)
      BY <2>0, <2>1, <3>1, <3>2
    <3> HIDE DEF Found
    <3> QED
      BY <1>12, <3>3
  <2>2. CASE End(s) <= size /\ Way(s) < End(s)
    <3>1. again[s] = again[Way(s) + 1]
      BY <1>10, <2>0, <2>2
    <3> DEFINE t == Way(s) + 1
    <3>2. t \in (s + 1)..size
      BY <2>0, <2>2
    <3>3. Found(t)
      <4> HIDE DEF Found, t
      <4> QED
        BY <1>12, <3>2
    <3>4. \A p \in Nat : p >= s /\ ZeroAt(p) => p >= t
      BY <1>3, <2>2
    <3>5. again[s] = again[t]
      BY <3>1
    <3> HIDE DEF t
    <3>6. Found(s)
      BY <3>2, <3>3, <3>4, <3>5
    <3> HIDE DEF Found
    <3> QED
      BY <1>12, <3>6
  <2>3. CASE End(s) <= size /\ ~(Way(s) < End(s))
    <3>1. again[s] = Idx(s)
      BY <1>10, <2>0, <2>3
    <3>2. ZeroAt(Idx(s)) /\ Idx(s) < size /\ \A p \in Nat : p >= s /\ ZeroAt(p) => p >= Idx(s)
      <4>1. ZeroAt(Idx(s))
        BY <1>3, <2>3
      <4>2. \A p \in Nat : p >= s /\ ZeroAt(p) => p >= Idx(s)
        BY <1>2
      <4> QED
        BY <2>0, <2>3, <4>1, <4>2
    <3>3. Found(s)
      BY <2>0, <3>1, <3>2
    <3> HIDE DEF Found
    <3> QED
      BY <1>12, <3>3
  <2> QED
    BY <2>0, <2>1, <2>2, <2>3
<1>13. \A s \in 0..(size + 1) : s \in G
  <2> HIDE DEF G
  <2> QED
    BY <1>11, <1>12, Downward
<1>14. Found(0)
  <2> HIDE DEF Found
  <2>1. 0 \in G
    <3> HIDE DEF G
    <3> QED
      BY <1>13
  <2> QED
    BY <2>1
<1> QED
  BY <1>1, <1>14 DEF ZeroAt

-----------------------------------------------------------------------------
(* The allocator                                                             *)

(* The inductive invariant.                                                 *)
AllocInv == Exclusive /\ MapIsBlocks

(* The bitmap is one of page numbers.                                       *)
LEMMA MapOfPages ==
    ASSUME AllocInv
    PROVE  map \in SUBSET Nat
<1>1. \A b \in blocks : b.pfn \in Nat /\ b.cnt \in Nat
  <2>1. \A b \in blocks : b.pfn \in Page /\ b.cnt \in Counts
    BY DEF AllocInv, Exclusive, Block
  <2>2. Page \subseteq Nat /\ Counts \subseteq Nat
    BY PagesAssumption, CountsAssumption DEF Page
  <2> QED
    BY <2>1, <2>2
<1>2. \A b \in blocks : Pages(b.pfn, b.cnt) \subseteq Nat
  BY <1>1 DEF Pages
<1> QED
  BY <1>2 DEF AllocInv, MapIsBlocks

(* A run is free in the bitmap when it meets no block.                      *)
LEMMA FitsIsZeroArea ==
    ASSUME AllocInv, NEW p, NEW cnt
    PROVE  Fits(p, cnt) <=> ZeroArea(map, NPages, cnt, p)
<1>1. Pages(p, cnt) \cap map = {}
      <=> \A b \in blocks : Pages(p, cnt) \cap Pages(b.pfn, b.cnt) = {}
  BY DEF AllocInv, MapIsBlocks
<1> QED
  BY <1>1 DEF Fits, ZeroArea

(* alloc_pages_cnt takes the lowest run that fits, fails only when there is *)
(* none, and marks exactly the pages it hands out.                          *)
LEMMA AllocStep ==
    ASSUME AllocInv, NEW cnt \in Counts, AllocPagesCnt(cnt)
    PROVE  (PoolAlloc(cnt) \/ PoolFail(cnt)) /\ AllocInv'
<1>1. map \in SUBSET Nat /\ NPages \in Nat /\ cnt \in Nat \ {0}
  BY MapOfPages, PagesAssumption, CountsAssumption
<1>2. PICK r \in Nat :
          /\ FindNextZeroArea(map, NPages, cnt) = r
          /\ r < NPages => /\ ZeroArea(map, NPages, cnt, r)
                           /\ \A p \in 0..(r - 1) : ~ZeroArea(map, NPages, cnt, p)
          /\ r >= NPages => \A p \in Nat : ~ZeroArea(map, NPages, cnt, p)
  BY <1>1, ZeroAreaIs
<1>3. CASE r >= NPages
  <2>1. got' = NPages /\ UNCHANGED <<map, blocks>>
    BY <1>2, <1>3 DEF AllocPagesCnt
  <2>2. \A p \in Page : ~Fits(p, cnt)
    <3>1. \A p \in Page : p \in Nat
      BY <1>1 DEF Page
    <3> QED
      BY <1>2, <1>3, <3>1, FitsIsZeroArea
  <2>3. PoolFail(cnt)
    BY <2>1, <2>2 DEF PoolFail
  <2>4. AllocInv'
    BY <2>1 DEF AllocInv, Exclusive, MapIsBlocks, Block, Page, Pages
  <2> QED
    BY <2>3, <2>4
<1>4. CASE r < NPages
  <2> DEFINE new == [pfn |-> r, cnt |-> cnt]
  <2>1. map' = map \cup Pages(r, cnt) /\ blocks' = blocks \cup {new} /\ got' = r
    BY <1>1, <1>2, <1>4 DEF AllocPagesCnt
  <2>2. Fits(r, cnt) /\ \A p \in 0..(r - 1) : ~Fits(p, cnt)
    BY <1>2, <1>4, FitsIsZeroArea
  <2>3. r \in Page
    BY <1>1, <1>4 DEF Page
  <2>4. PoolAlloc(cnt)
    BY <2>1, <2>2, <2>3 DEF PoolAlloc
  <2>5. Exclusive'
    BY <2>4, AllocExclusive DEF AllocInv
  <2>6. MapIsBlocks'
    <3>1. Pages(new.pfn, new.cnt) = Pages(r, cnt)
      OBVIOUS
    <3> HIDE DEF new
    <3> QED
      BY <2>1, <3>1 DEF AllocInv, MapIsBlocks, Pages
  <2> QED
    BY <2>4, <2>5, <2>6 DEF AllocInv
<1> QED
  BY <1>1, <1>3, <1>4

(* free_pages_cnt clears the bits of the block and of no other.             *)
LEMMA FreeStep ==
    ASSUME AllocInv, NEW b \in blocks, FreePagesCnt(b)
    PROVE  PoolFree(b) /\ AllocInv'
<1>1. map' = map \ Pages(b.pfn, b.cnt) /\ blocks' = blocks \ {b} /\ UNCHANGED got
  BY DEF FreePagesCnt
<1>2. PoolFree(b)
  BY <1>1 DEF PoolFree
<1>3. Exclusive'
  BY <1>1 DEF AllocInv, Exclusive, Block, Page, Pages
<1>4. \A c \in blocks : c # b => Pages(b.pfn, b.cnt) \cap Pages(c.pfn, c.cnt) = {}
  BY DEF AllocInv, Exclusive
<1>5. map = UNION {Pages(c.pfn, c.cnt) : c \in blocks}
  BY DEF AllocInv, MapIsBlocks
<1>6. map' = UNION {Pages(c.pfn, c.cnt) : c \in blocks'}
  BY <1>1, <1>4, <1>5
<1> QED
  BY <1>2, <1>3, <1>6 DEF AllocInv, MapIsBlocks, Pages

(* Whoever calls, a step keeps the bitmap true and is a step of the pool;   *)
(* the heap's own steps leave the pages alone.                              *)
LEMMA KmStep ==
    ASSUME AllocInv, [KmNext]_kmVars
    PROVE  AllocInv' /\ [PoolNext]_poolVars
<1>1. CASE InitKmalloc
  <2>1. AllocPagesCnt(HeapCnt) /\ HeapCnt \in Counts
    BY <1>1, HeapCntAssumption DEF InitKmalloc
  <2>2. (PoolAlloc(HeapCnt) \/ PoolFail(HeapCnt)) /\ AllocInv'
    BY <2>1, AllocStep
  <2> QED
    BY <2>1, <2>2 DEF PoolNext
<1>2. ASSUME NEW cnt \in Counts, AllocPagesCnt(cnt) PROVE AllocInv' /\ [PoolNext]_poolVars
  BY <1>2, AllocStep DEF PoolNext
<1>3. ASSUME NEW b \in blocks, FreePagesCnt(b) PROVE AllocInv' /\ [PoolNext]_poolVars
  BY <1>3, FreeStep DEF PoolNext
<1>4. CASE PageCall
  BY <1>2, <1>3, <1>4 DEF PageCall
<1>5. CASE UNCHANGED vars
  BY <1>5 DEF vars, poolVars, AllocInv, Exclusive, MapIsBlocks, Block, Page, Pages
<1> QED
  BY <1>1, <1>4, <1>5 DEF KmNext, HeapCall, kmVars

(* init_page_allocator starts with an empty bitmap and nobody's pages.      *)
LEMMA KmStart == KmInit => AllocInv /\ PoolInit
BY DEF KmInit, Init, PoolInit, AllocInv, Exclusive, MapIsBlocks

(* The bitmap is true to the callers' blocks, and those are disjoint; each  *)
(* needs the other to survive a step.                                       *)
THEOREM AllocInductive == KmSpec => []AllocInv
<1>1. AllocInv /\ [KmNext]_kmVars => AllocInv'
  BY KmStep
<1> QED
  BY <1>1, KmStart, PTL DEF KmSpec

(* g_page_allocator_bitmap says exactly which pages callers hold: none      *)
(* leaks, whatever the order of frees, and none is freed under another.     *)
THEOREM BitmapIsBlocks == KmSpec => []MapIsBlocks
<1>1. AllocInv => MapIsBlocks
  BY DEF AllocInv
<1> QED
  BY <1>1, AllocInductive, PTL

(* alloc_pages_cnt with its two searches implements the pool: a request     *)
(* gets the lowest aligned run that is free, and fails only when there is   *)
(* none, for every memory size, word width, alignment and set of requests.  *)
THEOREM AllocatorIsPool == KmSpec => PoolSpec
<1>1. AllocInv /\ [KmNext]_kmVars => [PoolNext]_poolVars
  BY KmStep
<1>2. KmInit => PoolInit
  BY KmStart
<1> QED
  BY <1>1, <1>2, AllocInductive, PTL DEF KmSpec, PoolSpec

(* No page that alloc_pages_cnt or init_kmalloc hands out has two holders.  *)
THEOREM PagesHeldOnce == KmSpec => []Exclusive
BY AllocatorIsPool, PagesExclusive, PTL

-----------------------------------------------------------------------------
(* The heap: powers of two and size classes                                 *)

(* Induction up to a bound, over a set                                      *)
LEMMA Upward ==
    ASSUME NEW n \in Nat, NEW G, 0 \in G, \A k \in 0..(n - 1) : k \in G => k + 1 \in G
    PROVE  \A k \in 0..n : k \in G
<1> DEFINE Bad == {k \in 0..n : k \notin G}
<1> SUFFICES ASSUME Bad # {} PROVE FALSE
  OBVIOUS
<1>1. PICK m \in Bad : \A k \in Bad : m <= k
  <2>1. Bad \in SUBSET Nat
    OBVIOUS
  <2> QED
    BY <2>1, LeastNumber
<1>2. m \in 1..n /\ m \notin G
  OBVIOUS
<1>3. m - 1 \in G
  BY <1>1, <1>2
<1>4. m - 1 \in 0..(n - 1) /\ (m - 1) + 1 = m
  BY <1>2
<1> QED
  BY <1>2, <1>3, <1>4

(* The shifts that occur.                                                   *)
LEMMA ShiftsAre == SLLog \in Nat /\ FLMax \in Nat /\ FLMax > SLLog
BY TlsfAssumption

(* Powers of two double from one to the next.                               *)
LEMMA Pow2Is ==
    /\ Pow2[0] = 1
    /\ \A k \in 0..(FLMax + 2) : Pow2[k] \in Nat \ {0}
    /\ \A k \in 0..(FLMax + 1) : Pow2[k + 1] = 2 * Pow2[k]
<1> DEFINE N == FLMax + 2
           Eq(f, m) == f = [k \in 0..m |-> IF k = 0 THEN 1 ELSE 2 * f[k - 1]]
           Has == {m \in 0..N : \E f : Eq(f, m)}
<1>0. N \in Nat /\ N - 1 = FLMax + 1
  BY ShiftsAre
<1> HIDE DEF N
<1>1. 0 \in Has
  <2> DEFINE f == [k \in 0..0 |-> 1]
  <2>1. Eq(f, 0)
    OBVIOUS
  <2> HIDE DEF Eq
  <2> QED
    BY <2>1, <1>0
<1>2. ASSUME NEW m \in 0..(N - 1), m \in Has PROVE m + 1 \in Has
  <2>1. PICK f : Eq(f, m)
    BY <1>2
  <2> DEFINE g == [k \in 0..(m + 1) |-> IF k <= m THEN f[k] ELSE 2 * f[m]]
  <2>2. \A k \in 0..m : g[k] = f[k]
    BY <1>0
  <2>3. g[m + 1] = 2 * f[m]
    BY <1>0
  <2>4. \A k \in 0..m : f[k] = IF k = 0 THEN 1 ELSE 2 * f[k - 1]
    BY <2>1
  <2>5. ASSUME NEW k \in 0..(m + 1) PROVE g[k] = IF k = 0 THEN 1 ELSE 2 * g[k - 1]
    <3> HIDE DEF g
    <3>1. CASE k = m + 1
      BY <2>2, <2>3, <3>1, <1>0
    <3>2. CASE k # m + 1
      <4>1. k \in 0..m /\ (k # 0 => k - 1 \in 0..m)
        BY <3>2, <1>0
      <4> QED
        BY <2>2, <2>4, <4>1
    <3> QED
      BY <3>1, <3>2
  <2>6. g = [k \in 0..(m + 1) |-> g[k]]
    OBVIOUS
  <2>7. Eq(g, m + 1)
    <3> HIDE DEF g
    <3> QED
      BY <2>5, <2>6
  <2> HIDE DEF Eq, g
  <2> QED
    BY <2>7, <1>0
<1>3. N \in Has
  <2> HIDE DEF Has
  <2>1. \A k \in 0..N : k \in Has
    BY <1>0, <1>1, <1>2, Upward
  <2> QED
    BY <1>0, <2>1
<1>4. \E f : f = [k \in 0..(FLMax + 2) |-> IF k = 0 THEN 1 ELSE 2 * f[k - 1]]
  BY <1>3 DEF N
<1>5. Pow2 = [k \in 0..(FLMax + 2) |-> IF k = 0 THEN 1 ELSE 2 * Pow2[k - 1]]
  BY <1>4 DEF Pow2
<1>6. Pow2[0] = 1 /\ \A k \in 0..(FLMax + 1) : Pow2[k + 1] = 2 * Pow2[k]
  BY <1>5, ShiftsAre
<1> DEFINE G == {k \in 0..N : Pow2[k] \in Nat \ {0}}
<1>7. 0 \in G
  BY <1>0, <1>6
<1>8. ASSUME NEW k \in 0..(N - 1), k \in G PROVE k + 1 \in G
  BY <1>0, <1>6, <1>8
<1>9. \A k \in 0..N : k \in G
  <2> HIDE DEF G
  <2> QED
    BY <1>0, <1>7, <1>8, Upward
<1> QED
  BY <1>6, <1>9 DEF N

(* They grow.                                                               *)
LEMMA Pow2Grows ==
    ASSUME NEW j \in 0..(FLMax + 2), NEW k \in 0..(FLMax + 2), j <= k
    PROVE  Pow2[j] <= Pow2[k]
<1> DEFINE G == {d \in 0..((FLMax + 2) - j) : Pow2[j] <= Pow2[j + d]}
           N == (FLMax + 2) - j
<1>0. N \in Nat /\ j \in Nat /\ k - j \in 0..N /\ j + (k - j) = k
  BY ShiftsAre
<1>1. 0 \in G
  BY <1>0, Pow2Is
<1>2. ASSUME NEW d \in 0..(N - 1), d \in G PROVE d + 1 \in G
  <2>1. j + d \in 0..(FLMax + 1) /\ j + (d + 1) = (j + d) + 1 /\ j + d \in 0..(FLMax + 2)
    BY <1>0, ShiftsAre
  <2>2. Pow2[(j + d) + 1] = 2 * Pow2[j + d] /\ Pow2[j + d] \in Nat \ {0} /\ Pow2[j] \in Nat
    BY <2>1, Pow2Is
  <2>3. Pow2[j] <= Pow2[j + d]
    BY <1>2
  <2>4. Pow2[j] <= Pow2[j + (d + 1)]
    BY <2>1, <2>2, <2>3
  <2> QED
    BY <2>4, <1>0
<1>3. \A d \in 0..N : d \in G
  <2> HIDE DEF G, N
  <2> QED
    BY <1>0, <1>1, <1>2, Upward
<1>4. k - j \in G
  BY <1>0, <1>3
<1> QED
  BY <1>0, <1>4

(* The shift of a sum is the product of the shifts.                         *)
LEMMA Pow2Sum ==
    ASSUME NEW j \in 0..(FLMax + 2), NEW k \in 0..(FLMax + 2), j + k <= FLMax + 2
    PROVE  Pow2[j + k] = Pow2[j] * Pow2[k]
<1> DEFINE N == (FLMax + 2) - j
           G == {d \in 0..N : Pow2[j + d] = Pow2[j] * Pow2[d]}
<1>0. N \in Nat /\ j \in Nat /\ k \in 0..N
  BY ShiftsAre
<1>1. 0 \in G
  BY <1>0, Pow2Is
<1>2. ASSUME NEW d \in 0..(N - 1), d \in G PROVE d + 1 \in G
  <2>1. /\ j + d \in 0..(FLMax + 1) /\ j + (d + 1) = (j + d) + 1
        /\ d \in 0..(FLMax + 1) /\ d \in 0..(FLMax + 2)
    BY <1>0, ShiftsAre
  <2>2. /\ Pow2[(j + d) + 1] = 2 * Pow2[j + d] /\ Pow2[d + 1] = 2 * Pow2[d]
        /\ Pow2[j] \in Nat /\ Pow2[d] \in Nat
    BY <2>1, Pow2Is
  <2>3. Pow2[j + d] = Pow2[j] * Pow2[d]
    BY <1>2
  <2>4. \A a, b \in Nat : 2 * (a * b) = a * (2 * b)
    OBVIOUS
  <2>5. Pow2[j + (d + 1)] = Pow2[j] * Pow2[d + 1]
    BY <2>1, <2>2, <2>3, <2>4
  <2> QED
    BY <2>5, <1>0
<1>3. \A d \in 0..N : d \in G
  <2> HIDE DEF G, N
  <2> QED
    BY <1>0, <1>1, <1>2, Upward
<1> QED
  BY <1>0, <1>3

(* tlsf_fls answers the highest bit.                                        *)
LEMMA FlsIs ==
    ASSUME NEW n \in Nat, n # 0, n < Pow2[FLMax + 2]
    PROVE  Fls(n) \in 0..(FLMax + 1) /\ Pow2[Fls(n)] <= n /\ n < Pow2[Fls(n) + 1]
<1> DEFINE T == {k \in 0..(FLMax + 2) : n < Pow2[k]}
<1>1. T \in SUBSET Nat /\ FLMax + 2 \in T
  BY ShiftsAre
<1>2. PICK m \in T : \A k \in T : m <= k
  <2> HIDE DEF T
  <2>1. T # {}
    BY <1>1
  <2> QED
    BY <1>1, <2>1, LeastNumber
<1>3. m \in 0..(FLMax + 2) /\ n < Pow2[m]
  OBVIOUS
<1>4. m # 0
  BY <1>3, Pow2Is
<1>5. m - 1 \in 0..(FLMax + 1) /\ m - 1 \in 0..(FLMax + 2) /\ (m - 1) + 1 = m /\ ~(m <= m - 1)
  BY <1>3, <1>4, ShiftsAre
<1>6. m - 1 \notin T
  <2> HIDE DEF T
  <2> QED
    BY <1>2, <1>5
<1>7. Pow2[m - 1] \in Nat
  BY <1>5, Pow2Is
<1>8. Pow2[m - 1] <= n /\ n < Pow2[(m - 1) + 1]
  BY <1>3, <1>5, <1>6, <1>7
<1>9. \E k \in 0..FLMax + 1 : Pow2[k] <= n /\ n < Pow2[k + 1]
  BY <1>5, <1>8
<1> QED
  BY <1>9 DEF Fls

(* A size in one shift's range has that shift as its highest bit.           *)
LEMMA FlsUnique ==
    ASSUME NEW n \in Nat, n # 0, n < Pow2[FLMax + 2],
           NEW k \in 0..(FLMax + 1), Pow2[k] <= n, n < Pow2[k + 1]
    PROVE  Fls(n) = k
<1> DEFINE m == Fls(n)
<1>1. m \in 0..(FLMax + 1) /\ Pow2[m] <= n /\ n < Pow2[m + 1]
  BY FlsIs
<1> HIDE DEF m
<1>2. \A j \in 0..(FLMax + 2) : Pow2[j] \in Nat
  BY Pow2Is
<1>3. /\ m \in 0..(FLMax + 2) /\ k \in 0..(FLMax + 2) /\ m + 1 \in 0..(FLMax + 2)
      /\ k + 1 \in 0..(FLMax + 2)
  BY <1>1, ShiftsAre
<1>4. ~(m < k)
  <2> SUFFICES ASSUME m < k PROVE FALSE
    OBVIOUS
  <2>1. m + 1 <= k
    BY <1>1, ShiftsAre
  <2>2. Pow2[m + 1] <= Pow2[k]
    BY <1>3, <2>1, Pow2Grows
  <2> QED
    BY <1>1, <1>2, <1>3, <2>2
<1>5. ~(k < m)
  <2> SUFFICES ASSUME k < m PROVE FALSE
    OBVIOUS
  <2>1. k + 1 <= m
    BY <1>1, ShiftsAre
  <2>2. Pow2[k + 1] <= Pow2[m]
    BY <1>3, <2>1, Pow2Grows
  <2> QED
    BY <1>1, <1>2, <1>3, <2>2
<1>6. m = k
  BY <1>1, <1>4, <1>5, ShiftsAre
<1> QED
  BY <1>6 DEF m

(* The first level of a size: its highest bit is not below a small size's.  *)
LEMMA FlsHigh ==
    ASSUME NEW n \in Nat, n < Pow2[FLMax + 2], n >= SmallSize
    PROVE  /\ n # 0 /\ Fls(n) \in SLLog..(FLMax + 1) /\ SmallSize \in Nat \ {0}
           /\ Fls(n) - SLLog \in 0..(FLMax + 1)
           /\ Pow2[Fls(n) - SLLog] \in Nat \ {0}
           /\ SmallSize * Pow2[Fls(n) - SLLog] = Pow2[Fls(n)]
           /\ 2 * (SmallSize * Pow2[Fls(n) - SLLog]) = Pow2[Fls(n) + 1]
           /\ SmallSize * Pow2[Fls(n) - SLLog] <= n
           /\ n < 2 * (SmallSize * Pow2[Fls(n) - SLLog])
<1>1. SmallSize = Pow2[SLLog] /\ SmallSize \in Nat \ {0} /\ SLLog \in 0..(FLMax + 2)
  BY Pow2Is, ShiftsAre DEF SmallSize
<1>2. n # 0
  BY <1>1
<1> DEFINE m == Fls(n)
<1>3. m \in 0..(FLMax + 1) /\ Pow2[m] <= n /\ n < Pow2[m + 1]
  BY <1>2, FlsIs
<1> HIDE DEF m
<1>4. m >= SLLog
  <2> SUFFICES ASSUME m < SLLog PROVE FALSE
    BY <1>3, ShiftsAre
  <2>1. m + 1 <= SLLog /\ m + 1 \in 0..(FLMax + 2)
    BY <1>3, ShiftsAre
  <2>2. Pow2[m + 1] <= Pow2[SLLog] /\ Pow2[m + 1] \in Nat
    BY <1>1, <2>1, Pow2Grows, Pow2Is
  <2> QED
    BY <1>1, <1>3, <2>2
<1>5. /\ m - SLLog \in 0..(FLMax + 1) /\ m - SLLog \in 0..(FLMax + 2) /\ SLLog + (m - SLLog) = m
      /\ m <= FLMax + 2 /\ m \in SLLog..(FLMax + 1)
  BY <1>3, <1>4, ShiftsAre
<1>6. Pow2[m] = Pow2[SLLog] * Pow2[m - SLLog]
  BY <1>1, <1>5, Pow2Sum
<1>7. Pow2[m + 1] = 2 * Pow2[m] /\ Pow2[m - SLLog] \in Nat \ {0}
  BY <1>3, <1>5, Pow2Is
<1>8. SmallSize * Pow2[m - SLLog] = Pow2[m]
  BY <1>1, <1>6
<1>9. 2 * (SmallSize * Pow2[m - SLLog]) = Pow2[m + 1]
  BY <1>7, <1>8
<1> QED
  BY <1>1, <1>2, <1>3, <1>5, <1>7, <1>8, <1>9 DEF m

(* Division by the step of a first level.                                   *)
LEMMA QuotientIn ==
    ASSUME NEW n \in Nat, NEW d \in Nat \ {0}, NEW S \in Nat, S * d <= n, n < 2 * (S * d)
    PROVE  n \div d \in S..(2 * S - 1)
<1> DEFINE q == n \div d
<1>1. q \in Nat /\ q * d <= n /\ n < q * d + d
  OBVIOUS
<1> HIDE DEF q
<1>2. q >= S
  <2> SUFFICES ASSUME q + 1 <= S PROVE FALSE
    BY <1>1
  <2>1. (q + 1) * d <= S * d
    BY <1>1
  <2>2. (q + 1) * d = q * d + d
    BY <1>1
  <2> QED
    BY <1>1, <2>1, <2>2
<1>3. q < 2 * S
  <2> SUFFICES ASSUME 2 * S <= q PROVE FALSE
    BY <1>1
  <2>1. (2 * S) * d <= q * d
    BY <1>1
  <2>2. (2 * S) * d = 2 * (S * d)
    OBVIOUS
  <2> QED
    BY <1>1, <2>1, <2>2
<1> QED
  BY <1>1, <1>2, <1>3 DEF q

(* Every block of the pool has a list of its own size.                      *)
Index == [fl : 0..(FLCount - 1), sl : 0..(SmallSize - 1)]
LEMMA MappingIn ==
    ASSUME NEW n \in Nat, n < Pow2[FLMax]
    PROVE  MappingInsert(n) \in Index
<1>0. /\ SmallSize \in Nat \ {0} /\ FLCount - 1 = FLMax - SLLog /\ FLCount - 1 \in Nat \ {0}
      /\ FLMax \in 0..(FLMax + 2) /\ FLMax + 2 \in 0..(FLMax + 2)
  BY Pow2Is, ShiftsAre DEF SmallSize, FLCount
<1>1. CASE n < SmallSize
  BY <1>0, <1>1 DEF MappingInsert, Index
<1>2. CASE n >= SmallSize
  <2>1. Pow2[FLMax] <= Pow2[FLMax + 2] /\ Pow2[FLMax] \in Nat /\ Pow2[FLMax + 2] \in Nat
    BY <1>0, Pow2Grows, Pow2Is, ShiftsAre
  <2>2. n < Pow2[FLMax + 2]
    BY <2>1
  <2> DEFINE m == Fls(n)
             d == Pow2[m - SLLog]
  <2>3. /\ m \in SLLog..(FLMax + 1) /\ m - SLLog \in 0..(FLMax + 1) /\ d \in Nat \ {0}
        /\ SmallSize * d = Pow2[m]
        /\ SmallSize * d <= n /\ n < 2 * (SmallSize * d)
    BY <1>2, <2>2, FlsHigh
  <2>4. MappingInsert(n) = [fl |-> m - SLLog + 1, sl |-> (n \div d) - SmallSize]
    BY <1>0, <1>2 DEF MappingInsert
  <2> HIDE DEF m, d
  <2>5. n \div d \in SmallSize..(2 * SmallSize - 1)
    BY <1>0, <2>3, QuotientIn
  <2>6. m < FLMax
    <3> SUFFICES ASSUME FLMax <= m PROVE FALSE
      BY <2>3, ShiftsAre
    <3>1. m \in 0..(FLMax + 2)
      BY <2>3, ShiftsAre
    <3>2. Pow2[FLMax] <= Pow2[m] /\ Pow2[m] \in Nat
      BY <1>0, <3>1, Pow2Grows, Pow2Is
    <3> QED
      BY <2>1, <2>3, <3>2
  <2>7. m - SLLog + 1 \in 0..(FLCount - 1) /\ (n \div d) - SmallSize \in 0..(SmallSize - 1)
    BY <1>0, <2>3, <2>5, <2>6, ShiftsAre
  <2> QED
    BY <2>4, <2>7 DEF Index
<1> QED
  BY <1>0, <1>1, <1>2

(* The search starts at a first level that there is, or beyond the last.    *)
LEMMA SearchLevel ==
    ASSUME NEW n \in Nat, n # 0, n < Pow2[FLMax]
    PROVE  MappingSearch(n).fl \in Nat /\ MappingSearch(n).sl \in Int
<1>0. /\ SmallSize \in Nat \ {0} /\ FLMax \in 0..(FLMax + 2) /\ FLMax + 2 \in 0..(FLMax + 2)
      /\ Pow2[FLMax + 2] = 2 * Pow2[FLMax + 1] /\ Pow2[FLMax + 1] = 2 * Pow2[FLMax]
      /\ Pow2[FLMax] \in Nat
  <2>1. FLMax \in 0..(FLMax + 1) /\ FLMax + 1 \in 0..(FLMax + 1) /\ (FLMax + 1) + 1 = FLMax + 2
    BY ShiftsAre
  <2> QED
    BY <2>1, Pow2Is, ShiftsAre DEF SmallSize
<1>1. CASE n < SmallSize
  <2>1. MappingSearch(n) = MappingInsert(n)
    BY <1>0, <1>1 DEF MappingSearch
  <2> QED
    BY <1>0, <1>1, <2>1 DEF MappingInsert
<1>2. CASE n >= SmallSize
  <2> DEFINE d == Pow2[Fls(n) - SLLog]
             z == n + d - 1
  <2>1. d \in Nat \ {0} /\ SmallSize * d <= n
    BY <1>0, <1>2, FlsHigh
  <2>2. MappingSearch(n) = MappingInsert(z)
    BY <1>0, <1>2 DEF MappingSearch
  <2> HIDE DEF d
  <2>3. d <= SmallSize * d
    BY <1>0, <2>1
  <2>4. SmallSize * d \in Nat
    BY <1>0, <2>1
  <2>5. z \in Nat /\ z >= SmallSize /\ z < Pow2[FLMax + 2]
    BY <1>0, <1>2, <2>1, <2>3, <2>4
  <2> HIDE DEF z
  <2>6. Fls(z) \in SLLog..(FLMax + 1) /\ Pow2[Fls(z) - SLLog] \in Nat \ {0}
    BY <2>5, FlsHigh
  <2>7. MappingInsert(z) = [fl |-> Fls(z) - SLLog + 1, sl |-> (z \div Pow2[Fls(z) - SLLog]) - SmallSize]
    BY <1>0, <2>5 DEF MappingInsert
  <2>8. Fls(z) - SLLog + 1 \in Nat /\ z \div Pow2[Fls(z) - SLLog] \in Int
    BY <2>5, <2>6, ShiftsAre
  <2> QED
    BY <1>0, <2>2, <2>7, <2>8
<1> QED
  BY <1>0, <1>1, <1>2

-----------------------------------------------------------------------------
(* Headers and links                                                        *)

(* The words of the pool, and the last one, the header of the sentinel      *)
Words == 0..(PoolWords - 1)
Sentinel == PoolWords - 1

(* The shape of a heap                                                      *)
Header == [size : Nat, free : BOOLEAN, prevFree : BOOLEAN]
Heaps ==
    [hdr  : [Words -> Header],
     prev : [Words -> 0..PoolWords],
     list : [0..(FLCount - 1) -> [0..(SmallSize - 1) -> Seq(Words)]],
     fl   : SUBSET (0..(FLCount - 1)),
     sl   : [0..(FLCount - 1) -> SUBSET (0..(SmallSize - 1))]]

(* What an operation leaves alone                                           *)
SameLists(g, h) == g.list = h.list /\ g.fl = h.fl /\ g.sl = h.sl
SameFlags(g, h, flag, W0) == \A w \in W0 : Is(g, w, flag) <=> Is(h, w, flag)
SameSizes(g, h, W0) == \A w \in W0 : Size(g, w) = Size(h, w)
SamePrev(g, h, W0) == \A w \in W0 : g.prev[w] = h.prev[w]

(* block_set_size changes one size.                                         *)
LEMMA SetSizeIs ==
    ASSUME NEW h \in Heaps, NEW b \in Words, NEW n \in Nat
    PROVE  /\ SetSize(h, b, n) \in Heaps
           /\ Size(SetSize(h, b, n), b) = n
           /\ SameSizes(SetSize(h, b, n), h, Words \ {b})
           /\ SameFlags(SetSize(h, b, n), h, "free", Words)
           /\ SameFlags(SetSize(h, b, n), h, "prevFree", Words)
           /\ SamePrev(SetSize(h, b, n), h, Words)
           /\ SameLists(SetSize(h, b, n), h)
BY DEF Heaps, Header, SetSize, Size, Is, SameSizes, SameFlags, SamePrev, SameLists

(* block_set_free and block_set_used change one mark.                       *)
LEMMA MarkFreeIs ==
    ASSUME NEW h \in Heaps, NEW b \in Words, NEW v \in BOOLEAN
    PROVE  /\ Mark(h, b, "free", v) \in Heaps
           /\ Is(Mark(h, b, "free", v), b, "free") <=> v
           /\ SameSizes(Mark(h, b, "free", v), h, Words)
           /\ SameFlags(Mark(h, b, "free", v), h, "free", Words \ {b})
           /\ SameFlags(Mark(h, b, "free", v), h, "prevFree", Words)
           /\ SamePrev(Mark(h, b, "free", v), h, Words)
           /\ SameLists(Mark(h, b, "free", v), h)
BY DEF Heaps, Header, Mark, Size, Is, SameSizes, SameFlags, SamePrev, SameLists

(* block_set_prev_free and block_set_prev_used change one mark.             *)
LEMMA MarkPrevIs ==
    ASSUME NEW h \in Heaps, NEW b \in Words, NEW v \in BOOLEAN
    PROVE  /\ Mark(h, b, "prevFree", v) \in Heaps
           /\ Is(Mark(h, b, "prevFree", v), b, "prevFree") <=> v
           /\ SameSizes(Mark(h, b, "prevFree", v), h, Words)
           /\ SameFlags(Mark(h, b, "prevFree", v), h, "free", Words)
           /\ SameFlags(Mark(h, b, "prevFree", v), h, "prevFree", Words \ {b})
           /\ SamePrev(Mark(h, b, "prevFree", v), h, Words)
           /\ SameLists(Mark(h, b, "prevFree", v), h)
BY DEF Heaps, Header, Mark, Size, Is, SameSizes, SameFlags, SamePrev, SameLists

(* block_link_next changes the link of the next block.                      *)
LEMMA LinkNextIs ==
    ASSUME NEW h \in Heaps, NEW b \in Words, NextOf(h, b) \in Words
    PROVE  /\ LinkNext(h, b) \in Heaps
           /\ LinkNext(h, b).prev[NextOf(h, b)] = b
           /\ SameSizes(LinkNext(h, b), h, Words)
           /\ SameFlags(LinkNext(h, b), h, "free", Words)
           /\ SameFlags(LinkNext(h, b), h, "prevFree", Words)
           /\ SamePrev(LinkNext(h, b), h, Words \ {NextOf(h, b)})
           /\ SameLists(LinkNext(h, b), h)
<1>1. PoolWords \in Nat
  BY TlsfAssumption
<1>2. /\ h.prev \in [Words -> 0..PoolWords] /\ b \in 0..PoolWords
      /\ LinkNext(h, b) = [h EXCEPT !.prev = [h.prev EXCEPT ![NextOf(h, b)] = b]]
  BY <1>1 DEF Heaps, LinkNext, Words
<1> DEFINE w == NextOf(h, b)
           p == [h.prev EXCEPT ![w] = b]
<1>3. p \in [Words -> 0..PoolWords] /\ p[w] = b /\ \A v \in Words \ {w} : p[v] = h.prev[v]
  BY <1>2
<1> HIDE DEF p, w
<1>4. LinkNext(h, b) = [h EXCEPT !.prev = p]
  BY <1>2 DEF p, w
<1>5. LinkNext(h, b) \in Heaps
  BY <1>3, <1>4 DEF Heaps
<1>6. LinkNext(h, b).hdr = h.hdr /\ LinkNext(h, b).prev = p /\ SameLists(LinkNext(h, b), h)
  BY <1>4 DEF Heaps, SameLists
<1> QED
  BY <1>3, <1>5, <1>6 DEF Size, Is, SameSizes, SameFlags, SamePrev, w

-----------------------------------------------------------------------------
(* The structure of the heap, while a call has some blocks in its hands     *)

(* The free and the used ones of the blocks B; X are in the hands of the    *)
(* call that is under way.                                                  *)
FreeOf(h, B, X) == {b \in B \ X : Is(h, b, "free")}
UsedOf(h, B, X) == {b \in B \ X : ~Is(h, b, "free")}

(* B tiles the pool up to the sentinel.                                     *)
Tiles(h, B) ==
    /\ B \subseteq 0..(PoolWords - 2) /\ 0 \in B
    /\ \A w \in Words : NextOf(h, w) <= PoolWords
    /\ Size(h, Sentinel) = 0
    /\ \A b \in B : Size(h, b) >= MinSize /\ NextOf(h, b) \in B \cup {Sentinel}
    /\ \A b, c \in B : b < c => NextOf(h, b) <= c
    /\ \A c \in B \cup {Sentinel} : c # 0 => \E b \in B : NextOf(h, b) = c

(* Marks and links agree, but for the blocks X.                             *)
Marked(h, B, X) ==
    /\ \A b \in B \ X : Is(h, NextOf(h, b), "prevFree") <=> Is(h, b, "free")
    /\ ~Is(h, 0, "prevFree") /\ ~Is(h, Sentinel, "free")
    /\ \A b \in FreeOf(h, B, X) : h.prev[NextOf(h, b)] = b /\ NextOf(h, b) \notin FreeOf(h, B, X)

(* The lists hold the free blocks F by their sizes, and the bitmaps tell.   *)
InList(h, F, f, s) == {b \in F : MappingInsert(Size(h, b)) = [fl |-> f, sl |-> s]}
Listed(h, F) ==
    \A f \in 0..(FLCount - 1) :
        /\ \A s \in 0..(SmallSize - 1) :
              /\ IsInjective(h.list[f][s])
              /\ Range(h.list[f][s]) = InList(h, F, f, s)
              /\ s \in h.sl[f] <=> InList(h, F, f, s) # {}
        /\ f \in h.fl <=> h.sl[f] # {}

(* The heap h with the blocks B, X of them in the hands of a call and U of  *)
(* the others used.                                                         *)
Good(h, B, X, U) ==
    /\ h \in Heaps /\ X \subseteq B
    /\ Tiles(h, B)
    /\ Marked(h, B, X)
    /\ Listed(h, FreeOf(h, B, X))
    /\ U = UsedOf(h, B, X)

(* The pool has room for a block and the sentinel.                          *)
LEMMA PoolIs == PoolWords \in Nat /\ PoolWords >= 5 /\ Sentinel \in Words /\ Words \in SUBSET Nat
BY TlsfAssumption, Pow2Is, ShiftsAre DEF Sentinel, Words

(* Where the blocks of a pool are.                                          *)
LEMMA TileFacts ==
    ASSUME NEW h \in Heaps, NEW B, Tiles(h, B)
    PROVE  /\ B \subseteq Words /\ B \in SUBSET Nat /\ Sentinel \notin B /\ Sentinel \in Nat
           /\ \A w \in Words : Size(h, w) \in Nat /\ NextOf(h, w) \in Nat /\ NextOf(h, w) = w + 1 + Size(h, w)
           /\ \A b \in B : /\ b < Sentinel /\ NextOf(h, b) \in Words /\ NextOf(h, b) > b
                           /\ NextOf(h, b) <= Sentinel /\ NextOf(h, b) # 0
           /\ \A b, c \in B : NextOf(h, b) = NextOf(h, c) => b = c
<1>1. /\ B \subseteq Words /\ B \in SUBSET Nat /\ Sentinel \notin B /\ Sentinel \in Nat
      /\ \A b \in B : b < Sentinel
  BY PoolIs DEF Tiles, Words, Sentinel
<1>2. \A w \in Words : Size(h, w) \in Nat
  BY DEF Heaps, Header, Size
<1>3. \A w \in Words : NextOf(h, w) \in Nat /\ NextOf(h, w) > w /\ NextOf(h, w) = w + 1 + Size(h, w)
  BY <1>2, PoolIs DEF NextOf, Words
<1>4. \A b \in B : NextOf(h, b) \in Words /\ NextOf(h, b) <= Sentinel
  <2> SUFFICES ASSUME NEW b \in B PROVE NextOf(h, b) \in Words /\ NextOf(h, b) <= Sentinel
    OBVIOUS
  <2>1. NextOf(h, b) \in B \/ NextOf(h, b) = Sentinel
    BY DEF Tiles
  <2>2. CASE NextOf(h, b) = Sentinel
    BY <1>1, <2>2, PoolIs
  <2>3. ASSUME NEW c \in B, NextOf(h, b) = c PROVE c \in Words /\ c <= Sentinel
    <3>1. c \in Nat /\ c < Sentinel /\ c \in Words
      BY <1>1
    <3> QED
      BY <1>1, <3>1
  <2> QED
    BY <2>1, <2>2, <2>3
<1>5. ASSUME NEW b \in B, NEW c \in B, NextOf(h, b) = NextOf(h, c) PROVE b = c
  <2>1. b \in Nat /\ c \in Nat /\ NextOf(h, b) > b /\ NextOf(h, c) > c /\ NextOf(h, b) \in Nat
    BY <1>1, <1>3
  <2>2. (b < c => NextOf(h, b) <= c) /\ (c < b => NextOf(h, c) <= b)
    BY DEF Tiles
  <2> QED
    BY <1>5, <2>1, <2>2
<1>6. \A b \in B : NextOf(h, b) # 0 /\ NextOf(h, b) > b
  BY <1>1, <1>3
<1> QED
  BY <1>1, <1>2, <1>3, <1>4, <1>5, <1>6

(* Only sizes matter to the tiling.                                         *)
LEMMA TilesSame ==
    ASSUME NEW h \in Heaps, NEW g \in Heaps, NEW B, Tiles(h, B), SameSizes(g, h, Words)
    PROVE  Tiles(g, B) /\ \A w \in Words : NextOf(g, w) = NextOf(h, w)
<1>1. \A w \in Words : NextOf(g, w) = NextOf(h, w)
  BY DEF NextOf, SameSizes
<1>2. B \subseteq Words /\ Sentinel \in Words
  BY TileFacts, PoolIs
<1> QED
  BY <1>1, <1>2 DEF Tiles, SameSizes

(* Only the free blocks and their sizes matter to the lists.                *)
LEMMA ListedSame ==
    ASSUME NEW h, NEW g, NEW F, NEW E, Listed(h, F), SameLists(g, h), F = E, SameSizes(g, h, F)
    PROVE  Listed(g, E)
<1>1. \A f, s : InList(g, E, f, s) = InList(h, F, f, s)
  BY DEF InList, SameSizes
<1> QED
  BY <1>1 DEF Listed, SameLists

(* The marks of a block in the hands of the call may be set: its own free   *)
(* mark, and what the next block knows of it.                               *)
Remarked(g, h, x) ==
    /\ g \in Heaps /\ SameSizes(g, h, Words) /\ SameLists(g, h)
    /\ SameFlags(g, h, "free", Words \ {x})
    /\ SameFlags(g, h, "prevFree", Words \ {NextOf(h, x)})
    /\ SamePrev(g, h, Words \ {NextOf(h, x)})
LEMMA Marking ==
    ASSUME NEW h, NEW B, NEW X, NEW U, Good(h, B, X, U), NEW x \in X, NEW g, Remarked(g, h, x)
    PROVE  Good(g, B, X, U) /\ \A w \in Words : NextOf(g, w) = NextOf(h, w)
<1> USE DEF Remarked
<1>1. h \in Heaps /\ X \subseteq B /\ Tiles(h, B) /\ x \in B
  BY DEF Good
<1>2. Tiles(g, B) /\ \A w \in Words : NextOf(g, w) = NextOf(h, w)
  BY <1>1, TilesSame
<1>3. /\ B \subseteq Words /\ Sentinel \notin B /\ Sentinel \in Words /\ 0 \in B
      /\ \A b \in B : NextOf(h, b) \in Words /\ NextOf(h, b) # 0
      /\ \A b, c \in B : NextOf(h, b) = NextOf(h, c) => b = c
  BY <1>1, TileFacts, PoolIs DEF Tiles
<1>4. \A b \in B \ X : /\ b \in Words \ {x} /\ NextOf(h, b) \in Words \ {NextOf(h, x)}
                       /\ NextOf(g, b) = NextOf(h, b)
  BY <1>1, <1>2, <1>3
<1>5. FreeOf(g, B, X) = FreeOf(h, B, X) /\ UsedOf(g, B, X) = UsedOf(h, B, X)
  BY <1>4 DEF FreeOf, UsedOf, SameFlags
<1>6. Marked(g, B, X)
  <2>1. \A b \in B \ X : Is(g, NextOf(g, b), "prevFree") <=> Is(g, b, "free")
    BY <1>4 DEF SameFlags, Good, Marked
  <2>2. ~Is(g, 0, "prevFree") /\ ~Is(g, Sentinel, "free")
    <3>1. 0 \in Words \ {NextOf(h, x)} /\ Sentinel \in Words \ {x}
      BY <1>1, <1>3
    <3> QED
      BY <3>1 DEF SameFlags, Good, Marked
  <2>3. ASSUME NEW b \in FreeOf(g, B, X)
        PROVE  g.prev[NextOf(g, b)] = b /\ NextOf(g, b) \notin FreeOf(g, B, X)
    <3>1. b \in FreeOf(h, B, X) /\ b \in B \ X
      BY <1>5, <2>3 DEF FreeOf
    <3>2. h.prev[NextOf(h, b)] = b /\ NextOf(h, b) \notin FreeOf(h, B, X)
      BY <3>1 DEF Good, Marked
    <3> QED
      BY <1>4, <1>5, <3>1, <3>2 DEF SamePrev
  <2> QED
    BY <2>1, <2>2, <2>3 DEF Marked
<1>7. Listed(g, FreeOf(g, B, X))
  <2>1. SameSizes(g, h, FreeOf(h, B, X))
    BY <1>3 DEF SameSizes, FreeOf
  <2>2. Listed(h, FreeOf(h, B, X))
    BY DEF Good
  <2> QED
    BY <1>5, <2>1, <2>2, ListedSame
<1> QED
  BY <1>1, <1>2, <1>5, <1>6, <1>7 DEF Good

(* A block that ends its call used.                                         *)
LEMMA SettleUsed ==
    ASSUME NEW h, NEW B, NEW X, NEW U, Good(h, B, X, U), NEW x \in X,
           ~Is(h, x, "free"), ~Is(h, NextOf(h, x), "prevFree")
    PROVE  Good(h, B, X \ {x}, U \cup {x})
<1>1. x \in B /\ X \ {x} \subseteq B
  BY DEF Good
<1>2. FreeOf(h, B, X \ {x}) = FreeOf(h, B, X) /\ UsedOf(h, B, X \ {x}) = UsedOf(h, B, X) \cup {x}
  BY <1>1 DEF FreeOf, UsedOf
<1>3. Marked(h, B, X \ {x})
  <2>1. ASSUME NEW b \in B \ (X \ {x}) PROVE Is(h, NextOf(h, b), "prevFree") <=> Is(h, b, "free")
    <3>1. CASE b = x
      BY <3>1
    <3>2. CASE b \in B \ X
      BY <3>2 DEF Good, Marked
    <3> QED
      BY <2>1, <3>1, <3>2
  <2> QED
    BY <1>2, <2>1 DEF Good, Marked
<1> QED
  BY <1>1, <1>2, <1>3 DEF Good

(* Marks, links and lists outlive a change of the tiling that concerns only *)
(* blocks in the hands of the call.                                         *)
LEMMA Retile ==
    ASSUME NEW h, NEW B, NEW X, NEW U, Good(h, B, X, U),
           NEW g \in Heaps, NEW C, NEW Y, Y \subseteq C, C \ Y = B \ X, Tiles(g, C),
           SameLists(g, h),
           \A b \in B \ X : NextOf(g, b) = NextOf(h, b) /\ Size(g, b) = Size(h, b),
           SameFlags(g, h, "free", {Sentinel} \cup (B \ X)),
           SameFlags(g, h, "prevFree", {0} \cup {NextOf(h, b) : b \in B \ X}),
           SamePrev(g, h, {NextOf(h, b) : b \in B \ X})
    PROVE  Good(g, C, Y, U)
<1>1. FreeOf(g, C, Y) = FreeOf(h, B, X) /\ UsedOf(g, C, Y) = UsedOf(h, B, X)
  BY DEF FreeOf, UsedOf, SameFlags
<1>2. Marked(g, C, Y)
  <2>1. ASSUME NEW b \in C \ Y PROVE Is(g, NextOf(g, b), "prevFree") <=> Is(g, b, "free")
    <3>1. b \in B \ X /\ NextOf(g, b) = NextOf(h, b)
      BY <2>1
    <3>2. Is(h, NextOf(h, b), "prevFree") <=> Is(h, b, "free")
      BY <3>1 DEF Good, Marked
    <3> QED
      BY <3>1, <3>2 DEF SameFlags
  <2>2. ~Is(g, 0, "prevFree") /\ ~Is(g, Sentinel, "free")
    BY DEF SameFlags, Good, Marked
  <2>3. ASSUME NEW b \in FreeOf(g, C, Y)
        PROVE  g.prev[NextOf(g, b)] = b /\ NextOf(g, b) \notin FreeOf(g, C, Y)
    <3>1. b \in FreeOf(h, B, X) /\ b \in B \ X
      BY <1>1, <2>3 DEF FreeOf
    <3>2. h.prev[NextOf(h, b)] = b /\ NextOf(h, b) \notin FreeOf(h, B, X)
      BY <3>1 DEF Good, Marked
    <3> QED
      BY <1>1, <3>1, <3>2 DEF SamePrev
  <2> QED
    BY <2>1, <2>2, <2>3 DEF Marked
<1>3. Listed(g, FreeOf(g, C, Y))
  <2>1. SameSizes(g, h, FreeOf(h, B, X))
    BY DEF SameSizes, FreeOf
  <2>2. Listed(h, FreeOf(h, B, X))
    BY DEF Good
  <2> QED
    BY <1>1, <2>1, <2>2, ListedSame
<1> QED
  BY <1>1, <1>2, <1>3 DEF Good

(* A block joins the one before it.                                         *)
LEMMA Joining ==
    ASSUME NEW h, NEW B, NEW X, NEW U, Good(h, B, X, U),
           NEW p \in X, NEW b \in X, NextOf(h, p) = b, NEW g \in Heaps,
           Size(g, p) = Size(h, p) + Size(h, b) + 1, SameSizes(g, h, Words \ {p}),
           SameFlags(g, h, "free", Words), SameFlags(g, h, "prevFree", Words),
           SamePrev(g, h, Words \ {NextOf(h, b)}), SameLists(g, h)
    PROVE  Good(g, B \ {b}, X \ {b}, U) /\ NextOf(g, p) = NextOf(h, b) /\ p # b
<1>0. h \in Heaps /\ X \subseteq B /\ Tiles(h, B) /\ p \in B /\ b \in B
  BY DEF Good
<1>1. /\ B \subseteq Words /\ B \in SUBSET Nat /\ Sentinel \notin B /\ Sentinel \in Nat
      /\ \A w \in Words : Size(h, w) \in Nat /\ NextOf(h, w) \in Nat /\ NextOf(h, w) = w + 1 + Size(h, w)
      /\ \A c \in B : /\ c < Sentinel /\ NextOf(h, c) \in Words /\ NextOf(h, c) > c
                      /\ NextOf(h, c) <= Sentinel /\ NextOf(h, c) # 0
      /\ \A c, d \in B : NextOf(h, c) = NextOf(h, d) => c = d
  BY <1>0, TileFacts
<1>2. p # b /\ b # 0 /\ p \in Words /\ b \in Words /\ p < b /\ p \in Nat /\ b \in Nat
  BY <1>0, <1>1
<1>3. NextOf(g, p) = NextOf(h, b)
  BY <1>1, <1>2 DEF NextOf
<1>4. \A w \in Words \ {p} : NextOf(g, w) = NextOf(h, w) /\ Size(g, w) = Size(h, w)
  BY DEF NextOf, SameSizes
<1>5. Tiles(g, B \ {b})
  <2>1. B \ {b} \subseteq 0..(PoolWords - 2) /\ 0 \in B \ {b} /\ Size(g, Sentinel) = 0
    BY <1>0, <1>1, <1>2, <1>4, PoolIs DEF Tiles
  <2>2. ASSUME NEW w \in Words PROVE NextOf(g, w) <= PoolWords
    BY <1>0, <1>2, <1>3, <1>4 DEF Tiles
  <2>3. ASSUME NEW c \in B \ {b}
        PROVE  Size(g, c) >= MinSize /\ NextOf(g, c) \in (B \ {b}) \cup {Sentinel}
    <3>1. CASE c = p
      <4>1. Size(h, p) >= MinSize /\ NextOf(h, b) \in B \cup {Sentinel} /\ NextOf(h, b) # b
        BY <1>0, <1>1 DEF Tiles
      <4>2. Size(g, p) >= MinSize
        BY <1>1, <1>2, <4>1 DEF MinSize
      <4> QED
        BY <1>3, <3>1, <4>1, <4>2
    <3>2. CASE c # p
      <4>1. Size(h, c) >= MinSize /\ NextOf(h, c) \in B \cup {Sentinel} /\ c \in Words
        BY <1>0, <1>1 DEF Tiles
      <4>2. NextOf(h, c) # b
        BY <1>0, <1>1, <3>2
      <4> QED
        BY <1>4, <3>2, <4>1, <4>2
    <3> QED
      BY <3>1, <3>2
  <2>4. ASSUME NEW c \in B \ {b}, NEW d \in B \ {b}, c < d PROVE NextOf(g, c) <= d
    <3>1. CASE c = p
      <4>1. NextOf(h, p) <= d
        BY <1>0, <2>4, <3>1 DEF Tiles
      <4>2. b < d
        BY <1>1, <1>2, <4>1
      <4>3. NextOf(h, b) <= d
        BY <1>0, <4>2 DEF Tiles
      <4> QED
        BY <1>3, <3>1, <4>3
    <3>2. CASE c # p
      <4>1. NextOf(h, c) <= d /\ c \in Words
        BY <1>0, <1>1, <2>4 DEF Tiles
      <4> QED
        BY <1>4, <3>2, <4>1
    <3> QED
      BY <3>1, <3>2
  <2>5. ASSUME NEW c \in (B \ {b}) \cup {Sentinel}, c # 0
        PROVE  \E d \in B \ {b} : NextOf(g, d) = c
    <3>1. PICK d \in B : NextOf(h, d) = c
      BY <1>0, <2>5 DEF Tiles
    <3>2. CASE d = b
      <4>1. p \in B \ {b} /\ NextOf(g, p) = c
        BY <1>0, <1>2, <1>3, <3>1, <3>2
      <4> QED
        BY <4>1
    <3>3. CASE d # b
      <4>1. d # p
        <5>1. c # b
          BY <1>0, <1>1, <2>5
        <5> QED
          BY <3>1, <5>1
      <4>2. d \in B \ {b} /\ NextOf(g, d) = c
        BY <1>1, <1>4, <3>1, <3>3, <4>1
      <4> QED
        BY <4>2
    <3> QED
      BY <3>2, <3>3
  <2> QED
    BY <2>1, <2>2, <2>3, <2>4, <2>5 DEF Tiles
<1>6. X \ {b} \subseteq B \ {b} /\ (B \ {b}) \ (X \ {b}) = B \ X
  BY <1>0
<1>7. \A c \in B \ X : /\ c \in Words /\ NextOf(g, c) = NextOf(h, c) /\ Size(g, c) = Size(h, c)
                       /\ NextOf(h, c) \in Words \ {NextOf(h, b)}
  BY <1>0, <1>1, <1>4
<1>8. SameFlags(g, h, "free", {Sentinel} \cup (B \ X))
  BY <1>7, PoolIs DEF SameFlags
<1>9. SameFlags(g, h, "prevFree", {0} \cup {NextOf(h, c) : c \in B \ X})
  <2>1. 0 \in Words
    BY PoolIs DEF Words
  <2> QED
    BY <1>7, <2>1 DEF SameFlags
<1>10. SamePrev(g, h, {NextOf(h, c) : c \in B \ X})
  BY <1>7 DEF SamePrev
<1>11. Good(g, B \ {b}, X \ {b}, U)
  BY <1>5, <1>6, <1>7, <1>8, <1>9, <1>10, Retile
<1> QED
  BY <1>2, <1>3, <1>11

(* A block is cut in two.                                                   *)
Cut(g, h, b, n, r) ==
    /\ g \in Heaps /\ Size(g, b) = n /\ Size(g, r) = Size(h, b) - (n + 1)
    /\ SameSizes(g, h, Words \ {b, r})
    /\ SameFlags(g, h, "free", Words \ {r})
    /\ SameFlags(g, h, "prevFree", Words \ {r, NextOf(h, b)})
    /\ SamePrev(g, h, Words \ {r, NextOf(h, b)}) /\ SameLists(g, h)
LEMMA Cutting ==
    ASSUME NEW h, NEW B, NEW X, NEW U, Good(h, B, X, U),
           NEW b \in X, NEW n \in Nat, n >= MinSize, CanSplit(h, b, n), NEW r, r = Rest(b, n),
           NEW g, Cut(g, h, b, n, r)
    PROVE  /\ Good(g, B \cup {r}, X \cup {r}, U)
           /\ NextOf(g, b) = r /\ NextOf(g, r) = NextOf(h, b) /\ r \in Words /\ r \notin B
<1> USE DEF Cut
<1>0. h \in Heaps /\ X \subseteq B /\ Tiles(h, B) /\ b \in B
  BY DEF Good
<1>1. /\ B \subseteq Words /\ B \in SUBSET Nat /\ Sentinel \notin B /\ Sentinel \in Nat
      /\ \A w \in Words : Size(h, w) \in Nat /\ NextOf(h, w) \in Nat /\ NextOf(h, w) = w + 1 + Size(h, w)
      /\ \A c \in B : /\ c < Sentinel /\ NextOf(h, c) \in Words /\ NextOf(h, c) > c
                      /\ NextOf(h, c) <= Sentinel /\ NextOf(h, c) # 0
      /\ \A c, d \in B : NextOf(h, c) = NextOf(h, d) => c = d
  BY <1>0, TileFacts
<1>x. r = b + 1 + n /\ Size(h, b) >= n + 4
  <2>1. Size(h, b) \in Nat
    BY <1>0, <1>1
  <2> QED
    BY <2>1 DEF Rest, CanSplit, HeaderSize
<1>2. /\ b \in Nat /\ b \in Words /\ r \in Nat /\ b < r /\ r < NextOf(h, b) /\ r < Sentinel
      /\ NextOf(h, b) \in Nat
  BY <1>0, <1>1, <1>x
<1>3. r \in Words /\ r \in 0..(PoolWords - 2) /\ r # Sentinel /\ r # 0 /\ r # b
  BY <1>2, PoolIs DEF Words, Sentinel
<1>4. r \notin B
  <2> SUFFICES ASSUME r \in B PROVE FALSE
    OBVIOUS
  <2>1. NextOf(h, b) <= r
    BY <1>0, <1>2 DEF Tiles
  <2> QED
    BY <1>2, <2>1
<1>5. NextOf(g, b) = r
  BY <1>x DEF NextOf
<1>6. NextOf(g, r) = NextOf(h, b)
  BY <1>1, <1>2, <1>x DEF NextOf
<1>7. \A w \in Words \ {b, r} : NextOf(g, w) = NextOf(h, w) /\ Size(g, w) = Size(h, w)
  BY DEF NextOf, SameSizes
<1>8. Tiles(g, B \cup {r})
  <2>1. B \cup {r} \subseteq 0..(PoolWords - 2) /\ 0 \in B \cup {r} /\ Size(g, Sentinel) = 0
    <3>1. Sentinel \in Words \ {b, r}
      BY <1>0, <1>1, <1>3, PoolIs
    <3> QED
      BY <1>0, <1>3, <1>7, <3>1 DEF Tiles
  <2>2. ASSUME NEW w \in Words PROVE NextOf(g, w) <= PoolWords
    <3>1. NextOf(h, w) <= PoolWords /\ NextOf(h, b) <= PoolWords
      BY <1>0, <1>2 DEF Tiles
    <3>2. r <= PoolWords
      BY <1>3, PoolIs
    <3> QED
      BY <1>5, <1>6, <1>7, <3>1, <3>2
  <2>3. ASSUME NEW c \in B \cup {r}
        PROVE  Size(g, c) >= MinSize /\ NextOf(g, c) \in (B \cup {r}) \cup {Sentinel}
    <3>1. CASE c = b
      BY <1>5, <3>1
    <3>2. CASE c = r
      <4>1. Size(h, b) - (n + 1) >= MinSize
        BY <1>1, <1>2, <1>x DEF MinSize
      <4>2. NextOf(h, b) \in B \cup {Sentinel}
        BY <1>0 DEF Tiles
      <4> QED
        BY <1>6, <3>2, <4>1, <4>2
    <3>3. CASE c # b /\ c # r
      <4>1. Size(h, c) >= MinSize /\ NextOf(h, c) \in B \cup {Sentinel} /\ c \in Words \ {b, r}
        BY <1>0, <1>1, <3>3 DEF Tiles
      <4> QED
        BY <1>7, <4>1
    <3> QED
      BY <3>1, <3>2, <3>3
  <2>4. ASSUME NEW c \in B \cup {r}, NEW d \in B \cup {r}, c < d PROVE NextOf(g, c) <= d
    <3>0. c \in Nat /\ d \in Nat
      BY <1>1, <1>2
    <3>1. CASE c = b
      <4>1. CASE d = r
        BY <1>2, <1>5, <3>1, <4>1
      <4>2. CASE d \in B
        <5>1. NextOf(h, b) <= d
          BY <1>0, <2>4, <3>1, <4>2 DEF Tiles
        <5> QED
          BY <1>2, <1>5, <3>0, <3>1, <5>1
      <4> QED
        BY <4>1, <4>2
    <3>2. CASE c = r
      <4>1. d \in B /\ b < d
        BY <1>2, <2>4, <3>0, <3>2
      <4>2. NextOf(h, b) <= d
        BY <1>0, <4>1 DEF Tiles
      <4> QED
        BY <1>6, <3>2, <4>2
    <3>3. CASE c \in B /\ c # b
      <4>0. c \in Words \ {b, r} /\ NextOf(g, c) = NextOf(h, c)
        BY <1>1, <1>4, <1>7, <3>3
      <4>1. CASE d \in B
        <5>1. NextOf(h, c) <= d
          BY <1>0, <2>4, <3>3, <4>1 DEF Tiles
        <5> QED
          BY <4>0, <5>1
      <4>2. CASE d = r
        <5>1. c < b
          <6> SUFFICES ASSUME b < c PROVE FALSE
            BY <1>2, <3>0, <3>3
          <6>1. NextOf(h, b) <= c
            BY <1>0, <3>3 DEF Tiles
          <6> QED
            BY <1>2, <2>4, <3>0, <4>2, <6>1
        <5>2. NextOf(h, c) <= b /\ NextOf(h, c) \in Nat
          BY <1>0, <1>1, <3>3, <5>1 DEF Tiles
        <5> QED
          BY <1>2, <4>0, <4>2, <5>2
      <4> QED
        BY <4>1, <4>2
    <3> QED
      BY <3>1, <3>2, <3>3
  <2>5. ASSUME NEW c \in (B \cup {r}) \cup {Sentinel}, c # 0
        PROVE  \E d \in B \cup {r} : NextOf(g, d) = c
    <3>1. CASE c = r
      BY <1>0, <1>5, <3>1
    <3>2. CASE c # r
      <4>1. PICK d \in B : NextOf(h, d) = c
        BY <1>0, <2>5, <3>2 DEF Tiles
      <4>2. CASE d = b
        BY <1>6, <4>1, <4>2
      <4>3. CASE d # b
        <5>1. d \in Words \ {b, r}
          BY <1>1, <1>4, <4>3
        <5> QED
          BY <1>7, <4>1, <5>1
      <4> QED
        BY <4>2, <4>3
    <3> QED
      BY <3>1, <3>2
  <2> QED
    BY <2>1, <2>2, <2>3, <2>4, <2>5 DEF Tiles
<1>9. X \cup {r} \subseteq B \cup {r} /\ (B \cup {r}) \ (X \cup {r}) = B \ X
  BY <1>0, <1>4
<1>10. \A c \in B \ X : /\ c \in Words \ {b, r} /\ NextOf(g, c) = NextOf(h, c) /\ Size(g, c) = Size(h, c)
                        /\ NextOf(h, c) \in Words \ {r, NextOf(h, b)}
  <2> SUFFICES ASSUME NEW c \in B \ X
               PROVE  /\ c \in Words \ {b, r} /\ NextOf(g, c) = NextOf(h, c) /\ Size(g, c) = Size(h, c)
                      /\ NextOf(h, c) \in Words \ {r, NextOf(h, b)}
    OBVIOUS
  <2>1. c \in B /\ c # b /\ c \in Words \ {b, r}
    BY <1>0, <1>1, <1>4
  <2>2. NextOf(h, c) \in B \cup {Sentinel} /\ NextOf(h, c) # NextOf(h, b) /\ NextOf(h, c) \in Words
    BY <1>0, <1>1, <2>1 DEF Tiles
  <2> QED
    BY <1>3, <1>4, <1>7, <2>1, <2>2
<1>11. SameFlags(g, h, "free", {Sentinel} \cup (B \ X))
  BY <1>3, <1>10, PoolIs DEF SameFlags
<1>12. SameFlags(g, h, "prevFree", {0} \cup {NextOf(h, c) : c \in B \ X})
  <2>1. 0 \in Words \ {r, NextOf(h, b)}
    BY <1>0, <1>1, <1>3, PoolIs DEF Words
  <2> QED
    BY <1>10, <2>1 DEF SameFlags
<1>13. SamePrev(g, h, {NextOf(h, c) : c \in B \ X})
  BY <1>10 DEF SamePrev
<1>14. Good(g, B \cup {r}, X \cup {r}, U)
  BY <1>8, <1>9, <1>10, <1>11, <1>12, <1>13, Retile
<1> QED
  BY <1>3, <1>4, <1>5, <1>6, <1>14

-----------------------------------------------------------------------------
(* The free lists                                                           *)

(* A sequence without one of its entries.                                   *)
LEMMA RemoveAtEntries ==
    ASSUME NEW S, NEW s \in Seq(S), NEW i \in 1..Len(s)
    PROVE  /\ RemoveAt(s, i) \in Seq(S)
           /\ Len(RemoveAt(s, i)) = Len(s) - 1
           /\ \A k \in 1..(Len(s) - 1) :
                RemoveAt(s, i)[k] = IF k < i THEN s[k] ELSE s[k + 1]
<1> DEFINE a == SubSeq(s, 1, i - 1)
           b == SubSeq(s, i + 1, Len(s))
<1>0. Len(s) \in Nat /\ \A k \in 1..Len(s) : s[k] \in S
  BY LenProperties, ElementOfSeq
<1>1. a \in Seq(S) /\ Len(a) = i - 1 /\ \A k \in 1..(i - 1) : a[k] = s[k]
  BY <1>0, SubSeqProperties
<1>2. /\ b \in Seq(S) /\ Len(b) = Len(s) - i
      /\ \A k \in 1..(Len(s) - i) : b[k] = s[i + k]
  <2>1. /\ b \in Seq(S) /\ Len(b) = IF i + 1 <= Len(s) THEN Len(s) - (i + 1) + 1 ELSE 0
        /\ \A k \in 1..(Len(s) - (i + 1) + 1) : b[k] = s[(i + 1) + k - 1]
    BY <1>0, SubSeqProperties
  <2> QED
    BY <1>0, <2>1
<1> HIDE DEF a, b
<1>3. /\ a \o b \in Seq(S) /\ Len(a \o b) = Len(a) + Len(b)
      /\ \A k \in 1..(Len(a) + Len(b)) : (a \o b)[k] = IF k <= Len(a) THEN a[k] ELSE b[k - Len(a)]
  BY <1>1, <1>2, ConcatProperties
<1>4. RemoveAt(s, i) = a \o b
  BY DEF RemoveAt, a, b
<1>5. Len(a) + Len(b) = Len(s) - 1
  BY <1>0, <1>1, <1>2
<1>6. ASSUME NEW k \in 1..(Len(s) - 1)
      PROVE  (a \o b)[k] = IF k < i THEN s[k] ELSE s[k + 1]
  <2>1. (a \o b)[k] = IF k <= Len(a) THEN a[k] ELSE b[k - Len(a)]
    BY <1>3, <1>5
  <2>2. CASE k < i
    <3>1. k <= Len(a) /\ k \in 1..(i - 1)
      BY <2>2, <1>0, <1>1
    <3> QED
      BY <2>1, <2>2, <3>1, <1>1
  <2>3. CASE ~(k < i)
    <3>1. ~(k <= Len(a)) /\ k - Len(a) = k - i + 1 /\ k - i + 1 \in 1..(Len(s) - i)
      BY <2>3, <1>0, <1>1
    <3>2. b[k - i + 1] = s[i + (k - i + 1)] /\ i + (k - i + 1) = k + 1
      BY <3>1, <1>0, <1>2
    <3> QED
      BY <2>1, <2>3, <3>1, <3>2
  <2> QED
    BY <2>2, <2>3
<1> QED
  BY <1>3, <1>4, <1>5, <1>6

(* A free list without one of its blocks has the others, each once.         *)
LEMMA RemoveKeepsUnique ==
    ASSUME NEW S, NEW s \in Seq(S), NEW i \in 1..Len(s), IsInjective(s)
    PROVE  /\ RemoveAt(s, i) \in Seq(S)
           /\ IsInjective(RemoveAt(s, i))
           /\ Range(RemoveAt(s, i)) = Range(s) \ {s[i]}
<1> DEFINE r == RemoveAt(s, i)
<1>2. /\ r \in Seq(S) /\ Len(r) = Len(s) - 1
      /\ \A k \in 1..(Len(s) - 1) : r[k] = IF k < i THEN s[k] ELSE s[k + 1]
  BY RemoveAtEntries
<1> HIDE DEF r
<1>3. Len(s) \in Nat /\ DOMAIN s = 1..Len(s) /\ DOMAIN r = 1..(Len(s) - 1)
  BY <1>2, LenProperties
<1>4. \A x, y \in 1..Len(s) : s[x] = s[y] => x = y
  BY <1>3 DEF IsInjective
<1>5. IsInjective(r)
  <2> SUFFICES ASSUME NEW j \in 1..(Len(s) - 1), NEW k \in 1..(Len(s) - 1), r[j] = r[k]
               PROVE  j = k
    BY <1>3 DEF IsInjective
  <2>1. /\ r[j] = s[IF j < i THEN j ELSE j + 1] /\ (IF j < i THEN j ELSE j + 1) \in 1..Len(s)
        /\ r[k] = s[IF k < i THEN k ELSE k + 1] /\ (IF k < i THEN k ELSE k + 1) \in 1..Len(s)
    BY <1>2, <1>3
  <2>2. (IF j < i THEN j ELSE j + 1) = (IF k < i THEN k ELSE k + 1)
    BY <1>4, <2>1
  <2> QED
    BY <1>3, <2>2
<1>6. Range(r) = Range(s) \ {s[i]}
  <2>1. ASSUME NEW k \in 1..(Len(s) - 1) PROVE r[k] \in Range(s) \ {s[i]}
    <3>1. CASE k < i
      <4>1. k \in 1..Len(s) /\ r[k] = s[k] /\ k # i
        BY <3>1, <1>2, <1>3
      <4> QED
        BY <4>1, <1>3, <1>4 DEF Range
    <3>2. CASE k >= i
      <4>1. k + 1 \in 1..Len(s) /\ r[k] = s[k + 1] /\ k + 1 # i
        BY <3>2, <1>2, <1>3
      <4> QED
        BY <4>1, <1>3, <1>4 DEF Range
    <3> QED
      BY <3>1, <3>2, <1>3
  <2>2. ASSUME NEW k \in 1..Len(s), k # i PROVE s[k] \in Range(r)
    <3>1. CASE k < i
      BY <3>1, <1>2, <1>3 DEF Range
    <3>2. CASE k > i
      <4>1. k - 1 \in 1..(Len(s) - 1) /\ r[k - 1] = s[k]
        BY <3>2, <1>2, <1>3
      <4> QED
        BY <4>1, <1>3 DEF Range
    <3> QED
      BY <3>1, <3>2, <2>2, <1>3
  <2> QED
    BY <2>1, <2>2, <1>3 DEF Range
<1> QED
  BY <1>2, <1>5, <1>6 DEF r

(* remove_free_block: one list and its bits change.                         *)
LEMMA RemoveIs ==
    ASSUME NEW h \in Heaps, NEW i \in Index, NEW b \in Range(h.list[i.fl][i.sl]),
           IsInjective(h.list[i.fl][i.sl]), NEW g, g = RemoveFreeBlock(h, b, i)
    PROVE  /\ g \in Heaps /\ g.hdr = h.hdr /\ g.prev = h.prev
           /\ IsInjective(g.list[i.fl][i.sl])
           /\ Range(g.list[i.fl][i.sl]) = Range(h.list[i.fl][i.sl]) \ {b}
           /\ \A f \in 0..(FLCount - 1), s \in 0..(SmallSize - 1) :
                  f # i.fl \/ s # i.sl =>
                      g.list[f][s] = h.list[f][s] /\ (s \in g.sl[f] <=> s \in h.sl[f])
           /\ i.sl \in g.sl[i.fl] <=> i.sl \in h.sl[i.fl] /\ Range(g.list[i.fl][i.sl]) # {}
           /\ \A f \in 0..(FLCount - 1) :
                  f \in g.fl <=> f \in h.fl /\ (f # i.fl \/ g.sl[f] # {})
<1>0. /\ i.fl \in 0..(FLCount - 1) /\ i.sl \in 0..(SmallSize - 1)
      /\ h.list \in [0..(FLCount - 1) -> [0..(SmallSize - 1) -> Seq(Words)]]
      /\ h.sl \in [0..(FLCount - 1) -> SUBSET (0..(SmallSize - 1))]
      /\ h.fl \in SUBSET (0..(FLCount - 1))
  BY DEF Heaps, Index
<1> DEFINE list == h.list[i.fl][i.sl]
           k == CHOOSE j \in DOMAIN list : list[j] = b
           rest == Unlink(list, b)
           sl == IF rest = <<>> THEN h.sl[i.fl] \ {i.sl} ELSE h.sl[i.fl]
           L == [h.list EXCEPT ![i.fl] = [h.list[i.fl] EXCEPT ![i.sl] = rest]]
           S == [h.sl EXCEPT ![i.fl] = sl]
           T == IF sl = {} THEN h.fl \ {i.fl} ELSE h.fl
<1>1. list \in Seq(Words)
  BY <1>0
<1>2. k \in DOMAIN list /\ list[k] = b
  BY DEF Range
<1>3. rest \in Seq(Words) /\ IsInjective(rest) /\ Range(rest) = Range(list) \ {b}
  <2>1. k \in 1..Len(list)
    BY <1>1, <1>2, LenProperties
  <2>2. IsInjective(list)
    OBVIOUS
  <2>3. rest = RemoveAt(list, k)
    BY DEF Unlink
  <2> HIDE DEF list, k, rest
  <2> QED
    BY <1>1, <1>2, <2>1, <2>2, <2>3, RemoveKeepsUnique
<1>4. g = [h EXCEPT !.list = L, !.sl = S, !.fl = T]
  BY DEF RemoveFreeBlock
<1>5. rest = <<>> <=> Range(rest) = {}
  <2> HIDE DEF rest
  <2>1. rest \in Seq(Words) => DOMAIN rest = 1..Len(rest) /\ Len(rest) \in Nat
    BY LenProperties
  <2>2. rest # <<>> => Len(rest) # 0
    BY <1>3, EmptySeq
  <2>3. rest = <<>> => Range(rest) = {}
    BY DEF Range
  <2>4. rest # <<>> => rest[1] \in Range(rest)
    BY <1>3, <2>1, <2>2 DEF Range
  <2> QED
    BY <2>3, <2>4
<1> HIDE DEF list, k, rest
<1>6. sl \in SUBSET (0..(SmallSize - 1))
  BY <1>0
<1>7. /\ L \in [0..(FLCount - 1) -> [0..(SmallSize - 1) -> Seq(Words)]]
      /\ S \in [0..(FLCount - 1) -> SUBSET (0..(SmallSize - 1))]
      /\ T \in SUBSET (0..(FLCount - 1))
  <2> HIDE DEF sl
  <2> QED
    BY <1>0, <1>3, <1>6
<1>8. /\ L[i.fl][i.sl] = rest
      /\ \A f \in 0..(FLCount - 1), s \in 0..(SmallSize - 1) :
             f # i.fl \/ s # i.sl => L[f][s] = h.list[f][s]
      /\ S[i.fl] = sl /\ \A f \in 0..(FLCount - 1) : f # i.fl => S[f] = h.sl[f]
  BY <1>0
<1>9. g \in Heaps /\ g.hdr = h.hdr /\ g.prev = h.prev /\ g.list = L /\ g.sl = S /\ g.fl = T
  <2> HIDE DEF L, S, T
  <2> QED
    BY <1>4, <1>7 DEF Heaps
<1>10. /\ i.sl \in sl <=> i.sl \in h.sl[i.fl] /\ Range(rest) # {}
       /\ \A s : s # i.sl => (s \in sl <=> s \in h.sl[i.fl])
  BY <1>5
<1> HIDE DEF L, S
<1>11. \A f \in 0..(FLCount - 1) : f \in T <=> f \in h.fl /\ (f # i.fl \/ S[f] # {})
  <2> HIDE DEF sl
  <2> QED
    BY <1>8
<1> HIDE DEF T, sl
<1> QED
  BY <1>3, <1>8, <1>9, <1>10, <1>11 DEF list

(* insert_free_block: the block is at the head of its list.                 *)
LEMMA InsertIs ==
    ASSUME NEW h \in Heaps, NEW i \in Index, NEW b \in Words,
           b \notin Range(h.list[i.fl][i.sl]),
           IsInjective(h.list[i.fl][i.sl]), NEW g, g = InsertFreeBlock(h, b, i)
    PROVE  /\ g \in Heaps /\ g.hdr = h.hdr /\ g.prev = h.prev
           /\ IsInjective(g.list[i.fl][i.sl])
           /\ Range(g.list[i.fl][i.sl]) = Range(h.list[i.fl][i.sl]) \cup {b}
           /\ \A f \in 0..(FLCount - 1), s \in 0..(SmallSize - 1) :
                  f # i.fl \/ s # i.sl =>
                      g.list[f][s] = h.list[f][s] /\ (s \in g.sl[f] <=> s \in h.sl[f])
           /\ i.sl \in g.sl[i.fl]
           /\ \A f \in 0..(FLCount - 1) : f \in g.fl <=> f \in h.fl \/ f = i.fl
<1>0. /\ i.fl \in 0..(FLCount - 1) /\ i.sl \in 0..(SmallSize - 1)
      /\ h.list \in [0..(FLCount - 1) -> [0..(SmallSize - 1) -> Seq(Words)]]
      /\ h.sl \in [0..(FLCount - 1) -> SUBSET (0..(SmallSize - 1))]
      /\ h.fl \in SUBSET (0..(FLCount - 1))
  BY DEF Heaps, Index
<1> DEFINE list == h.list[i.fl][i.sl]
           more == <<b>> \o list
           sl == h.sl[i.fl] \cup {i.sl}
           L == [h.list EXCEPT ![i.fl] = [h.list[i.fl] EXCEPT ![i.sl] = more]]
           S == [h.sl EXCEPT ![i.fl] = sl]
           T == h.fl \cup {i.fl}
<1>1. list \in Seq(Words) /\ IsInjective(list) /\ b \notin Range(list)
  BY <1>0
<1>2. g = [h EXCEPT !.list = L, !.sl = S, !.fl = T]
  BY DEF InsertFreeBlock
<1>3. more \in Seq(Words) /\ IsInjective(more) /\ Range(more) = Range(list) \cup {b}
  <2> HIDE DEF list
  <2>1. Len(list) \in Nat /\ DOMAIN list = 1..Len(list) /\ <<b>> \in Seq(Words) /\ Len(<<b>>) = 1 /\ <<b>>[1] = b
    BY <1>1, LenProperties
  <2>2. /\ more \in Seq(Words) /\ Len(more) = 1 + Len(list)
        /\ \A j \in 1..(1 + Len(list)) : more[j] = IF j <= 1 THEN <<b>>[j] ELSE list[j - 1]
    BY <1>1, <2>1, ConcatProperties
  <2>3. DOMAIN more = 1..(1 + Len(list))
    BY <2>2, LenProperties
  <2> HIDE DEF more
  <2>4. more[1] = b /\ \A j \in 2..(1 + Len(list)) : j - 1 \in DOMAIN list /\ more[j] = list[j - 1]
    BY <2>1, <2>2
  <2>5. IsInjective(more)
    <3> SUFFICES ASSUME NEW j \in 1..(1 + Len(list)), NEW m \in 1..(1 + Len(list)), more[j] = more[m]
                 PROVE  j = m
      BY <2>3 DEF IsInjective
    <3>1. CASE j = 1 /\ m = 1
      BY <3>1
    <3>2. CASE j # 1 /\ m # 1
      <4>1. j \in 2..(1 + Len(list)) /\ m \in 2..(1 + Len(list))
        BY <2>1, <3>2
      <4>2. list[j - 1] = list[m - 1] /\ j - 1 \in DOMAIN list /\ m - 1 \in DOMAIN list
        BY <2>4, <4>1
      <4>3. j - 1 = m - 1
        BY <1>1, <4>2 DEF IsInjective
      <4> QED
        BY <4>1, <4>3
    <3>3. CASE (j = 1 /\ m # 1) \/ (j # 1 /\ m = 1)
      <4>1. PICK n \in 2..(1 + Len(list)) : more[n] = b
        BY <2>1, <2>4, <3>3
      <4>2. b \in Range(list)
        BY <2>4, <4>1 DEF Range
      <4> QED
        BY <1>1, <4>2
    <3> QED
      BY <3>1, <3>2, <3>3
  <2>6. Range(more) \subseteq Range(list) \cup {b}
    <3> SUFFICES ASSUME NEW j \in 1..(1 + Len(list)) PROVE more[j] \in Range(list) \cup {b}
      BY <2>3 DEF Range
    <3>1. CASE j = 1
      BY <2>4, <3>1
    <3>2. CASE j # 1
      <4>1. j \in 2..(1 + Len(list))
        BY <2>1, <3>2
      <4> QED
        BY <2>4, <4>1 DEF Range
    <3> QED
      BY <3>1, <3>2
  <2>7. Range(list) \cup {b} \subseteq Range(more)
    <3>1. b \in Range(more)
      BY <2>1, <2>3, <2>4 DEF Range
    <3>2. ASSUME NEW j \in DOMAIN list PROVE list[j] \in Range(more)
      <4>1. j + 1 \in 2..(1 + Len(list)) /\ (j + 1) - 1 = j /\ j + 1 \in DOMAIN more
        BY <2>1, <2>3
      <4>2. more[j + 1] = list[j]
        BY <2>4, <4>1
      <4> QED
        BY <4>1, <4>2 DEF Range
    <3> QED
      BY <3>1, <3>2 DEF Range
  <2> QED
    BY <2>2, <2>5, <2>6, <2>7
<1> HIDE DEF list, more
<1>7. /\ L \in [0..(FLCount - 1) -> [0..(SmallSize - 1) -> Seq(Words)]]
      /\ S \in [0..(FLCount - 1) -> SUBSET (0..(SmallSize - 1))]
      /\ T \in SUBSET (0..(FLCount - 1))
  BY <1>0, <1>3
<1>8. /\ L[i.fl][i.sl] = more
      /\ \A f \in 0..(FLCount - 1), s \in 0..(SmallSize - 1) :
             f # i.fl \/ s # i.sl => L[f][s] = h.list[f][s]
      /\ S[i.fl] = sl /\ \A f \in 0..(FLCount - 1) : f # i.fl => S[f] = h.sl[f]
  BY <1>0
<1>9. g \in Heaps /\ g.hdr = h.hdr /\ g.prev = h.prev /\ g.list = L /\ g.sl = S /\ g.fl = T
  <2> HIDE DEF L, S, T
  <2> QED
    BY <1>2, <1>7 DEF Heaps
<1> HIDE DEF L, S
<1> QED
  BY <1>3, <1>8, <1>9 DEF list

(* The block of the whole pool is shorter than block_size_max.              *)
PoolIndexed == PoolWords - 2 < Pow2[FLMax]

(* Every block has a list.                                                  *)
LEMMA BlockIndexed ==
    ASSUME PoolIndexed, NEW h \in Heaps, NEW B, Tiles(h, B), NEW b \in B
    PROVE  MappingInsert(Size(h, b)) \in Index
<1>1. /\ b \in Nat /\ Size(h, b) \in Nat /\ NextOf(h, b) = b + 1 + Size(h, b) /\ NextOf(h, b) <= Sentinel
      /\ Sentinel \in Nat
  BY TileFacts
<1>2. Size(h, b) < Pow2[FLMax] /\ PoolWords \in Nat
  <2>1. Pow2[FLMax] \in Nat
    BY Pow2Is, ShiftsAre
  <2> QED
    BY <1>1, <2>1, PoolIs DEF Sentinel, PoolIndexed
<1> QED
  BY <1>1, <1>2, MappingIn

(* Headers and links alone decide the tiling and the marks.                 *)
LEMMA SameWords ==
    ASSUME NEW h, NEW g, g.hdr = h.hdr, g.prev = h.prev
    PROVE  /\ \A w : Size(g, w) = Size(h, w) /\ NextOf(g, w) = NextOf(h, w)
           /\ \A w, flag : Is(g, w, flag) = Is(h, w, flag)
           /\ \A B, X : FreeOf(g, B, X) = FreeOf(h, B, X) /\ UsedOf(g, B, X) = UsedOf(h, B, X)
           /\ \A B : Tiles(h, B) => Tiles(g, B)
           /\ \A F, f, s : InList(g, F, f, s) = InList(h, F, f, s)
<1>1. \A w : Size(g, w) = Size(h, w)
  BY DEF Size
<1>2. \A w : NextOf(g, w) = NextOf(h, w)
  BY <1>1 DEF NextOf
<1>3. \A w, flag : Is(g, w, flag) = Is(h, w, flag)
  BY DEF Is
<1>4. \A B, X : FreeOf(g, B, X) = FreeOf(h, B, X) /\ UsedOf(g, B, X) = UsedOf(h, B, X)
  BY <1>3 DEF FreeOf, UsedOf
<1>5. \A B : Tiles(h, B) => Tiles(g, B)
  BY <1>1, <1>2 DEF Tiles
<1>6. \A F, f, s : InList(g, F, f, s) = InList(h, F, f, s)
  BY <1>1 DEF InList
<1> QED
  BY <1>1, <1>2, <1>3, <1>4, <1>5, <1>6

(* A free block is taken out of its list.                                   *)
LEMMA Removing ==
    ASSUME PoolIndexed, NEW h, NEW B, NEW X, NEW U, Good(h, B, X, U),
           NEW b \in FreeOf(h, B, X), NEW g, g = BlockRemove(h, b)
    PROVE  Good(g, B, X \cup {b}, U) /\ g.hdr = h.hdr /\ g.prev = h.prev
<1> DEFINE F == FreeOf(h, B, X)
           i == MappingInsert(Size(h, b))
<1>0. /\ h \in Heaps /\ X \subseteq B /\ Tiles(h, B) /\ Marked(h, B, X) /\ Listed(h, F)
      /\ U = UsedOf(h, B, X) /\ b \in B /\ b \in F /\ b \notin X /\ Is(h, b, "free")
  BY DEF Good, FreeOf
<1>1. i \in Index
  BY <1>0, BlockIndexed
<1>2. g = RemoveFreeBlock(h, b, i)
  BY DEF BlockRemove
<1>3. i = [fl |-> i.fl, sl |-> i.sl] /\ i.fl \in 0..(FLCount - 1) /\ i.sl \in 0..(SmallSize - 1)
  <2> HIDE DEF i
  <2> QED
    BY <1>1 DEF Index
<1>4. b \in InList(h, F, i.fl, i.sl)
  <2>1. MappingInsert(Size(h, b)) = [fl |-> i.fl, sl |-> i.sl]
    BY <1>3
  <2> HIDE DEF i, F
  <2> QED
    BY <1>0, <2>1 DEF InList
<1>5. \A f \in 0..(FLCount - 1), s \in 0..(SmallSize - 1) :
          b \in InList(h, F, f, s) => f = i.fl /\ s = i.sl
  BY <1>3 DEF InList
<1> HIDE DEF F, i
<1>6. IsInjective(h.list[i.fl][i.sl]) /\ Range(h.list[i.fl][i.sl]) = InList(h, F, i.fl, i.sl)
  BY <1>0, <1>3 DEF Listed
<1>7. /\ g \in Heaps /\ g.hdr = h.hdr /\ g.prev = h.prev
      /\ IsInjective(g.list[i.fl][i.sl])
      /\ Range(g.list[i.fl][i.sl]) = Range(h.list[i.fl][i.sl]) \ {b}
      /\ \A f \in 0..(FLCount - 1), s \in 0..(SmallSize - 1) :
             f # i.fl \/ s # i.sl =>
                 g.list[f][s] = h.list[f][s] /\ (s \in g.sl[f] <=> s \in h.sl[f])
      /\ i.sl \in g.sl[i.fl] <=> i.sl \in h.sl[i.fl] /\ Range(g.list[i.fl][i.sl]) # {}
      /\ \A f \in 0..(FLCount - 1) :
             f \in g.fl <=> f \in h.fl /\ (f # i.fl \/ g.sl[f] # {})
  <2>1. b \in Range(h.list[i.fl][i.sl])
    BY <1>4, <1>6
  <2> QED
    BY <1>0, <1>1, <1>2, <1>6, <2>1, RemoveIs
<1>8. /\ \A w : NextOf(g, w) = NextOf(h, w)
      /\ \A w, flag : Is(g, w, flag) = Is(h, w, flag)
      /\ FreeOf(g, B, X \cup {b}) = FreeOf(h, B, X \cup {b})
      /\ UsedOf(g, B, X \cup {b}) = UsedOf(h, B, X \cup {b})
      /\ Tiles(g, B)
      /\ \A E, f, s : InList(g, E, f, s) = InList(h, E, f, s)
  BY <1>0, <1>7, SameWords
<1>9. FreeOf(h, B, X \cup {b}) = F \ {b} /\ UsedOf(h, B, X \cup {b}) = UsedOf(h, B, X)
  BY <1>0 DEF FreeOf, UsedOf, F
<1>10. Marked(g, B, X \cup {b})
  <2>1. ASSUME NEW c \in B \ (X \cup {b}) PROVE Is(g, NextOf(g, c), "prevFree") <=> Is(g, c, "free")
    BY <1>0, <1>8, <2>1 DEF Marked
  <2>2. ASSUME NEW c \in F \ {b}
        PROVE  g.prev[NextOf(g, c)] = c /\ NextOf(g, c) \notin F \ {b}
    <3>1. h.prev[NextOf(h, c)] = c /\ NextOf(h, c) \notin F
      BY <1>0, <2>2 DEF Marked, F
    <3> QED
      BY <1>7, <1>8, <3>1
  <2> QED
    BY <1>0, <1>8, <1>9, <2>1, <2>2 DEF Marked
<1>11. Listed(g, F \ {b})
  <2>1. \A f, s : InList(g, F \ {b}, f, s) = InList(h, F, f, s) \ {b}
    BY <1>8 DEF InList
  <2>2. ASSUME NEW f \in 0..(FLCount - 1), NEW s \in 0..(SmallSize - 1)
        PROVE  /\ IsInjective(g.list[f][s])
               /\ Range(g.list[f][s]) = InList(h, F, f, s) \ {b}
               /\ s \in g.sl[f] <=> InList(h, F, f, s) \ {b} # {}
    <3>0. /\ IsInjective(h.list[f][s]) /\ Range(h.list[f][s]) = InList(h, F, f, s)
          /\ s \in h.sl[f] <=> InList(h, F, f, s) # {}
      BY <1>0 DEF Listed
    <3>1. CASE f = i.fl /\ s = i.sl
      BY <1>4, <1>7, <3>0, <3>1
    <3>2. CASE f # i.fl \/ s # i.sl
      <4>1. b \notin InList(h, F, f, s)
        BY <1>5, <3>2
      <4> QED
        BY <1>7, <3>0, <3>2, <4>1
    <3> QED
      BY <3>1, <3>2
  <2>3. ASSUME NEW f \in 0..(FLCount - 1) PROVE f \in g.fl <=> g.sl[f] # {}
    <3>0. f \in h.fl <=> h.sl[f] # {}
      BY <1>0 DEF Listed
    <3>1. CASE f = i.fl
      <4>1. i.sl \in h.sl[i.fl]
        BY <1>0, <1>3, <1>4 DEF Listed
      <4> QED
        BY <1>7, <3>0, <3>1, <4>1
    <3>2. CASE f # i.fl
      <4>1. g.sl[f] = h.sl[f]
        <5>1. g.sl[f] \subseteq 0..(SmallSize - 1) /\ h.sl[f] \subseteq 0..(SmallSize - 1)
          BY <1>0, <1>7 DEF Heaps
        <5> QED
          BY <1>7, <3>2, <5>1
      <4> QED
        BY <1>7, <3>0, <3>2, <4>1
    <3> QED
      BY <3>1, <3>2
  <2>4. ASSUME NEW f \in 0..(FLCount - 1), NEW s \in 0..(SmallSize - 1)
        PROVE  /\ IsInjective(g.list[f][s])
               /\ Range(g.list[f][s]) = InList(g, F \ {b}, f, s)
               /\ s \in g.sl[f] <=> InList(g, F \ {b}, f, s) # {}
    <3>1. InList(g, F \ {b}, f, s) = InList(h, F, f, s) \ {b}
      BY <2>1
    <3> QED
      BY <2>2, <3>1
  <2> QED
    BY <2>3, <2>4 DEF Listed
<1>12. Good(g, B, X \cup {b}, U)
  BY <1>0, <1>7, <1>8, <1>9, <1>10, <1>11 DEF Good
<1> QED
  BY <1>7, <1>12

(* A block goes to its list: it is marked free, the next one knows it, and  *)
(* it touches no free block.                                                *)
LEMMA Inserting ==
    ASSUME PoolIndexed, NEW h, NEW B, NEW X, NEW U, Good(h, B, X, U), NEW x \in X,
           Is(h, x, "free"), Is(h, NextOf(h, x), "prevFree"), h.prev[NextOf(h, x)] = x,
           NextOf(h, x) \notin FreeOf(h, B, X),
           \A b \in FreeOf(h, B, X) : NextOf(h, b) # x,
           NEW g, g = BlockInsert(h, x)
    PROVE  Good(g, B, X \ {x}, U) /\ g.hdr = h.hdr /\ g.prev = h.prev
<1> DEFINE F == FreeOf(h, B, X)
           i == MappingInsert(Size(h, x))
<1>0. /\ h \in Heaps /\ X \subseteq B /\ Tiles(h, B) /\ Marked(h, B, X) /\ Listed(h, F)
      /\ U = UsedOf(h, B, X) /\ x \in B /\ x \notin F
  BY DEF Good, FreeOf
<1>1. i \in Index /\ x \in Words /\ NextOf(h, x) # x
  <2>1. x \in Words /\ x \in Nat /\ NextOf(h, x) > x /\ NextOf(h, x) \in Nat
    BY <1>0, TileFacts
  <2> QED
    BY <1>0, <2>1, BlockIndexed
<1>2. g = InsertFreeBlock(h, x, i)
  BY DEF BlockInsert
<1>3. i = [fl |-> i.fl, sl |-> i.sl] /\ i.fl \in 0..(FLCount - 1) /\ i.sl \in 0..(SmallSize - 1)
  <2> HIDE DEF i
  <2> QED
    BY <1>1 DEF Index
<1>4. \A f \in 0..(FLCount - 1), s \in 0..(SmallSize - 1) :
          InList(h, F \cup {x}, f, s) =
              IF f = i.fl /\ s = i.sl THEN InList(h, F, f, s) \cup {x} ELSE InList(h, F, f, s)
  <2> SUFFICES ASSUME NEW f \in 0..(FLCount - 1), NEW s \in 0..(SmallSize - 1)
               PROVE  InList(h, F \cup {x}, f, s) =
                          IF f = i.fl /\ s = i.sl THEN InList(h, F, f, s) \cup {x} ELSE InList(h, F, f, s)
    OBVIOUS
  <2>1. MappingInsert(Size(h, x)) = [fl |-> f, sl |-> s] <=> (f = i.fl /\ s = i.sl)
    BY <1>3
  <2> HIDE DEF i, F
  <2> QED
    BY <2>1 DEF InList
<1> HIDE DEF F, i
<1>6. IsInjective(h.list[i.fl][i.sl]) /\ Range(h.list[i.fl][i.sl]) = InList(h, F, i.fl, i.sl)
  BY <1>0, <1>3 DEF Listed
<1>7. /\ g \in Heaps /\ g.hdr = h.hdr /\ g.prev = h.prev
      /\ IsInjective(g.list[i.fl][i.sl])
      /\ Range(g.list[i.fl][i.sl]) = Range(h.list[i.fl][i.sl]) \cup {x}
      /\ \A f \in 0..(FLCount - 1), s \in 0..(SmallSize - 1) :
             f # i.fl \/ s # i.sl =>
                 g.list[f][s] = h.list[f][s] /\ (s \in g.sl[f] <=> s \in h.sl[f])
      /\ i.sl \in g.sl[i.fl]
      /\ \A f \in 0..(FLCount - 1) : f \in g.fl <=> f \in h.fl \/ f = i.fl
  <2>1. x \notin Range(h.list[i.fl][i.sl])
    BY <1>0, <1>6 DEF InList
  <2> QED
    BY <1>0, <1>1, <1>2, <1>6, <2>1, InsertIs
<1>8. /\ \A w : NextOf(g, w) = NextOf(h, w)
      /\ \A w, flag : Is(g, w, flag) = Is(h, w, flag)
      /\ FreeOf(g, B, X \ {x}) = FreeOf(h, B, X \ {x})
      /\ UsedOf(g, B, X \ {x}) = UsedOf(h, B, X \ {x})
      /\ Tiles(g, B)
      /\ \A E, f, s : InList(g, E, f, s) = InList(h, E, f, s)
  BY <1>0, <1>7, SameWords
<1>9. FreeOf(h, B, X \ {x}) = F \cup {x} /\ UsedOf(h, B, X \ {x}) = UsedOf(h, B, X)
  BY <1>0 DEF FreeOf, UsedOf, F
<1>10. Marked(g, B, X \ {x})
  <2>1. ASSUME NEW b \in B \ (X \ {x}) PROVE Is(g, NextOf(g, b), "prevFree") <=> Is(g, b, "free")
    <3>1. CASE b = x
      BY <1>8, <3>1
    <3>2. CASE b \in B \ X
      BY <1>0, <1>8, <3>2 DEF Marked
    <3> QED
      BY <2>1, <3>1, <3>2
  <2>2. ASSUME NEW b \in F \cup {x}
        PROVE  g.prev[NextOf(g, b)] = b /\ NextOf(g, b) \notin F \cup {x}
    <3>1. CASE b = x
      BY <1>1, <1>7, <1>8, <3>1 DEF F
    <3>2. CASE b \in F
      <4>1. h.prev[NextOf(h, b)] = b /\ NextOf(h, b) \notin F /\ NextOf(h, b) # x
        BY <1>0, <3>2 DEF Marked, F
      <4> QED
        BY <1>7, <1>8, <4>1
    <3> QED
      BY <2>2, <3>1, <3>2
  <2> QED
    BY <1>0, <1>8, <1>9, <2>1, <2>2 DEF Marked
<1>11. Listed(g, F \cup {x})
  <2>2. ASSUME NEW f \in 0..(FLCount - 1), NEW s \in 0..(SmallSize - 1)
        PROVE  /\ IsInjective(g.list[f][s])
               /\ Range(g.list[f][s]) = InList(h, F \cup {x}, f, s)
               /\ s \in g.sl[f] <=> InList(h, F \cup {x}, f, s) # {}
    <3>0. /\ IsInjective(h.list[f][s]) /\ Range(h.list[f][s]) = InList(h, F, f, s)
          /\ s \in h.sl[f] <=> InList(h, F, f, s) # {}
      BY <1>0 DEF Listed
    <3>1. CASE f = i.fl /\ s = i.sl
      <4>1. InList(h, F \cup {x}, f, s) = InList(h, F, f, s) \cup {x}
        BY <1>4, <3>1
      <4> QED
        BY <1>7, <3>0, <3>1, <4>1
    <3>2. CASE f # i.fl \/ s # i.sl
      <4>1. InList(h, F \cup {x}, f, s) = InList(h, F, f, s)
        BY <1>4, <3>2
      <4> QED
        BY <1>7, <3>0, <3>2, <4>1
    <3> QED
      BY <3>1, <3>2
  <2>3. ASSUME NEW f \in 0..(FLCount - 1) PROVE f \in g.fl <=> g.sl[f] # {}
    <3>0. f \in h.fl <=> h.sl[f] # {}
      BY <1>0 DEF Listed
    <3>1. CASE f = i.fl
      BY <1>7, <3>1
    <3>2. CASE f # i.fl
      <4>1. g.sl[f] = h.sl[f]
        <5>1. g.sl[f] \subseteq 0..(SmallSize - 1) /\ h.sl[f] \subseteq 0..(SmallSize - 1)
          BY <1>0, <1>7 DEF Heaps
        <5> QED
          BY <1>7, <3>2, <5>1
      <4> QED
        BY <1>7, <3>0, <3>2, <4>1
    <3> QED
      BY <3>1, <3>2
  <2>4. ASSUME NEW f \in 0..(FLCount - 1), NEW s \in 0..(SmallSize - 1)
        PROVE  /\ IsInjective(g.list[f][s])
               /\ Range(g.list[f][s]) = InList(g, F \cup {x}, f, s)
               /\ s \in g.sl[f] <=> InList(g, F \cup {x}, f, s) # {}
    <3>1. InList(g, F \cup {x}, f, s) = InList(h, F \cup {x}, f, s)
      BY <1>8
    <3> QED
      BY <2>2, <3>1
  <2> QED
    BY <2>3, <2>4 DEF Listed
<1>12. Good(g, B, X \ {x}, U)
  BY <1>0, <1>7, <1>8, <1>9, <1>10, <1>11 DEF Good
<1> QED
  BY <1>7, <1>12

-----------------------------------------------------------------------------
(* Splitting, merging and trimming                                          *)

(* block_mark_as_free                                                       *)
Freeing(g, h, x, y) ==
    /\ g \in Heaps /\ SameSizes(g, h, Words) /\ SameLists(g, h)
    /\ Is(g, x, "free") /\ SameFlags(g, h, "free", Words \ {x})
    /\ Is(g, y, "prevFree") /\ SameFlags(g, h, "prevFree", Words \ {y})
    /\ g.prev[y] = x /\ SamePrev(g, h, Words \ {y})
LEMMA MarkAsFreeIs ==
    ASSUME NEW h \in Heaps, NEW x \in Words, NextOf(h, x) \in Words
    PROVE  Freeing(MarkAsFree(h, x), h, x, NextOf(h, x))
<1> DEFINE y == NextOf(h, x)
           g == MarkAsFree(h, x)
<1> DEFINE a == LinkNext(h, x)
           b == Mark(a, y, "prevFree", TRUE)
<1>0. y \in Words
  OBVIOUS
<1>1. g = Mark(b, x, "free", TRUE)
  BY DEF MarkAsFree
<1>2. /\ a \in Heaps /\ a.prev[y] = x /\ SameSizes(a, h, Words)
      /\ SameFlags(a, h, "free", Words) /\ SameFlags(a, h, "prevFree", Words)
      /\ SamePrev(a, h, Words \ {y}) /\ SameLists(a, h)
  BY LinkNextIs
<1> HIDE DEF a, y
<1>3. /\ b \in Heaps /\ (Is(b, y, "prevFree") <=> TRUE) /\ SameSizes(b, a, Words)
      /\ SameFlags(b, a, "free", Words) /\ SameFlags(b, a, "prevFree", Words \ {y})
      /\ SamePrev(b, a, Words) /\ SameLists(b, a)
  BY <1>0, <1>2, MarkPrevIs
<1> HIDE DEF b, g
<1>4. /\ g \in Heaps /\ (Is(g, x, "free") <=> TRUE) /\ SameSizes(g, b, Words)
      /\ SameFlags(g, b, "free", Words \ {x}) /\ SameFlags(g, b, "prevFree", Words)
      /\ SamePrev(g, b, Words) /\ SameLists(g, b)
  BY <1>1, <1>3, MarkFreeIs
<1> QED
  <2>1. Freeing(g, h, x, y)
    BY <1>0, <1>2, <1>3, <1>4 DEF SameSizes, SameFlags, SamePrev, SameLists, Freeing
  <2> QED
    BY <2>1 DEF g, y

(* block_mark_as_used                                                       *)
Using(g, h, x, y) ==
    /\ g \in Heaps /\ SameSizes(g, h, Words) /\ SameLists(g, h)
    /\ ~Is(g, x, "free") /\ SameFlags(g, h, "free", Words \ {x})
    /\ ~Is(g, y, "prevFree") /\ SameFlags(g, h, "prevFree", Words \ {y})
    /\ SamePrev(g, h, Words)
LEMMA MarkAsUsedIs ==
    ASSUME NEW h \in Heaps, NEW x \in Words, NextOf(h, x) \in Words
    PROVE  Using(MarkAsUsed(h, x), h, x, NextOf(h, x))
<1> DEFINE y == NextOf(h, x)
           g == MarkAsUsed(h, x)
<1> DEFINE a == Mark(h, y, "prevFree", FALSE)
<1>0. y \in Words
  OBVIOUS
<1>1. g = Mark(a, x, "free", FALSE)
  BY DEF MarkAsUsed
<1>2. /\ a \in Heaps /\ (Is(a, y, "prevFree") <=> FALSE) /\ SameSizes(a, h, Words)
      /\ SameFlags(a, h, "free", Words) /\ SameFlags(a, h, "prevFree", Words \ {y})
      /\ SamePrev(a, h, Words) /\ SameLists(a, h)
  BY <1>0, MarkPrevIs
<1> HIDE DEF a, y, g
<1>3. /\ g \in Heaps /\ (Is(g, x, "free") <=> FALSE) /\ SameSizes(g, a, Words)
      /\ SameFlags(g, a, "free", Words \ {x}) /\ SameFlags(g, a, "prevFree", Words)
      /\ SamePrev(g, a, Words) /\ SameLists(g, a)
  BY <1>1, <1>2, MarkFreeIs
<1> QED
  <2>1. Using(g, h, x, y)
    BY <1>0, <1>2, <1>3 DEF SameSizes, SameFlags, SamePrev, SameLists, Using
  <2> QED
    BY <2>1 DEF g, y

(* The blocks that stay used keep their sizes.                              *)
Kept(g, h, U) == \A u \in U : Size(g, u) = Size(h, u)

(* Places of a block in the hands of the call.                              *)
LEMMA PlaceOf ==
    ASSUME NEW h, NEW B, NEW X, NEW U, Good(h, B, X, U), NEW x \in X
    PROVE  /\ h \in Heaps /\ x \in B /\ x \in Words /\ x \in Nat /\ NextOf(h, x) \in Words
           /\ NextOf(h, x) \in Nat /\ NextOf(h, x) > x /\ Size(h, x) \in Nat /\ Size(h, x) >= MinSize
           /\ NextOf(h, x) = x + 1 + Size(h, x) /\ NextOf(h, x) \in B \cup {Sentinel}
           /\ NextOf(h, x) <= Sentinel
           /\ U \subseteq B \ X /\ B \subseteq Words /\ Sentinel \notin B
           /\ U = UsedOf(h, B, X) /\ Tiles(h, B) /\ Marked(h, B, X)
<1>1. h \in Heaps /\ x \in B /\ Tiles(h, B)
  BY DEF Good
<1>2. Size(h, x) >= MinSize /\ NextOf(h, x) \in B \cup {Sentinel}
  BY <1>1 DEF Tiles
<1>3. U \subseteq B \ X /\ U = UsedOf(h, B, X) /\ Marked(h, B, X)
  BY DEF Good, UsedOf
<1> QED
  BY <1>1, <1>2, <1>3, TileFacts

(* block_split                                                              *)
Halved(g, h, b, n, r) ==
    /\ NextOf(g, b) = r /\ NextOf(g, r) = NextOf(h, b)
    /\ Size(g, b) = n /\ Size(g, r) = Size(h, b) - (n + 1)
    /\ Is(g, r, "free") /\ SameFlags(g, h, "free", Words \ {r})
    /\ Is(g, NextOf(h, b), "prevFree") /\ SameFlags(g, h, "prevFree", Words \ {NextOf(h, b)})
    /\ g.prev[NextOf(h, b)] = r
LEMMA SplitIs ==
    ASSUME NEW h, NEW B, NEW X, NEW U, Good(h, B, X, U),
           NEW b \in X, NEW n \in Nat, n >= MinSize, CanSplit(h, b, n),
           NEW r, r = Rest(b, n), NEW g, g = Split(h, b, n)
    PROVE  /\ Good(g, B \cup {r}, X \cup {r}, U) /\ r \notin B /\ r \in Words
           /\ Halved(g, h, b, n, r) /\ Kept(g, h, U)
<1>0. /\ h \in Heaps /\ b \in B /\ b \in Words /\ b \in Nat /\ NextOf(h, b) \in Words
      /\ NextOf(h, b) \in Nat /\ Size(h, b) \in Nat /\ NextOf(h, b) = b + 1 + Size(h, b)
      /\ U \subseteq B \ X /\ B \subseteq Words
      /\ NextOf(h, b) <= Sentinel
  BY PlaceOf
<1>1. r = b + 1 + n /\ Size(h, b) >= n + 4
  BY <1>0 DEF Rest, CanSplit, HeaderSize
<1>2. r \in Words /\ r # b /\ Size(h, b) - (n + 1) \in Nat
  BY <1>0, <1>1, PoolIs DEF Words, Sentinel
<1> DEFINE m == Size(h, b) - (n + 1)
           h1 == SetSize(h, r, m)
           h2 == SetSize(h1, b, n)
<1>3. g = MarkAsFree(h2, r)
  BY DEF Split
<1>4. m \in Nat
  BY <1>2
<1> HIDE DEF m
<1>5. /\ h1 \in Heaps /\ Size(h1, r) = m /\ SameSizes(h1, h, Words \ {r})
      /\ SameFlags(h1, h, "free", Words) /\ SameFlags(h1, h, "prevFree", Words)
      /\ SamePrev(h1, h, Words) /\ SameLists(h1, h)
  BY <1>0, <1>2, <1>4, SetSizeIs
<1> HIDE DEF h1
<1>6. /\ h2 \in Heaps /\ Size(h2, b) = n /\ SameSizes(h2, h1, Words \ {b})
      /\ SameFlags(h2, h1, "free", Words) /\ SameFlags(h2, h1, "prevFree", Words)
      /\ SamePrev(h2, h1, Words) /\ SameLists(h2, h1)
  BY <1>0, <1>5, SetSizeIs
<1> HIDE DEF h2
<1>7. /\ Size(h2, r) = m /\ SameSizes(h2, h, Words \ {b, r})
      /\ SameFlags(h2, h, "free", Words) /\ SameFlags(h2, h, "prevFree", Words)
      /\ SamePrev(h2, h, Words) /\ SameLists(h2, h)
  BY <1>2, <1>5, <1>6 DEF SameSizes, SameFlags, SamePrev, SameLists
<1>8. NextOf(h2, r) = NextOf(h, b)
  <2>1. NextOf(h2, r) = r + 1 + m
    BY <1>7 DEF NextOf
  <2> QED
    BY <1>0, <1>1, <2>1 DEF m
<1>9. /\ g \in Heaps /\ SameSizes(g, h2, Words) /\ SameLists(g, h2)
      /\ Is(g, r, "free") /\ SameFlags(g, h2, "free", Words \ {r})
      /\ Is(g, NextOf(h, b), "prevFree") /\ SameFlags(g, h2, "prevFree", Words \ {NextOf(h, b)})
      /\ g.prev[NextOf(h, b)] = r /\ SamePrev(g, h2, Words \ {NextOf(h, b)})
  <2>1. h2 \in Heaps /\ r \in Words /\ NextOf(h2, r) \in Words
    BY <1>0, <1>2, <1>6, <1>8
  <2>2. Freeing(MarkAsFree(h2, r), h2, r, NextOf(h2, r))
    BY <2>1, MarkAsFreeIs
  <2>3. Freeing(g, h2, r, NextOf(h, b))
    BY <1>3, <1>8, <2>2
  <2> QED
    BY <2>3 DEF Freeing
<1>10. /\ Size(g, b) = n /\ Size(g, r) = m /\ SameSizes(g, h, Words \ {b, r})
       /\ SameFlags(g, h, "free", Words \ {r})
       /\ SameFlags(g, h, "prevFree", Words \ {NextOf(h, b)})
       /\ SameFlags(g, h, "prevFree", Words \ {r, NextOf(h, b)})
       /\ SamePrev(g, h, Words \ {r, NextOf(h, b)}) /\ SameLists(g, h)
  BY <1>0, <1>2, <1>6, <1>7, <1>9 DEF SameSizes, SameFlags, SamePrev, SameLists
<1>11. Size(g, r) = Size(h, b) - (n + 1)
  BY <1>10 DEF m
<1>12. /\ Good(g, B \cup {r}, X \cup {r}, U)
       /\ NextOf(g, b) = r /\ NextOf(g, r) = NextOf(h, b) /\ r \in Words /\ r \notin B
  <2>1. Cut(g, h, b, n, r)
    BY <1>9, <1>10, <1>11 DEF Cut
  <2> QED
    BY <2>1, Cutting
<1>13. Kept(g, h, U)
  BY <1>0, <1>10, <1>12 DEF Kept, SameSizes
<1>14. Halved(g, h, b, n, r)
  BY <1>9, <1>10, <1>11, <1>12 DEF Halved
<1> QED
  BY <1>12, <1>13, <1>14

(* block_absorb                                                             *)
Absorbed(g, h, p, b) ==
    /\ NextOf(g, p) = NextOf(h, b) /\ g.prev[NextOf(h, b)] = p
    /\ Size(g, p) = Size(h, p) + Size(h, b) + 1
    /\ SameFlags(g, h, "free", Words) /\ SameFlags(g, h, "prevFree", Words)
LEMMA AbsorbIs ==
    ASSUME NEW h, NEW B, NEW X, NEW U, Good(h, B, X, U),
           NEW p \in X, NEW b \in X, NextOf(h, p) = b, NEW g, g = Absorb(h, p, b)
    PROVE  Good(g, B \ {b}, X \ {b}, U) /\ p # b /\ Kept(g, h, U) /\ Absorbed(g, h, p, b)
<1>0. /\ h \in Heaps /\ p \in B /\ p \in Words /\ p \in Nat /\ Size(h, p) \in Nat
      /\ b \in Words /\ b \in Nat /\ Size(h, b) \in Nat /\ NextOf(h, b) \in Words
      /\ NextOf(h, b) = b + 1 + Size(h, b) /\ NextOf(h, p) = p + 1 + Size(h, p)
      /\ U \subseteq B \ X /\ B \subseteq Words
  BY PlaceOf
<1> DEFINE m == Size(h, p) + Size(h, b) + 1
           h1 == SetSize(h, p, m)
<1>1. g = LinkNext(h1, p)
  BY DEF Absorb
<1>2. m \in Nat
  BY <1>0
<1> HIDE DEF m
<1>3. /\ h1 \in Heaps /\ Size(h1, p) = m /\ SameSizes(h1, h, Words \ {p})
      /\ SameFlags(h1, h, "free", Words) /\ SameFlags(h1, h, "prevFree", Words)
      /\ SamePrev(h1, h, Words) /\ SameLists(h1, h)
  BY <1>0, <1>2, SetSizeIs
<1> HIDE DEF h1
<1>4. NextOf(h1, p) = NextOf(h, b)
  <2>1. NextOf(h1, p) = p + 1 + m
    BY <1>3 DEF NextOf
  <2>2. \A a, c, d \in Nat : a + 1 + (c + d + 1) = (a + 1 + c) + 1 + d
    OBVIOUS
  <2>3. p + 1 + m = b + 1 + Size(h, b)
    BY <1>0, <2>2 DEF m
  <2> QED
    BY <1>0, <2>1, <2>3
<1>5. /\ g \in Heaps /\ g.prev[NextOf(h, b)] = p /\ SameSizes(g, h1, Words)
      /\ SameFlags(g, h1, "free", Words) /\ SameFlags(g, h1, "prevFree", Words)
      /\ SamePrev(g, h1, Words \ {NextOf(h, b)}) /\ SameLists(g, h1)
  <2>1. NextOf(h1, p) \in Words
    BY <1>0, <1>4
  <2> QED
    BY <1>0, <1>1, <1>3, <1>4, <2>1, LinkNextIs
<1>6. /\ Size(g, p) = m /\ SameSizes(g, h, Words \ {p})
      /\ SameFlags(g, h, "free", Words) /\ SameFlags(g, h, "prevFree", Words)
      /\ SamePrev(g, h, Words \ {NextOf(h, b)}) /\ SameLists(g, h)
  BY <1>0, <1>3, <1>5 DEF SameSizes, SameFlags, SamePrev, SameLists
<1>7. Size(g, p) = Size(h, p) + Size(h, b) + 1
  BY <1>6 DEF m
<1>8. Good(g, B \ {b}, X \ {b}, U) /\ NextOf(g, p) = NextOf(h, b) /\ p # b
  BY <1>5, <1>6, <1>7, Joining
<1>9. Kept(g, h, U)
  BY <1>0, <1>6 DEF Kept, SameSizes
<1>10. Absorbed(g, h, p, b)
  BY <1>5, <1>6, <1>7, <1>8 DEF Absorbed
<1> QED
  BY <1>8, <1>9, <1>10

(* block_link_next                                                          *)
Linked(g, h, x, y) ==
    /\ SameSizes(g, h, Words) /\ SameFlags(g, h, "free", Words) /\ SameFlags(g, h, "prevFree", Words)
    /\ g.prev[y] = x /\ SamePrev(g, h, Words \ {y})
LEMMA GoodLink ==
    ASSUME NEW h, NEW B, NEW X, NEW U, Good(h, B, X, U), NEW x \in X
    PROVE  /\ Good(LinkNext(h, x), B, X, U) /\ Linked(LinkNext(h, x), h, x, NextOf(h, x))
           /\ \A w \in Words : NextOf(LinkNext(h, x), w) = NextOf(h, w)
<1>0. h \in Heaps /\ x \in Words /\ NextOf(h, x) \in Words
  BY PlaceOf
<1> DEFINE g == LinkNext(h, x)
<1>1. /\ g \in Heaps /\ g.prev[NextOf(h, x)] = x /\ SameSizes(g, h, Words)
      /\ SameFlags(g, h, "free", Words) /\ SameFlags(g, h, "prevFree", Words)
      /\ SamePrev(g, h, Words \ {NextOf(h, x)}) /\ SameLists(g, h)
  BY <1>0, LinkNextIs
<1> HIDE DEF g
<1>2. Linked(g, h, x, NextOf(h, x))
  BY <1>1 DEF Linked
<1>3. Remarked(g, h, x)
  BY <1>1 DEF Remarked, SameFlags
<1>4. Good(g, B, X, U) /\ \A w \in Words : NextOf(g, w) = NextOf(h, w)
  BY <1>3, Marking
<1> QED
  BY <1>2, <1>4 DEF g

(* block_set_prev_free, block_set_prev_used                                 *)
PrevMarked(g, h, y, v) ==
    /\ SameSizes(g, h, Words) /\ SameFlags(g, h, "free", Words) /\ SamePrev(g, h, Words)
    /\ Is(g, y, "prevFree") <=> v
    /\ SameFlags(g, h, "prevFree", Words \ {y})
LEMMA GoodMarkPrev ==
    ASSUME NEW h, NEW B, NEW X, NEW U, Good(h, B, X, U), NEW x \in X, NEW v \in BOOLEAN,
           NEW y, y = NextOf(h, x)
    PROVE  /\ Good(Mark(h, y, "prevFree", v), B, X, U)
           /\ PrevMarked(Mark(h, y, "prevFree", v), h, y, v)
           /\ \A w \in Words : NextOf(Mark(h, y, "prevFree", v), w) = NextOf(h, w)
<1>0. h \in Heaps /\ x \in Words /\ y \in Words
  BY PlaceOf
<1> DEFINE g == Mark(h, y, "prevFree", v)
<1>1. /\ g \in Heaps /\ (Is(g, y, "prevFree") <=> v) /\ SameSizes(g, h, Words)
      /\ SameFlags(g, h, "free", Words) /\ SameFlags(g, h, "prevFree", Words \ {y})
      /\ SamePrev(g, h, Words) /\ SameLists(g, h)
  BY <1>0, MarkPrevIs
<1> HIDE DEF g
<1>2. PrevMarked(g, h, y, v)
  BY <1>1 DEF PrevMarked
<1>3. Remarked(g, h, x)
  BY <1>1 DEF Remarked, SameFlags, SamePrev
<1>4. Good(g, B, X, U) /\ \A w \in Words : NextOf(g, w) = NextOf(h, w)
  BY <1>3, Marking
<1> QED
  BY <1>2, <1>4 DEF g

(* block_mark_as_free of a block in the hands of the call                   *)
LEMMA GoodFree ==
    ASSUME NEW h, NEW B, NEW X, NEW U, Good(h, B, X, U), NEW x \in X
    PROVE  /\ Good(MarkAsFree(h, x), B, X, U) /\ Freeing(MarkAsFree(h, x), h, x, NextOf(h, x))
           /\ \A w \in Words : NextOf(MarkAsFree(h, x), w) = NextOf(h, w)
<1>0. h \in Heaps /\ x \in Words /\ NextOf(h, x) \in Words
  BY PlaceOf
<1> DEFINE g == MarkAsFree(h, x)
<1>1. Freeing(g, h, x, NextOf(h, x))
  BY <1>0, MarkAsFreeIs
<1> HIDE DEF g
<1>3. Remarked(g, h, x)
  BY <1>1 DEF Remarked, Freeing
<1>4. Good(g, B, X, U) /\ \A w \in Words : NextOf(g, w) = NextOf(h, w)
  BY <1>3, Marking
<1> QED
  BY <1>1, <1>4 DEF g

(* block_mark_as_used of a block in the hands of the call                   *)
LEMMA GoodUsed ==
    ASSUME NEW h, NEW B, NEW X, NEW U, Good(h, B, X, U), NEW x \in X
    PROVE  /\ Good(MarkAsUsed(h, x), B, X, U) /\ Using(MarkAsUsed(h, x), h, x, NextOf(h, x))
           /\ \A w \in Words : NextOf(MarkAsUsed(h, x), w) = NextOf(h, w)
<1>0. h \in Heaps /\ x \in Words /\ NextOf(h, x) \in Words
  BY PlaceOf
<1> DEFINE g == MarkAsUsed(h, x)
<1>1. Using(g, h, x, NextOf(h, x))
  BY <1>0, MarkAsUsedIs
<1> HIDE DEF g
<1>3. Remarked(g, h, x)
  BY <1>1 DEF Remarked, Using, SamePrev
<1>4. Good(g, B, X, U) /\ \A w \in Words : NextOf(g, w) = NextOf(h, w)
  BY <1>3, Marking
<1> QED
  BY <1>1, <1>4 DEF g

(* The block is used when the call ends.                                    *)
LEMMA EndUsed ==
    ASSUME NEW h, NEW B, NEW b, NEW U, Good(h, B, {b}, U)
    PROVE  /\ Good(MarkAsUsed(h, b), B, {}, U \cup {b})
           /\ \A w \in Words : Size(MarkAsUsed(h, b), w) = Size(h, w)
<1>0. b \in {b} /\ {b} \ {b} = {}
  OBVIOUS
<1> DEFINE g == MarkAsUsed(h, b)
<1>1. /\ Good(g, B, {b}, U) /\ Using(g, h, b, NextOf(h, b))
      /\ \A w \in Words : NextOf(g, w) = NextOf(h, w)
  BY <1>0, GoodUsed
<1>2. b \in Words
  BY <1>0, PlaceOf
<1> HIDE DEF g
<1>3. ~Is(g, b, "free") /\ ~Is(g, NextOf(g, b), "prevFree")
  BY <1>1, <1>2 DEF Using
<1>4. Good(g, B, {b} \ {b}, U \cup {b})
  BY <1>0, <1>1, <1>3, SettleUsed
<1>5. \A w \in Words : Size(g, w) = Size(h, w)
  BY <1>1 DEF Using, SameSizes
<1> QED
  BY <1>0, <1>4, <1>5 DEF g

(* Nothing but the block before it is next to a block.                      *)
LEMMA OnlyBefore ==
    ASSUME NEW h, NEW B, NEW X, NEW U, Good(h, B, X, U), NEW x \in X, NEW y, NextOf(h, x) = y
    PROVE  \A c \in FreeOf(h, B, X) : NextOf(h, c) # y
<1>1. h \in Heaps /\ Tiles(h, B) /\ x \in B
  BY PlaceOf
<1>2. \A c, d \in B : NextOf(h, c) = NextOf(h, d) => c = d
  BY <1>1, TileFacts
<1> QED
  BY <1>1, <1>2 DEF FreeOf

(* block_trim_free, then the block is used: block_prepare_used.             *)
TrimSize(h, b, n) == IF CanSplit(h, b, n) THEN n ELSE Size(h, b)
LEMMA PrepareUsedIs ==
    ASSUME PoolIndexed, NEW h, NEW B, NEW b, NEW U, Good(h, B, {b}, U),
           ~Is(h, NextOf(h, b), "free"), NEW n \in Nat, n >= MinSize
    PROVE  \E C : /\ Good(PrepareUsed(h, b, n), C, {}, U \cup {b})
                  /\ Kept(PrepareUsed(h, b, n), h, U)
                  /\ Size(PrepareUsed(h, b, n), b) = TrimSize(h, b, n)
<1>0. b \in {b}
  OBVIOUS
<1>1. /\ h \in Heaps /\ b \in B /\ b \in Words /\ NextOf(h, b) \in Words
      /\ U \subseteq B \ {b} /\ B \subseteq Words
  BY <1>0, PlaceOf
<1>2. CASE ~CanSplit(h, b, n)
  <2>1. PrepareUsed(h, b, n) = MarkAsUsed(h, b) /\ TrimSize(h, b, n) = Size(h, b)
    BY <1>2 DEF PrepareUsed, TrimFree, TrimSize
  <2>2. /\ Good(MarkAsUsed(h, b), B, {}, U \cup {b})
        /\ \A w \in Words : Size(MarkAsUsed(h, b), w) = Size(h, w)
    BY EndUsed
  <2>3. Kept(MarkAsUsed(h, b), h, U)
    BY <1>1, <2>2 DEF Kept
  <2> QED
    BY <1>1, <2>1, <2>2, <2>3
<1>3. CASE CanSplit(h, b, n)
  <2>1. PICK r : r = Rest(b, n)
    OBVIOUS
  <2>2. PICK h1 : h1 = Split(h, b, n)
    OBVIOUS
  <2>3. PICK h2 : h2 = LinkNext(h1, b)
    OBVIOUS
  <2>4. PICK h3 : h3 = Mark(h2, r, "prevFree", TRUE)
    OBVIOUS
  <2>5. PICK h4 : h4 = BlockInsert(h3, r)
    OBVIOUS
  <2>6. PICK C : C = B \cup {r}
    OBVIOUS
  <2>7. PICK X : X = {b} \cup {r}
    OBVIOUS
  <2>8. b \in X /\ r \in X
    BY <2>7
  <2>9. PrepareUsed(h, b, n) = MarkAsUsed(h4, b) /\ TrimSize(h, b, n) = n
    BY <1>3, <2>1, <2>2, <2>3, <2>4, <2>5 DEF PrepareUsed, TrimFree, TrimSize
  <2>10. Good(h1, C, X, U) /\ r \notin B /\ r \in Words /\ Halved(h1, h, b, n, r) /\ Kept(h1, h, U)
    BY <1>0, <1>3, <2>1, <2>2, <2>6, <2>7, SplitIs
  <2>11. /\ Good(h2, C, X, U) /\ Linked(h2, h1, b, NextOf(h1, b))
         /\ \A w \in Words : NextOf(h2, w) = NextOf(h1, w)
    BY <2>3, <2>8, <2>10, GoodLink
  <2>12. NextOf(h1, b) = r /\ NextOf(h1, r) = NextOf(h, b) /\ r # b
    BY <1>1, <2>10 DEF Halved
  <2>13. r = NextOf(h2, b)
    BY <1>1, <2>11, <2>12
  <2>14. /\ Good(h3, C, X, U) /\ PrevMarked(h3, h2, r, TRUE)
         /\ \A w \in Words : NextOf(h3, w) = NextOf(h2, w)
    <3>1. PICK v \in BOOLEAN : v = TRUE
      OBVIOUS
    <3>2. /\ Good(Mark(h2, r, "prevFree", v), C, X, U)
          /\ PrevMarked(Mark(h2, r, "prevFree", v), h2, r, v)
          /\ \A w \in Words : NextOf(Mark(h2, r, "prevFree", v), w) = NextOf(h2, w)
      BY <2>8, <2>11, <2>13, GoodMarkPrev
    <3> QED
      BY <2>4, <3>1, <3>2
  <2>15. NextOf(h3, r) = NextOf(h, b) /\ NextOf(h3, b) = r
    BY <1>1, <2>10, <2>11, <2>12, <2>14
  <2>16. NextOf(h, b) \in Words \ {r}
    <3>1. NextOf(h, b) > r
      BY <2>1, <2>8, <2>10, <2>12, PlaceOf
    <3>2. r \in Nat
      BY <2>10, PoolIs
    <3> QED
      BY <1>1, <3>1, <3>2
  <2>17. Is(h3, r, "free") /\ ~Is(h3, NextOf(h, b), "free")
    <3>1. Is(h1, r, "free") /\ SameFlags(h1, h, "free", Words \ {r})
      BY <2>10 DEF Halved
    <3>2. SameFlags(h2, h1, "free", Words) /\ SameFlags(h3, h2, "free", Words)
      BY <2>11, <2>14 DEF Linked, PrevMarked
    <3> QED
      BY <2>10, <2>16, <3>1, <3>2 DEF SameFlags
  <2>18. Is(h3, NextOf(h, b), "prevFree")
    <3>1. Is(h1, NextOf(h, b), "prevFree")
      BY <2>10 DEF Halved
    <3>2. SameFlags(h2, h1, "prevFree", Words) /\ SameFlags(h3, h2, "prevFree", Words \ {r})
      BY <2>11, <2>14 DEF Linked, PrevMarked
    <3> QED
      BY <2>16, <3>1, <3>2 DEF SameFlags
  <2>19. h3.prev[NextOf(h, b)] = r
    <3>1. h1.prev[NextOf(h, b)] = r
      BY <2>10 DEF Halved
    <3>2. SamePrev(h2, h1, Words \ {r}) /\ SamePrev(h3, h2, Words)
      BY <2>11, <2>12, <2>14 DEF Linked, PrevMarked
    <3> QED
      BY <2>16, <3>1, <3>2 DEF SamePrev
  <2>20. NextOf(h, b) \notin FreeOf(h3, C, X)
    BY <2>17 DEF FreeOf
  <2>21. \A c \in FreeOf(h3, C, X) : NextOf(h3, c) # r
    BY <2>8, <2>14, <2>15, OnlyBefore
  <2>22. Good(h4, C, X \ {r}, U) /\ h4.hdr = h3.hdr /\ h4.prev = h3.prev
    <3>1. Is(h3, NextOf(h3, r), "prevFree") /\ h3.prev[NextOf(h3, r)] = r
          /\ NextOf(h3, r) \notin FreeOf(h3, C, X)
      BY <2>15, <2>18, <2>19, <2>20
    <3>2. Is(h3, r, "free")
      BY <2>17
    <3> QED
      BY <2>5, <2>8, <2>14, <2>21, <3>1, <3>2, Inserting
  <2>23. X \ {r} = {b}
    BY <2>7, <2>12
  <2>24. /\ Good(MarkAsUsed(h4, b), C, {}, U \cup {b})
         /\ \A w \in Words : Size(MarkAsUsed(h4, b), w) = Size(h4, w)
    BY <2>22, <2>23, EndUsed
  <2>25. \A w \in Words : Size(h4, w) = Size(h1, w)
    BY <2>11, <2>14, <2>22, SameWords DEF Linked, PrevMarked, SameSizes
  <2>26. Kept(MarkAsUsed(h4, b), h, U)
    BY <1>1, <2>10, <2>24, <2>25 DEF Kept
  <2>27. Size(MarkAsUsed(h4, b), b) = n
    BY <1>1, <2>10, <2>24, <2>25 DEF Halved
  <2> QED
    BY <2>9, <2>24, <2>26, <2>27
<1> QED
  BY <1>2, <1>3

(* A call takes a used block into its hands.                                *)
LEMMA Taking ==
    ASSUME NEW h, NEW B, NEW U, Good(h, B, {}, U), NEW x \in U
    PROVE  /\ Good(h, B, {x}, U \ {x}) /\ x \in B /\ ~Is(h, x, "free")
           /\ ~Is(h, NextOf(h, x), "prevFree")
<1>1. x \in B /\ ~Is(h, x, "free") /\ {x} \subseteq B
  BY DEF Good, UsedOf
<1>2. FreeOf(h, B, {x}) = FreeOf(h, B, {}) /\ UsedOf(h, B, {x}) = U \ {x}
  BY <1>1 DEF Good, FreeOf, UsedOf
<1>3. Marked(h, B, {x}) /\ ~Is(h, NextOf(h, x), "prevFree")
  <2>0. Marked(h, B, {})
    BY DEF Good
  <2>1. \A b \in B : Is(h, NextOf(h, b), "prevFree") <=> Is(h, b, "free")
    BY <2>0 DEF Marked
  <2> QED
    BY <1>1, <1>2, <2>0, <2>1 DEF Marked
<1> QED
  BY <1>1, <1>2, <1>3 DEF Good

(* Before a block whose mark says so there is no free one.                  *)
LEMMA NoFreeBefore ==
    ASSUME NEW h, NEW B, NEW X, NEW U, Good(h, B, X, U), NEW x, ~Is(h, x, "prevFree")
    PROVE  \A c \in FreeOf(h, B, X) : NextOf(h, c) # x
<1>1. \A c \in FreeOf(h, B, X) : Is(h, NextOf(h, c), "prevFree")
  BY DEF Good, Marked, FreeOf
<1> QED
  BY <1>1

(* A block that is marked and linked to go to a list; x may have been       *)
(* merged with the next block, which is then not free.                      *)
Ready(h, x) ==
    /\ Is(h, x, "free") /\ ~Is(h, x, "prevFree")
    /\ Is(h, NextOf(h, x), "prevFree") /\ h.prev[NextOf(h, x)] = x

(* block_merge_next                                                         *)
MergeSize(h, x) ==
    IF Is(h, NextOf(h, x), "free") THEN Size(h, x) + Size(h, NextOf(h, x)) + 1 ELSE Size(h, x)
LEMMA MergeNextIs ==
    ASSUME PoolIndexed, NEW h, NEW B, NEW x, NEW U, Good(h, B, {x}, U)
    PROVE  \E C : /\ Good(MergeNext(h, x), C, {x}, U) /\ Kept(MergeNext(h, x), h, U)
                  /\ ~Is(MergeNext(h, x), NextOf(MergeNext(h, x), x), "free")
                  /\ Ready(h, x) => Ready(MergeNext(h, x), x)
                  /\ Size(MergeNext(h, x), x) = MergeSize(h, x)
<1>0. x \in {x}
  OBVIOUS
<1>1. /\ h \in Heaps /\ x \in B /\ x \in Words /\ NextOf(h, x) \in B \cup {Sentinel} /\ x \in Nat
      /\ NextOf(h, x) > x /\ NextOf(h, x) \in Words /\ Marked(h, B, {x}) /\ U \subseteq B \ {x} /\ B \subseteq Words
      /\ Tiles(h, B) /\ U = UsedOf(h, B, {x})
  BY <1>0, PlaceOf
<1>2. CASE ~Is(h, NextOf(h, x), "free")
  <2>1. MergeNext(h, x) = h /\ MergeSize(h, x) = Size(h, x)
    BY <1>2 DEF MergeNext, MergeSize
  <2>2. Kept(h, h, U)
    BY DEF Kept
  <2> QED
    BY <1>2, <2>1, <2>2
<1>3. CASE Is(h, NextOf(h, x), "free")
  <2>1. PICK y : y = NextOf(h, x)
    OBVIOUS
  <2>2. PICK h1 : h1 = BlockRemove(h, y)
    OBVIOUS
  <2>3. PICK g : g = Absorb(h1, x, y)
    OBVIOUS
  <2>4. MergeNext(h, x) = g /\ MergeSize(h, x) = Size(h, x) + Size(h, y) + 1
    BY <1>3, <2>1, <2>2, <2>3 DEF MergeNext, MergeSize
  <2>5. ~Is(h, Sentinel, "free")
    BY <1>1 DEF Marked
  <2>6. y \in B /\ y # x /\ y \in Words /\ Is(h, y, "free")
    BY <1>1, <1>3, <2>1, <2>5
  <2>7. y \in FreeOf(h, B, {x})
    BY <2>6 DEF FreeOf
  <2>8. Good(h1, B, {x} \cup {y}, U) /\ h1.hdr = h.hdr /\ h1.prev = h.prev
    BY <2>2, <2>7, Removing
  <2>9. PICK X : X = {x} \cup {y}
    OBVIOUS
  <2>10. X \ {y} = {x} /\ x \in X /\ y \in X
    BY <2>6, <2>9
  <2>11. /\ \A w : Size(h1, w) = Size(h, w) /\ NextOf(h1, w) = NextOf(h, w)
         /\ \A w, flag : Is(h1, w, flag) = Is(h, w, flag)
    BY <2>8, SameWords
  <2>12. NextOf(h1, x) = y /\ Good(h1, B, X, U)
    BY <2>1, <2>8, <2>9, <2>11
  <2>13. Good(g, B \ {y}, X \ {y}, U) /\ Kept(g, h1, U) /\ Absorbed(g, h1, x, y)
    BY <2>3, <2>10, <2>12, AbsorbIs
  <2>14. Good(g, B \ {y}, {x}, U)
    BY <2>10, <2>13
  <2>15. NextOf(g, x) = NextOf(h, y)
    BY <2>11, <2>13 DEF Absorbed
  <2>16. h.prev[NextOf(h, y)] = y /\ NextOf(h, y) \notin FreeOf(h, B, {x}) /\ Is(h, NextOf(h, y), "prevFree")
    <3>1. y \in B \ {x}
      BY <2>6
    <3> QED
      BY <1>1, <2>6, <2>7, <3>1 DEF Marked
  <2>17. NextOf(h, y) \in B \cup {Sentinel} /\ NextOf(h, y) # x /\ NextOf(h, y) \in Words
    <3>1. NextOf(h, y) > y /\ y \in Nat /\ NextOf(h, y) \in Nat /\ NextOf(h, y) \in Words
      BY <1>1, <2>6, TileFacts
    <3>2. NextOf(h, y) \in B \cup {Sentinel}
      BY <1>1, <2>6 DEF Tiles
    <3> QED
      BY <1>1, <2>1, <3>1, <3>2
  <2>18. ~Is(h, NextOf(h, y), "free")
    BY <2>5, <2>16, <2>17 DEF FreeOf
  <2>19. SameFlags(g, h, "free", Words) /\ SameFlags(g, h, "prevFree", Words)
    BY <2>11, <2>13 DEF Absorbed, SameFlags
  <2>20. ~Is(g, NextOf(g, x), "free")
    BY <2>15, <2>17, <2>18, <2>19 DEF SameFlags
  <2>21. ASSUME Ready(h, x) PROVE Ready(g, x)
    <3>1. g.prev[NextOf(g, x)] = x
      BY <2>11, <2>13 DEF Absorbed
    <3>2. Is(g, NextOf(g, x), "prevFree")
      BY <2>15, <2>16, <2>17, <2>19 DEF SameFlags
    <3>3. Is(g, x, "free") /\ ~Is(g, x, "prevFree")
      BY <1>1, <2>19, <2>21 DEF SameFlags, Ready
    <3> QED
      BY <3>1, <3>2, <3>3 DEF Ready
  <2>22. Kept(g, h, U)
    BY <2>11, <2>13 DEF Kept
  <2>23. Size(g, x) = Size(h, x) + Size(h, y) + 1
    BY <2>11, <2>13 DEF Absorbed
  <2> QED
    BY <2>4, <2>14, <2>20, <2>21, <2>22, <2>23
<1> QED
  BY <1>2, <1>3

(* block_merge_prev                                                         *)
LEMMA MergePrevIs ==
    ASSUME PoolIndexed, NEW h, NEW B, NEW x, NEW U, Good(h, B, {x}, U),
           Is(h, x, "free"), Is(h, NextOf(h, x), "prevFree"), h.prev[NextOf(h, x)] = x
    PROVE  \E C : /\ Good(MergePrev(h, x), C, {MergedPrev(h, x)}, U)
                  /\ Kept(MergePrev(h, x), h, U)
                  /\ Ready(MergePrev(h, x), MergedPrev(h, x))
<1>0. x \in {x}
  OBVIOUS
<1>1. /\ h \in Heaps /\ x \in B /\ x \in Words /\ x \in Nat /\ NextOf(h, x) \in Words
      /\ NextOf(h, x) > x /\ Marked(h, B, {x}) /\ B \subseteq Words /\ Tiles(h, B)
  BY <1>0, PlaceOf
<1>2. CASE ~Is(h, x, "prevFree")
  <2>1. MergePrev(h, x) = h /\ MergedPrev(h, x) = x
    BY <1>2 DEF MergePrev, MergedPrev
  <2>2. Kept(h, h, U)
    BY DEF Kept
  <2>3. Ready(h, x)
    BY <1>2 DEF Ready
  <2> QED
    BY <2>1, <2>2, <2>3
<1>3. CASE Is(h, x, "prevFree")
  <2>1. x # 0
    BY <1>1, <1>3 DEF Marked
  <2>2. PICK q \in B : NextOf(h, q) = x
    BY <1>1, <2>1 DEF Tiles
  <2>3. q # x /\ q \in Nat /\ q \in Words
    <3>1. NextOf(h, q) > q /\ q \in Nat /\ q \in Words
      BY <1>1, TileFacts
    <3> QED
      BY <2>2, <3>1
  <2>4. Is(h, q, "free")
    <3>1. q \in B \ {x}
      BY <2>3
    <3> QED
      BY <1>1, <1>3, <2>2, <3>1 DEF Marked
  <2>5. q \in FreeOf(h, B, {x})
    BY <2>3, <2>4 DEF FreeOf
  <2>6. h.prev[x] = q
    BY <1>1, <2>2, <2>5 DEF Marked
  <2>7. ~Is(h, q, "prevFree")
    <3> SUFFICES ASSUME Is(h, q, "prevFree") PROVE FALSE
      OBVIOUS
    <3>1. q # 0
      BY <1>1 DEF Marked
    <3>2. PICK c \in B : NextOf(h, c) = q
      BY <1>1, <3>1 DEF Tiles
    <3>3. c # x
      <4>1. NextOf(h, c) > c /\ NextOf(h, q) > q /\ c \in Nat
        BY <1>1, TileFacts
      <4> QED
        BY <1>1, <2>2, <2>3, <3>2, <4>1
    <3>4. c \in B \ {x}
      BY <3>3
    <3>5. Is(h, c, "free")
      BY <1>1, <3>2, <3>4 DEF Marked
    <3>6. c \in FreeOf(h, B, {x})
      BY <3>4, <3>5 DEF FreeOf
    <3> QED
      BY <1>1, <2>5, <3>2, <3>6 DEF Marked
  <2>8. PICK h1 : h1 = BlockRemove(h, q)
    OBVIOUS
  <2>9. PICK g : g = Absorb(h1, q, x)
    OBVIOUS
  <2>10. MergePrev(h, x) = g /\ MergedPrev(h, x) = q
    BY <1>3, <2>6, <2>8, <2>9 DEF MergePrev, MergedPrev
  <2>11. Good(h1, B, {x} \cup {q}, U) /\ h1.hdr = h.hdr /\ h1.prev = h.prev
    BY <2>5, <2>8, Removing
  <2>12. PICK X : X = {x} \cup {q}
    OBVIOUS
  <2>13. X \ {x} = {q} /\ x \in X /\ q \in X
    BY <2>3, <2>12
  <2>14. /\ \A w : Size(h1, w) = Size(h, w) /\ NextOf(h1, w) = NextOf(h, w)
         /\ \A w, flag : Is(h1, w, flag) = Is(h, w, flag)
    BY <2>11, SameWords
  <2>15. NextOf(h1, q) = x /\ Good(h1, B, X, U)
    BY <2>2, <2>11, <2>12, <2>14
  <2>16. Good(g, B \ {x}, X \ {x}, U) /\ Kept(g, h1, U) /\ Absorbed(g, h1, q, x)
    BY <2>9, <2>13, <2>15, AbsorbIs
  <2>17. Good(g, B \ {x}, {q}, U)
    BY <2>13, <2>16
  <2>18. NextOf(g, q) = NextOf(h, x) /\ g.prev[NextOf(g, q)] = q
    BY <2>14, <2>16 DEF Absorbed
  <2>19. SameFlags(g, h, "free", Words) /\ SameFlags(g, h, "prevFree", Words)
    BY <2>14, <2>16 DEF Absorbed, SameFlags
  <2>20. Ready(g, q)
    <3>1. Is(g, q, "free") /\ ~Is(g, q, "prevFree")
      BY <2>3, <2>4, <2>7, <2>19 DEF SameFlags
    <3>2. Is(g, NextOf(g, q), "prevFree")
      BY <1>1, <2>18, <2>19 DEF SameFlags
    <3> QED
      BY <2>18, <3>1, <3>2 DEF Ready
  <2>21. Kept(g, h, U)
    BY <2>14, <2>16 DEF Kept
  <2> QED
    BY <2>10, <2>17, <2>20, <2>21
<1> QED
  BY <1>2, <1>3

(* A block goes to its list after a merge with the next.                    *)
LEMMA EndFree ==
    ASSUME PoolIndexed, NEW h, NEW B, NEW x, NEW U, Good(h, B, {x}, U), Ready(h, x)
    PROVE  \E C : /\ Good(BlockInsert(MergeNext(h, x), x), C, {}, U)
                  /\ Kept(BlockInsert(MergeNext(h, x), x), h, U)
<1>0. x \in {x} /\ {x} \ {x} = {}
  OBVIOUS
<1>1. PICK h1 : h1 = MergeNext(h, x)
  OBVIOUS
<1>2. PICK C : /\ Good(h1, C, {x}, U) /\ Kept(h1, h, U)
               /\ ~Is(h1, NextOf(h1, x), "free") /\ Ready(h1, x)
  BY <1>1, MergeNextIs
<1>3. PICK g : g = BlockInsert(h1, x)
  OBVIOUS
<1>4. Is(h1, x, "free") /\ Is(h1, NextOf(h1, x), "prevFree") /\ h1.prev[NextOf(h1, x)] = x
  BY <1>2 DEF Ready
<1>5. \A c \in FreeOf(h1, C, {x}) : NextOf(h1, c) # x
  <2>1. ~Is(h1, x, "prevFree")
    BY <1>2 DEF Ready
  <2> QED
    BY <1>2, <2>1, NoFreeBefore
<1>6. NextOf(h1, x) \notin FreeOf(h1, C, {x})
  BY <1>2 DEF FreeOf
<1>7. Good(g, C, {x} \ {x}, U) /\ g.hdr = h1.hdr /\ g.prev = h1.prev
  BY <1>0, <1>2, <1>3, <1>4, <1>5, <1>6, Inserting
<1>8. Kept(g, h, U)
  BY <1>2, <1>7, SameWords DEF Kept
<1> QED
  BY <1>0, <1>1, <1>3, <1>7, <1>8

(* tlsf_free                                                                *)
LEMMA FreedIs ==
    ASSUME PoolIndexed, NEW h, NEW B, NEW U, Good(h, B, {}, U), NEW p, p - 1 \in U
    PROVE  \E C : /\ Good(Freed(h, p), C, {}, U \ {p - 1}) /\ Kept(Freed(h, p), h, U \ {p - 1})
<1>1. PICK x : x = p - 1
  OBVIOUS
<1>2. PICK V : V = U \ {x}
  OBVIOUS
<1>3. Good(h, B, {x}, V)
  BY <1>1, <1>2, Taking
<1>4. PICK h1 : h1 = MarkAsFree(h, x)
  OBVIOUS
<1>5. /\ Good(h1, B, {x}, V) /\ Freeing(h1, h, x, NextOf(h, x))
      /\ \A w \in Words : NextOf(h1, w) = NextOf(h, w)
  <2>1. x \in {x}
    OBVIOUS
  <2> QED
    BY <1>3, <1>4, <2>1, GoodFree
<1>6. x \in Words /\ V \subseteq Words
  <2>1. x \in {x}
    OBVIOUS
  <2> QED
    BY <1>3, <2>1, PlaceOf
<1>7. Is(h1, x, "free") /\ Is(h1, NextOf(h1, x), "prevFree") /\ h1.prev[NextOf(h1, x)] = x
  BY <1>5, <1>6 DEF Freeing
<1>8. PICK q : q = MergedPrev(h1, x)
  OBVIOUS
<1>9. PICK h2 : h2 = MergePrev(h1, x)
  OBVIOUS
<1>10. PICK C : Good(h2, C, {q}, V) /\ Kept(h2, h1, V) /\ Ready(h2, q)
  BY <1>5, <1>7, <1>8, <1>9, MergePrevIs
<1>11. PICK D : /\ Good(BlockInsert(MergeNext(h2, q), q), D, {}, V)
                /\ Kept(BlockInsert(MergeNext(h2, q), q), h2, V)
  BY <1>10, EndFree
<1>12. Freed(h, p) = BlockInsert(MergeNext(h2, q), q)
  BY <1>1, <1>4, <1>8, <1>9 DEF Freed
<1>13. Kept(Freed(h, p), h, V)
  <2>1. Kept(h1, h, V)
    BY <1>5, <1>6 DEF Kept, Freeing, SameSizes
  <2> QED
    BY <1>10, <1>11, <1>12, <2>1 DEF Kept
<1> QED
  BY <1>1, <1>2, <1>11, <1>12, <1>13

(* block_trim_used                                                          *)
LEMMA TrimUsedIs ==
    ASSUME PoolIndexed, NEW h, NEW B, NEW b, NEW U, Good(h, B, {b}, U),
           ~Is(h, b, "free"), ~Is(h, NextOf(h, b), "prevFree"), NEW n \in Nat, n >= MinSize
    PROVE  \E C : /\ Good(TrimUsed(h, b, n), C, {}, U \cup {b})
                  /\ Kept(TrimUsed(h, b, n), h, U)
                  /\ Size(TrimUsed(h, b, n), b) = TrimSize(h, b, n)
<1>0. b \in {b} /\ {b} \ {b} = {}
  OBVIOUS
<1>1. /\ h \in Heaps /\ b \in B /\ b \in Words /\ NextOf(h, b) \in Words
      /\ U \subseteq B \ {b} /\ B \subseteq Words
  BY <1>0, PlaceOf
<1>2. CASE ~CanSplit(h, b, n)
  <2>1. TrimUsed(h, b, n) = h /\ TrimSize(h, b, n) = Size(h, b)
    BY <1>2 DEF TrimUsed, TrimSize
  <2>2. Good(h, B, {b} \ {b}, U \cup {b})
    BY <1>0, SettleUsed
  <2>3. Kept(h, h, U)
    BY DEF Kept
  <2> QED
    BY <1>0, <2>1, <2>2, <2>3
<1>3. CASE CanSplit(h, b, n)
  <2>1. PICK r : r = Rest(b, n)
    OBVIOUS
  <2>2. PICK h1 : h1 = Split(h, b, n)
    OBVIOUS
  <2>3. PICK v \in BOOLEAN : v = FALSE
    OBVIOUS
  <2>4. PICK h2 : h2 = Mark(h1, r, "prevFree", v)
    OBVIOUS
  <2>5. PICK C : C = B \cup {r}
    OBVIOUS
  <2>6. PICK X : X = {b} \cup {r}
    OBVIOUS
  <2>7. b \in X /\ r \in X
    BY <2>6
  <2>8. TrimUsed(h, b, n) = BlockInsert(MergeNext(h2, r), r) /\ TrimSize(h, b, n) = n
    BY <1>3, <2>1, <2>2, <2>3, <2>4 DEF TrimUsed, TrimSize
  <2>9. Good(h1, C, X, U) /\ r \notin B /\ r \in Words /\ Halved(h1, h, b, n, r) /\ Kept(h1, h, U)
    BY <1>0, <1>3, <2>1, <2>2, <2>5, <2>6, SplitIs
  <2>10. r = NextOf(h1, b) /\ NextOf(h1, r) = NextOf(h, b) /\ r # b
    BY <1>1, <2>9 DEF Halved
  <2>11. /\ Good(h2, C, X, U) /\ PrevMarked(h2, h1, r, v)
         /\ \A w \in Words : NextOf(h2, w) = NextOf(h1, w)
    BY <2>4, <2>7, <2>9, <2>10, GoodMarkPrev
  <2>12. ~Is(h2, b, "free") /\ Is(h2, r, "free")
    <3>1. Is(h1, r, "free") /\ SameFlags(h1, h, "free", Words \ {r}) /\ SameFlags(h2, h1, "free", Words)
      BY <2>9, <2>11 DEF Halved, PrevMarked
    <3> QED
      BY <1>1, <2>9, <2>10, <3>1 DEF SameFlags
  <2>13. ~Is(h2, r, "prevFree") /\ NextOf(h2, b) = r /\ NextOf(h2, r) = NextOf(h, b)
    BY <1>1, <2>3, <2>9, <2>10, <2>11 DEF PrevMarked
  <2>14. NextOf(h, b) # r
    <3>1. NextOf(h1, r) > r /\ r \in Nat
      BY <2>7, <2>9, PlaceOf
    <3> QED
      BY <2>10, <3>1
  <2>15. Is(h2, NextOf(h2, r), "prevFree") /\ h2.prev[NextOf(h2, r)] = r
    <3>1. Is(h1, NextOf(h, b), "prevFree") /\ SameFlags(h2, h1, "prevFree", Words \ {r})
      BY <2>9, <2>11 DEF Halved, PrevMarked
    <3>2. h1.prev[NextOf(h, b)] = r /\ SamePrev(h2, h1, Words)
      BY <2>9, <2>11 DEF Halved, PrevMarked
    <3>3. Is(h2, NextOf(h, b), "prevFree")
      BY <1>1, <2>14, <3>1 DEF SameFlags
    <3>4. h2.prev[NextOf(h, b)] = r
      BY <1>1, <3>2 DEF SamePrev
    <3> QED
      BY <2>13, <3>3, <3>4
  <2>16. Ready(h2, r)
    BY <2>12, <2>13, <2>15 DEF Ready
  <2>17. Good(h2, C, X \ {b}, U \cup {b})
    <3>1. ~Is(h2, b, "free") /\ ~Is(h2, NextOf(h2, b), "prevFree")
      BY <2>12, <2>13
    <3> QED
      BY <2>7, <2>11, <3>1, SettleUsed
  <2>18. X \ {b} = {r}
    BY <2>6, <2>10
  <2>19. PICK V : V = U \cup {b}
    OBVIOUS
  <2>20. Good(h2, C, {r}, V)
    BY <2>17, <2>18, <2>19
  <2>21. PICK D : /\ Good(BlockInsert(MergeNext(h2, r), r), D, {}, V)
                  /\ Kept(BlockInsert(MergeNext(h2, r), r), h2, V)
    BY <2>16, <2>20, EndFree
  <2>22. \A w \in Words : Size(h2, w) = Size(h1, w)
    BY <2>11 DEF PrevMarked, SameSizes
  <2>23. Size(h1, b) = n
    BY <2>9 DEF Halved
  <2>24. Kept(TrimUsed(h, b, n), h, U) /\ Size(TrimUsed(h, b, n), b) = n
    BY <1>1, <2>8, <2>9, <2>19, <2>21, <2>22, <2>23 DEF Kept
  <2> QED
    BY <2>8, <2>19, <2>21, <2>24
<1> QED
  BY <1>2, <1>3

(* A free block that touches no free block                                  *)
Alone(h, b) == Is(h, b, "free") /\ ~Is(h, b, "prevFree") /\ ~Is(h, NextOf(h, b), "free")

(* block_trim_free_leading                                                  *)
Leftover(g, h, b, gap, r) == ~Is(g, NextOf(g, r), "free") /\ Size(g, r) = Size(h, b) - gap
LEMMA LeadingIs ==
    ASSUME PoolIndexed, NEW h, NEW B, NEW b, NEW U, Good(h, B, {b}, U),
           Alone(h, b),
           NEW gap \in Nat, gap >= HeaderSize, CanSplit(h, b, gap),
           NEW r, r = Rest(b, gap - 1), NEW g, g = TrimFreeLeading(h, b, gap)
    PROVE  \E C : Good(g, C, {r}, U) /\ Kept(g, h, U) /\ Leftover(g, h, b, gap, r)
<1>0. b \in {b}
  OBVIOUS
<1>a. Is(h, b, "free") /\ ~Is(h, b, "prevFree") /\ ~Is(h, NextOf(h, b), "free")
  BY DEF Alone
<1>1. /\ h \in Heaps /\ b \in B /\ b \in Words /\ NextOf(h, b) \in Words /\ Size(h, b) \in Nat
      /\ U \subseteq B \ {b} /\ B \subseteq Words
  BY <1>0, PlaceOf
<1>2. PICK n \in Nat : n = gap - 1
  BY DEF HeaderSize
<1>3. n >= MinSize /\ CanSplit(h, b, n) /\ n + 1 = gap
  BY <1>1, <1>2 DEF HeaderSize, MinSize, CanSplit
<1>4. PICK k : k = Rest(b, n)
  OBVIOUS
<1>5. k = r
  BY <1>2, <1>4
<1>6. PICK h1 : h1 = Split(h, b, n)
  OBVIOUS
<1>7. PICK v \in BOOLEAN : v = TRUE
  OBVIOUS
<1>8. PICK h2 : h2 = Mark(h1, k, "prevFree", v)
  OBVIOUS
<1>9. PICK h3 : h3 = LinkNext(h2, b)
  OBVIOUS
<1>10. PICK C : C = B \cup {k}
  OBVIOUS
<1>11. PICK X : X = {b} \cup {k}
  OBVIOUS
<1>12. b \in X /\ k \in X
  BY <1>11
<1>13. g = BlockInsert(h3, b)
  BY <1>2, <1>4, <1>6, <1>7, <1>8, <1>9 DEF TrimFreeLeading
<1>14. Good(h1, C, X, U) /\ k \notin B /\ k \in Words /\ Halved(h1, h, b, n, k) /\ Kept(h1, h, U)
  BY <1>0, <1>3, <1>4, <1>6, <1>10, <1>11, SplitIs
<1>15. k = NextOf(h1, b) /\ NextOf(h1, k) = NextOf(h, b) /\ k # b
  BY <1>1, <1>14 DEF Halved
<1>16. /\ Good(h2, C, X, U) /\ PrevMarked(h2, h1, k, v)
       /\ \A w \in Words : NextOf(h2, w) = NextOf(h1, w)
  BY <1>8, <1>12, <1>14, <1>15, GoodMarkPrev
<1>17. k = NextOf(h2, b)
  BY <1>1, <1>15, <1>16
<1>18. /\ Good(h3, C, X, U) /\ Linked(h3, h2, b, NextOf(h2, b))
       /\ \A w \in Words : NextOf(h3, w) = NextOf(h2, w)
  BY <1>9, <1>12, <1>16, GoodLink
<1>19. NextOf(h3, b) = k /\ NextOf(h3, k) = NextOf(h, b)
  BY <1>1, <1>14, <1>15, <1>16, <1>18
<1>20. NextOf(h, b) # k
  <2>1. NextOf(h1, k) > k /\ k \in Nat
    BY <1>12, <1>14, PlaceOf
  <2> QED
    BY <1>15, <2>1
<1>21. SameFlags(h3, h, "free", Words \ {k})
  <2>1. /\ SameFlags(h1, h, "free", Words \ {k}) /\ SameFlags(h2, h1, "free", Words)
        /\ SameFlags(h3, h2, "free", Words)
    BY <1>14, <1>16, <1>18 DEF Halved, PrevMarked, Linked
  <2> QED
    BY <2>1 DEF SameFlags
<1>22. Is(h3, b, "free") /\ ~Is(h3, NextOf(h, b), "free")
  BY <1>a, <1>1, <1>15, <1>20, <1>21 DEF SameFlags
<1>23. Is(h3, k, "prevFree") /\ ~Is(h3, b, "prevFree")
  <2>1. /\ SameFlags(h1, h, "prevFree", Words \ {NextOf(h, b)})
        /\ SameFlags(h2, h1, "prevFree", Words \ {k}) /\ (Is(h2, k, "prevFree") <=> v)
        /\ SameFlags(h3, h2, "prevFree", Words)
    BY <1>14, <1>16, <1>18 DEF Halved, PrevMarked, Linked
  <2>2. b # NextOf(h, b)
    <3>1. NextOf(h, b) > b /\ b \in Nat
      BY <1>0, PlaceOf
    <3> QED
      BY <3>1
  <2>3. Is(h3, k, "prevFree")
    BY <1>7, <1>14, <2>1 DEF SameFlags
  <2>4. ~Is(h3, b, "prevFree")
    BY <1>a, <1>1, <1>15, <2>1, <2>2 DEF SameFlags
  <2> QED
    BY <2>3, <2>4
<1>24. h3.prev[k] = b
  BY <1>17, <1>18 DEF Linked
<1>25. Good(g, C, X \ {b}, U) /\ g.hdr = h3.hdr /\ g.prev = h3.prev
  <2>1. NextOf(h3, b) \notin FreeOf(h3, C, X)
    BY <1>12, <1>19 DEF FreeOf
  <2>2. \A c \in FreeOf(h3, C, X) : NextOf(h3, c) # b
    BY <1>18, <1>23, NoFreeBefore
  <2>3. Is(h3, NextOf(h3, b), "prevFree") /\ h3.prev[NextOf(h3, b)] = b
    BY <1>19, <1>23, <1>24
  <2>4. Is(h3, b, "free")
    BY <1>22
  <2> QED
    BY <1>12, <1>13, <1>18, <2>1, <2>2, <2>3, <2>4, Inserting
<1>26. X \ {b} = {k}
  BY <1>11, <1>15
<1>27. /\ \A w : Size(g, w) = Size(h3, w) /\ NextOf(g, w) = NextOf(h3, w)
       /\ \A w, flag : Is(g, w, flag) = Is(h3, w, flag)
  BY <1>25, SameWords
<1>28. \A w \in Words : Size(g, w) = Size(h1, w)
  BY <1>16, <1>18, <1>27 DEF PrevMarked, Linked, SameSizes
<1>29. Kept(g, h, U)
  BY <1>1, <1>14, <1>28 DEF Kept
<1>30. ~Is(g, NextOf(g, k), "free")
  BY <1>19, <1>22, <1>27
<1>31. Size(g, k) = Size(h, b) - gap
  BY <1>3, <1>14, <1>28 DEF Halved
<1> QED
  BY <1>5, <1>25, <1>26, <1>29, <1>30, <1>31 DEF Leftover

-----------------------------------------------------------------------------
(* tlsf_walk_pool, and what callers write                                   *)

(* A walk over 0..n that goes on at a later point meets a set of points.    *)
Walks(f, n, stop, nxt) == f = [s \in 0..n |-> IF s \in stop THEN {} ELSE {s} \cup f[nxt[s]]]
LEMMA Walk ==
    ASSUME NEW n \in Nat, NEW stop, NEW nxt, \A s \in 0..n : s \notin stop => nxt[s] \in (s + 1)..n
    PROVE  \E f : Walks(f, n, stop, nxt)
<1> DEFINE Eq(f, k) == f = [s \in k..n |-> IF s \in stop THEN {} ELSE {s} \cup f[nxt[s]]]
           G == {k \in 0..(n + 1) : \E f : Eq(f, k)}
<1>1. n + 1 \in G
  <2>1. (n + 1)..n = {}
    OBVIOUS
  <2> DEFINE f == [s \in (n + 1)..n |-> {}]
  <2>2. Eq(f, n + 1)
    BY <2>1
  <2> HIDE DEF Eq, f
  <2> QED
    BY <2>2
<1>2. ASSUME NEW k \in 0..n, k + 1 \in G PROVE k \in G
  <2>1. PICK f : Eq(f, k + 1)
    BY <1>2
  <2> DEFINE g == [s \in k..n |-> IF s = k THEN (IF k \in stop THEN {} ELSE {k} \cup f[nxt[k]]) ELSE f[s]]
  <2>2. \A s \in (k + 1)..n : f[s] = IF s \in stop THEN {} ELSE {s} \cup f[nxt[s]]
    BY <2>1
  <2>3. \A s \in (k + 1)..n : s \in k..n /\ s # k /\ s \in 0..n
    OBVIOUS
  <2>4. k \in k..n /\ \A s \in k..n : s = k \/ s \in (k + 1)..n
    OBVIOUS
  <2>5. \A s \in (k + 1)..n : g[s] = f[s]
    BY <2>3
  <2>6. g[k] = IF k \in stop THEN {} ELSE {k} \cup f[nxt[k]]
    BY <2>4
  <2>7. g = [s \in k..n |-> g[s]]
    OBVIOUS
  <2> HIDE DEF g
  <2>8. ASSUME NEW s \in k..n PROVE g[s] = IF s \in stop THEN {} ELSE {s} \cup g[nxt[s]]
    <3>1. CASE s = k
      <4>1. k \notin stop => nxt[k] \in (k + 1)..n
        OBVIOUS
      <4> QED
        BY <2>5, <2>6, <3>1, <4>1
    <3>2. CASE s \in (k + 1)..n
      <4>1. s \notin stop => nxt[s] \in (k + 1)..n
        <5>1. s \in 0..n /\ s >= k + 1
          BY <3>2
        <5>2. s \notin stop => nxt[s] \in (s + 1)..n
          BY <5>1
        <5> QED
          BY <5>1, <5>2
      <4> QED
        BY <2>2, <2>5, <3>2, <4>1
    <3> QED
      BY <2>4, <3>1, <3>2
  <2>9. Eq(g, k)
    BY <2>7, <2>8
  <2> HIDE DEF Eq
  <2> QED
    BY <2>9
<1>3. 0 \in G
  <2> HIDE DEF G
  <2>1. \A k \in 0..(n + 1) : k \in G
    BY <1>1, <1>2, Downward
  <2> QED
    BY <2>1
<1> QED
  BY <1>3 DEF Walks

(* tlsf_walk_pool meets the blocks.                                         *)
LEMMA BlocksAre ==
    ASSUME NEW h \in Heaps, NEW B, Tiles(h, B)
    PROVE  Blocks(h) = B
<1>0. /\ B \subseteq Words /\ B \in SUBSET Nat /\ Sentinel \notin B /\ Sentinel \in Nat
      /\ \A w \in Words : Size(h, w) \in Nat /\ NextOf(h, w) \in Nat /\ NextOf(h, w) = w + 1 + Size(h, w)
      /\ \A b \in B : /\ b < Sentinel /\ NextOf(h, b) \in Words /\ NextOf(h, b) > b
                      /\ NextOf(h, b) <= Sentinel /\ NextOf(h, b) # 0
  BY TileFacts
<1> DEFINE from[b \in 0..PoolWords] ==
               IF b >= PoolWords \/ Size(h, b) = 0 THEN {} ELSE {b} \cup from[NextOf(h, b)]
<1>1. Blocks(h) = from[0]
  BY DEF Blocks
<1> DEFINE stop == {b \in 0..PoolWords : b >= PoolWords \/ Size(h, b) = 0}
           nxt == [b \in 0..PoolWords |-> NextOf(h, b)]
<1>2. ASSUME NEW s \in 0..PoolWords, s \notin stop PROVE nxt[s] \in (s + 1)..PoolWords
  <2>1. s \in Words /\ s \in Nat
    BY <1>2, PoolIs DEF Words
  <2>2. NextOf(h, s) <= PoolWords
    BY <2>1 DEF Tiles
  <2> QED
    BY <1>0, <2>1, <2>2, PoolIs
<1>3. \E f : f = [s \in 0..PoolWords |-> IF s \in stop THEN {} ELSE {s} \cup f[nxt[s]]]
  <2>0. PICK m \in Nat : m = PoolWords
    BY PoolIs
  <2>1. PICK st, nx : st = stop /\ nx = nxt
    OBVIOUS
  <2>2. \A s \in 0..m : s \notin st => nx[s] \in (s + 1)..m
    BY <1>2, <2>0, <2>1
  <2>3. \E f : Walks(f, m, st, nx)
    BY <2>2, Walk
  <2> HIDE DEF stop, nxt
  <2> QED
    BY <2>0, <2>1, <2>3 DEF Walks
<1>4. PICK f : f = [s \in 0..PoolWords |-> IF s \in stop THEN {} ELSE {s} \cup f[nxt[s]]]
  BY <1>3
<1>5. \A s \in 0..PoolWords : f[s] = IF s >= PoolWords \/ Size(h, s) = 0 THEN {} ELSE {s} \cup f[NextOf(h, s)]
  BY <1>4
<1>6. f = [s \in 0..PoolWords |-> IF s >= PoolWords \/ Size(h, s) = 0 THEN {} ELSE {s} \cup f[NextOf(h, s)]]
  BY <1>4, <1>5
<1>7. from = [b \in 0..PoolWords |->
                 IF b >= PoolWords \/ Size(h, b) = 0 THEN {} ELSE {b} \cup from[NextOf(h, b)]]
  BY <1>6
<1>8. \A b \in 0..PoolWords :
          from[b] = IF b >= PoolWords \/ Size(h, b) = 0 THEN {} ELSE {b} \cup from[NextOf(h, b)]
  BY <1>7
<1> HIDE DEF from
<1> DEFINE Above(b) == {c \in B : c >= b}
           G == {b \in 0..PoolWords : b \in B \cup {Sentinel} => from[b] = Above(b)}
<1>9. PoolWords \in G
  <2>1. PoolWords \notin B /\ PoolWords # Sentinel
    BY <1>0, PoolIs DEF Sentinel, Words
  <2> QED
    BY <2>1, PoolIs
<1>10. ASSUME NEW k \in 0..Sentinel, \A j \in (k + 1)..PoolWords : j \in G PROVE k \in G
  <2>0. k \in 0..PoolWords /\ k \in Nat
    BY PoolIs DEF Sentinel
  <2>1. CASE k = Sentinel
    <3>1. from[Sentinel] = {}
      BY <1>8, <2>0, <2>1 DEF Tiles
    <3>2. Above(Sentinel) = {}
      <4>1. \A c \in B : c \in Nat /\ ~(c >= Sentinel)
        BY <1>0
      <4> QED
        BY <4>1
    <3> QED
      BY <2>0, <2>1, <3>1, <3>2
  <2>2. CASE k \in B
    <3>1. Size(h, k) >= MinSize /\ Size(h, k) \in Nat /\ ~(k >= PoolWords)
      BY <1>0, <2>2, PoolIs DEF Tiles, Words
    <3>2. from[k] = {k} \cup from[NextOf(h, k)]
      <4>1. ~(k >= PoolWords \/ Size(h, k) = 0)
        BY <3>1 DEF MinSize
      <4> QED
        BY <1>8, <2>0, <4>1
    <3>3. NextOf(h, k) \in (k + 1)..PoolWords /\ NextOf(h, k) \in B \cup {Sentinel}
      BY <1>0, <2>2, PoolIs DEF Tiles, Words
    <3>4. NextOf(h, k) \in G
      BY <1>10, <3>3
    <3>5. from[NextOf(h, k)] = Above(NextOf(h, k))
      BY <3>3, <3>4
    <3>6. Above(k) = {k} \cup Above(NextOf(h, k))
      <4>1. ASSUME NEW c \in B, c >= k PROVE c = k \/ c >= NextOf(h, k)
        <5>1. c \in Nat /\ NextOf(h, k) \in Nat
          BY <1>0, <2>2
        <5>2. k < c => NextOf(h, k) <= c
          BY <2>2 DEF Tiles
        <5> QED
          BY <2>0, <4>1, <5>1, <5>2
      <4>2. ASSUME NEW c \in B, c >= NextOf(h, k) PROVE c >= k
        <5>1. c \in Nat /\ NextOf(h, k) \in Nat /\ NextOf(h, k) > k
          BY <1>0, <2>2
        <5> QED
          BY <2>0, <4>2, <5>1
      <4>3. k \in Above(k)
        BY <2>0, <2>2
      <4> QED
        BY <4>1, <4>2, <4>3
    <3>7. from[k] = Above(k)
      BY <3>2, <3>5, <3>6
    <3> HIDE DEF Above
    <3> QED
      BY <2>0, <3>7
  <2>3. CASE k \notin B \cup {Sentinel}
    BY <2>0, <2>3
  <2> QED
    BY <2>1, <2>2, <2>3
<1>11. 0 \in G
  <2> DEFINE Q == {k \in 0..PoolWords : \A j \in k..PoolWords : j \in G}
  <2>1. Sentinel + 1 = PoolWords /\ Sentinel \in Nat
    BY PoolIs DEF Sentinel
  <2> HIDE DEF G
  <2>2. Sentinel + 1 \in Q
    <3>1. \A j \in PoolWords..PoolWords : j = PoolWords
      BY PoolIs
    <3> QED
      BY <1>9, <2>1, <3>1, PoolIs
  <2>3. ASSUME NEW k \in 0..Sentinel, k + 1 \in Q PROVE k \in Q
    <3>1. \A j \in (k + 1)..PoolWords : j \in G
      BY <2>3
    <3>2. k \in G
      BY <1>10, <3>1
    <3>3. \A j \in k..PoolWords : j = k \/ j \in (k + 1)..PoolWords
      BY PoolIs
    <3>4. k \in 0..PoolWords
      BY <2>1, PoolIs
    <3> QED
      BY <3>1, <3>2, <3>3, <3>4
  <2>4. 0 \in Q
    <3> HIDE DEF Q
    <3>1. \A k \in 0..(Sentinel + 1) : k \in Q
      BY <2>1, <2>2, <2>3, Downward
    <3> QED
      BY <2>1, <3>1
  <2>5. 0 \in 0..PoolWords
    BY PoolIs
  <2> QED
    BY <2>4, <2>5
<1>12. from[0] = Above(0)
  BY <1>11 DEF Tiles
<1>13. Above(0) = B
  <2>1. \A c \in B : c >= 0
    BY <1>0
  <2> QED
    BY <2>1
<1> QED
  BY <1>1, <1>12, <1>13

(* What callers write into their payloads does not reach the structure.     *)
LEMMA OverwriteIs ==
    ASSUME NEW h, NEW B, NEW U, Good(h, B, {}, U)
    PROVE  Good(Overwrite(h), B, {}, U) /\ Kept(Overwrite(h), h, U)
<1>0. h \in Heaps /\ Tiles(h, B) /\ Marked(h, B, {}) /\ U = UsedOf(h, B, {})
  BY DEF Good
<1>1. /\ B \subseteq Words /\ B \in SUBSET Nat /\ Sentinel \notin B /\ Sentinel \in Words
      /\ \A b \in B : NextOf(h, b) \in Words
  BY <1>0, TileFacts, PoolIs
<1>2. Blocks(h) = B
  BY <1>0, BlocksAre
<1> DEFINE header == B \cup {PoolWords - 1}
           behind == {NextOf(h, b) : b \in {c \in B : Is(h, c, "free")}}
           H1 == [w \in Words |-> IF w \in header THEN h.hdr[w] ELSE Junk]
           P1 == [w \in Words |-> IF w \in behind THEN h.prev[w] ELSE PoolWords]
<1>3. DOMAIN h.hdr = Words /\ DOMAIN h.prev = Words
  BY <1>0 DEF Heaps
<1>4. PICK g : g = Overwrite(h)
  OBVIOUS
<1>5. g = [h EXCEPT !.hdr = H1, !.prev = P1]
  BY <1>2, <1>3, <1>4 DEF Overwrite
<1>6. H1 \in [Words -> Header] /\ P1 \in [Words -> 0..PoolWords]
  <2>1. h.hdr \in [Words -> Header] /\ h.prev \in [Words -> 0..PoolWords]
    BY <1>0 DEF Heaps
  <2>2. Junk \in Header
    BY DEF Junk, Header
  <2>3. PoolWords \in 0..PoolWords
    BY PoolIs
  <2> HIDE DEF header, behind
  <2> QED
    BY <2>1, <2>2, <2>3
<1>7. /\ \A w \in B \cup {Sentinel} : H1[w] = h.hdr[w]
      /\ \A w \in Words : w \notin B \cup {Sentinel} => H1[w] = Junk
      /\ \A w \in Words : w \in behind => P1[w] = h.prev[w]
  BY <1>1 DEF Sentinel
<1> HIDE DEF H1, P1
<1>8. g \in Heaps /\ g.hdr = H1 /\ g.prev = P1 /\ SameLists(g, h)
  BY <1>0, <1>5, <1>6 DEF Heaps, SameLists
<1>9. \A w \in B \cup {Sentinel} : /\ Size(g, w) = Size(h, w) /\ NextOf(g, w) = NextOf(h, w)
                                   /\ \A flag : Is(g, w, flag) = Is(h, w, flag)
  BY <1>7, <1>8 DEF Size, NextOf, Is
<1>10. \A w \in Words : w \notin B \cup {Sentinel} => NextOf(g, w) = w + 1
  <2> SUFFICES ASSUME NEW w \in Words, w \notin B \cup {Sentinel} PROVE NextOf(g, w) = w + 1
    OBVIOUS
  <2>1. Size(g, w) = 0 /\ w \in Nat
    BY <1>7, <1>8, PoolIs DEF Size, Junk
  <2> QED
    BY <2>1 DEF NextOf
<1>11. Tiles(g, B)
  <2>1. ASSUME NEW w \in Words PROVE NextOf(g, w) <= PoolWords
    <3>1. CASE w \in B \cup {Sentinel}
      BY <1>0, <1>9, <3>1 DEF Tiles
    <3>2. CASE w \notin B \cup {Sentinel}
      <4>1. w + 1 <= PoolWords
        BY PoolIs DEF Words
      <4> QED
        BY <1>10, <3>2, <4>1
    <3> QED
      BY <3>1, <3>2
  <2> QED
    BY <1>0, <1>9, <2>1 DEF Tiles
<1>12. SameFlags(g, h, "free", {Sentinel} \cup (B \ {}))
  BY <1>9 DEF SameFlags
<1>13. \A b \in B : /\ NextOf(h, b) \in B \cup {Sentinel}
                    /\ NextOf(g, b) = NextOf(h, b) /\ Size(g, b) = Size(h, b)
  BY <1>0, <1>9 DEF Tiles
<1>14. FreeOf(g, B, {}) = FreeOf(h, B, {}) /\ UsedOf(g, B, {}) = UsedOf(h, B, {})
  BY <1>9 DEF FreeOf, UsedOf
<1>15. Marked(g, B, {})
  <2>1. ASSUME NEW b \in B \ {} PROVE Is(g, NextOf(g, b), "prevFree") <=> Is(g, b, "free")
    <3>1. Is(h, NextOf(h, b), "prevFree") <=> Is(h, b, "free")
      BY <1>0 DEF Marked
    <3> QED
      BY <1>9, <1>13, <3>1
  <2>2. ~Is(g, 0, "prevFree") /\ ~Is(g, Sentinel, "free")
    BY <1>0, <1>9 DEF Marked, Tiles
  <2>3. ASSUME NEW b \in FreeOf(g, B, {})
        PROVE  g.prev[NextOf(g, b)] = b /\ NextOf(g, b) \notin FreeOf(g, B, {})
    <3>1. b \in FreeOf(h, B, {}) /\ b \in B /\ Is(h, b, "free")
      BY <1>14, <2>3 DEF FreeOf
    <3>2. h.prev[NextOf(h, b)] = b /\ NextOf(h, b) \notin FreeOf(h, B, {})
      BY <1>0, <3>1 DEF Marked
    <3>3. NextOf(h, b) \in behind /\ NextOf(h, b) \in Words
      BY <1>1, <3>1
    <3> HIDE DEF behind
    <3> QED
      BY <1>7, <1>8, <1>13, <1>14, <3>1, <3>2, <3>3
  <2> QED
    BY <2>1, <2>2, <2>3 DEF Marked
<1>16. Listed(g, FreeOf(g, B, {}))
  <2>1. SameSizes(g, h, FreeOf(h, B, {}))
    BY <1>9 DEF SameSizes, FreeOf
  <2>2. Listed(h, FreeOf(h, B, {}))
    BY DEF Good
  <2> QED
    BY <1>8, <1>14, <2>1, <2>2, ListedSame
<1>17. Good(g, B, {}, U)
  BY <1>0, <1>8, <1>11, <1>14, <1>15, <1>16 DEF Good
<1>18. Kept(g, h, U)
  BY <1>0, <1>9 DEF Kept, UsedOf
<1> QED
  BY <1>4, <1>17, <1>18

-----------------------------------------------------------------------------
(* Requests and the search                                                  *)

(* Rounding up gives no less.                                               *)
LEMMA RoundUpIs ==
    ASSUME NEW n \in Nat, NEW a \in Nat \ {0}
    PROVE  RoundUp(n, a) \in Nat /\ RoundUp(n, a) >= n
<1> DEFINE m == n + a - 1
           q == m \div a
<1>1. m \in Nat
  OBVIOUS
<1> HIDE DEF m
<1>2. q \in Nat /\ q * a <= m /\ m < q * a + a
  BY <1>1
<1>3. RoundUp(n, a) = q * a
  BY DEF RoundUp, m
<1> HIDE DEF q
<1>4. q * a \in Nat
  BY <1>2
<1> QED
  BY <1>2, <1>3, <1>4 DEF m

(* What adjust_request_size answers: 0, or a size that some list is for.    *)
Adjusted(z) == z = 0 \/ (z \in Nat /\ z >= MinSize /\ z < Pow2[FLMax])
LEMMA AdjustIs ==
    ASSUME PoolIndexed, NEW n \in Nat, NEW a \in Nat \ {0}
    PROVE  Adjusted(Adjust(n, a)) /\ Adjust(n, a) \in Nat
<1>1. Pow2[FLMax] \in Nat /\ Pow2[FLMax] > 3
  BY TlsfAssumption, Pow2Is, ShiftsAre DEF PoolIndexed
<1>2. RoundUp(n, a) \in Nat
  BY RoundUpIs
<1> QED
  BY <1>1, <1>2 DEF Adjust, Adjusted, Bigger, MinSize

(* The same for the longer request of tlsf_memalign.                        *)
LEMMA AskedIs ==
    ASSUME PoolIndexed, NEW n \in Nat, NEW a \in Nat \ {0}
    PROVE  Adjusted(Asked(n, a)) /\ (Asked(n, a) # 0 => Adjust(n, 1) # 0)
<1>1. Adjusted(Adjust(n, 1)) /\ Adjust(n, 1) \in Nat
  BY AdjustIs
<1>2. Adjust(n, 1) + a + HeaderSize \in Nat
  BY <1>1 DEF HeaderSize
<1>3. Adjusted(Adjust(Adjust(n, 1) + a + HeaderSize, a))
  BY <1>2, AdjustIs
<1> QED
  BY <1>1, <1>3 DEF Asked

(* A gap before an aligned payload has room for a block, if there is one.   *)
LEMMA GapIs ==
    ASSUME NEW p \in Nat, NEW a \in Nat \ {0}
    PROVE  Gap(p, a) \in Nat /\ (Gap(p, a) # 0 => Gap(p, a) >= HeaderSize)
<1> DEFINE g == RoundUp(p, a) - p
           m == p + g + Bigger(HeaderSize - g, a)
<1>1. g \in Nat
  BY RoundUpIs
<1>2. Gap(p, a) = IF g \in 1..(HeaderSize - 1) THEN RoundUp(m, a) - p ELSE g
  BY DEF Gap
<1> HIDE DEF g
<1>3. CASE g \in 1..(HeaderSize - 1)
  <2>1. m \in Nat /\ m >= p + HeaderSize
    BY <1>1, <1>3 DEF Bigger, HeaderSize
  <2> HIDE DEF m
  <2>2. RoundUp(m, a) \in Nat /\ RoundUp(m, a) >= m
    BY <2>1, RoundUpIs
  <2> QED
    BY <1>2, <1>3, <2>1, <2>2 DEF HeaderSize
<1>4. CASE g \notin 1..(HeaderSize - 1)
  BY <1>1, <1>2, <1>4 DEF HeaderSize
<1> QED
  BY <1>3, <1>4

(* tlsf_ffs of a set that is not empty                                      *)
LEMMA FfsIs ==
    ASSUME NEW T \in SUBSET Nat, T # {}
    PROVE  Ffs(T) \in T /\ \A c \in T : Ffs(T) <= c
BY LeastNumber DEF Ffs

(* block_locate_free answers with a free block and the list it is in.       *)
LEMMA LocateIs ==
    ASSUME PoolIndexed, NEW h, NEW B, NEW X, NEW U, Good(h, B, X, U), NEW n, Adjusted(n),
           NEW f \in LocateFree(h, n)
    PROVE  /\ n \in Nat /\ n >= MinSize
           /\ f.block \in FreeOf(h, B, X) /\ f.at = MappingInsert(Size(h, f.block))
           /\ f.at \in Suitable(h, MappingSearch(n))
<1>1. PICK j \in Suitable(h, MappingSearch(n)) :
          /\ f = [block |-> Head(h.list[j.fl][j.sl]), at |-> j]
          /\ n # 0 /\ MappingSearch(n).fl < FLCount
  <2>1. ~(n = 0 \/ MappingSearch(n).fl >= FLCount)
    BY DEF LocateFree
  <2>2. n \in Nat /\ n # 0 /\ n < Pow2[FLMax]
    BY <2>1 DEF Adjusted
  <2>3. MappingSearch(n).fl \in Nat /\ FLCount \in Nat
    BY <2>2, SearchLevel, ShiftsAre DEF FLCount
  <2>4. MappingSearch(n).fl < FLCount
    BY <2>1, <2>3
  <2> QED
    BY <2>1, <2>4 DEF LocateFree
<1>2. n \in Nat /\ n >= MinSize /\ n < Pow2[FLMax]
  BY <1>1 DEF Adjusted
<1>3. /\ MappingSearch(n).fl \in 0..(FLCount - 1) /\ FLCount \in Nat /\ SmallSize \in Nat
      /\ MappingSearch(n).sl \in Int
  BY <1>1, <1>2, SearchLevel, ShiftsAre, Pow2Is DEF FLCount, SmallSize
<1>4. /\ h.fl \in SUBSET (0..(FLCount - 1)) /\ h.sl \in [0..(FLCount - 1) -> SUBSET (0..(SmallSize - 1))]
      /\ h.list \in [0..(FLCount - 1) -> [0..(SmallSize - 1) -> Seq(Words)]]
      /\ Listed(h, FreeOf(h, B, X))
  BY DEF Good, Heaps
<1>5. j.fl \in 0..(FLCount - 1) /\ j.sl \in h.sl[j.fl] /\ j = [fl |-> j.fl, sl |-> j.sl]
  <2> DEFINE i == MappingSearch(n)
             same == {s \in h.sl[i.fl] : s >= i.sl}
             above == {v \in h.fl : v > i.fl}
  <2> HIDE DEF i
  <2>1. i.fl \in 0..(FLCount - 1)
    BY <1>3 DEF i
  <2>2. same \in SUBSET Nat /\ above \in SUBSET Nat
    BY <1>3, <1>4, <2>1
  <2>3. CASE same # {}
    <3>1. Ffs(same) \in same
      BY <2>2, <2>3, FfsIs
    <3>2. j = [fl |-> i.fl, sl |-> Ffs(same)]
      BY <2>3 DEF Suitable, i
    <3> QED
      BY <2>1, <3>1, <3>2
  <2>4. CASE same = {} /\ above # {}
    <3>1. Ffs(above) \in above
      BY <2>2, <2>4, FfsIs
    <3>2. Ffs(above) \in 0..(FLCount - 1) /\ Ffs(above) \in h.fl
      BY <1>4, <3>1
    <3>3. h.sl[Ffs(above)] # {} /\ h.sl[Ffs(above)] \in SUBSET Nat
      <4>1. PICK v \in 0..(FLCount - 1) : v = Ffs(above) /\ v \in h.fl
        BY <3>2
      <4>2. h.sl[v] # {}
        BY <1>4, <4>1 DEF Listed
      <4>3. h.sl[v] \in SUBSET (0..(SmallSize - 1))
        BY <1>4
      <4>4. 0..(SmallSize - 1) \subseteq Nat
        BY <1>3
      <4> HIDE DEF above
      <4> QED
        BY <4>1, <4>2, <4>3, <4>4
    <3>4. Ffs(h.sl[Ffs(above)]) \in h.sl[Ffs(above)]
      BY <3>3, FfsIs
    <3>5. j = [fl |-> Ffs(above), sl |-> Ffs(h.sl[Ffs(above)])]
      BY <2>4 DEF Suitable, i
    <3> QED
      BY <3>2, <3>4, <3>5
  <2>5. CASE same = {} /\ above = {}
    BY <2>5 DEF Suitable, i
  <2> QED
    BY <2>3, <2>4, <2>5
<1>6. j.sl \in 0..(SmallSize - 1)
  BY <1>4, <1>5
<1>7. /\ Range(h.list[j.fl][j.sl]) = InList(h, FreeOf(h, B, X), j.fl, j.sl)
      /\ InList(h, FreeOf(h, B, X), j.fl, j.sl) # {}
  BY <1>4, <1>5, <1>6 DEF Listed
<1>8. h.list[j.fl][j.sl] \in Seq(Words)
  BY <1>4, <1>5, <1>6
<1>9. Head(h.list[j.fl][j.sl]) \in Range(h.list[j.fl][j.sl])
  <2>1. PICK s \in Seq(Words) : s = h.list[j.fl][j.sl]
    BY <1>8
  <2>2. s # <<>>
    BY <1>7, <2>1 DEF Range
  <2>3. 1 \in DOMAIN s /\ Head(s) = s[1]
    BY <2>2
  <2> QED
    BY <2>1, <2>3 DEF Range
<1>10. f.block \in InList(h, FreeOf(h, B, X), j.fl, j.sl) /\ f.at = j
  BY <1>1, <1>7, <1>9
<1> QED
  BY <1>2, <1>5, <1>10 DEF InList

(* A free block touches no free block.                                      *)
LEMMA FreeAlone ==
    ASSUME NEW h, NEW B, NEW U, Good(h, B, {}, U), NEW b \in FreeOf(h, B, {})
    PROVE  Alone(h, b)
<1>5. h \in Heaps /\ Tiles(h, B) /\ Marked(h, B, {}) /\ b \in B /\ Is(h, b, "free")
  BY DEF Good, FreeOf
<1>7. ~Is(h, b, "prevFree")
  <2>1. CASE b = 0
    BY <1>5, <2>1 DEF Marked
  <2>2. CASE b # 0
    <3>1. PICK c \in B : NextOf(h, c) = b
      BY <1>5, <2>2 DEF Tiles
    <3>2. Is(h, b, "prevFree") <=> Is(h, c, "free")
      BY <1>5, <3>1 DEF Marked
    <3>3. Is(h, c, "free") => c \in FreeOf(h, B, {})
      BY DEF FreeOf
    <3>4. c \notin FreeOf(h, B, {})
      BY <1>5, <3>1 DEF Marked
    <3> QED
      BY <3>2, <3>3, <3>4
  <2> QED
    BY <2>1, <2>2
<1>8. ~Is(h, NextOf(h, b), "free")
  <2>1. NextOf(h, b) \in B \cup {Sentinel}
    BY <1>5 DEF Tiles
  <2>2. NextOf(h, b) \notin FreeOf(h, B, {})
    BY <1>5 DEF Marked
  <2>3. CASE NextOf(h, b) \in B
    BY <2>2, <2>3 DEF FreeOf
  <2>4. CASE NextOf(h, b) = Sentinel
    BY <1>5, <2>4 DEF Marked
  <2> QED
    BY <2>1, <2>3, <2>4
<1> QED
  BY <1>5, <1>7, <1>8 DEF Alone

(* A free block that is taken from its list touches no free block.          *)
LEMMA TakingFree ==
    ASSUME PoolIndexed, NEW h, NEW B, NEW U, Good(h, B, {}, U), NEW n, Adjusted(n),
           NEW f \in LocateFree(h, n), NEW g, g = RemoveFreeBlock(h, f.block, f.at)
    PROVE  /\ Good(g, B, {f.block}, U) /\ Alone(g, f.block) /\ g.hdr = h.hdr
           /\ n \in Nat /\ n >= MinSize /\ f.block \in Words /\ f.block \notin U
<1>1. PICK b : b = f.block
  OBVIOUS
<1>2. n \in Nat /\ n >= MinSize /\ b \in FreeOf(h, B, {}) /\ f.at = MappingInsert(Size(h, b))
  BY <1>1, LocateIs
<1>3. g = BlockRemove(h, b)
  BY <1>1, <1>2 DEF BlockRemove
<1>4. Good(g, B, {} \cup {b}, U) /\ g.hdr = h.hdr /\ g.prev = h.prev
  BY <1>2, <1>3, Removing
<1>5. h \in Heaps /\ Tiles(h, B) /\ Marked(h, B, {}) /\ b \in B /\ Is(h, b, "free")
  BY <1>2 DEF Good, FreeOf
<1>6. b \in Words /\ b \notin U
  BY <1>2, <1>5, TileFacts DEF Good, FreeOf, UsedOf
<1>7. Alone(h, b)
  BY <1>2, FreeAlone
<1>9. Alone(g, b)
  BY <1>4, <1>7 DEF Alone, Is, NextOf, Size
<1>10. {} \cup {b} = {b}
  OBVIOUS
<1> QED
  BY <1>1, <1>2, <1>4, <1>6, <1>9, <1>10

-----------------------------------------------------------------------------
(* The calls                                                                *)

(* tlsf_malloc of n words that were found                                   *)
LEMMA MallocIs ==
    ASSUME PoolIndexed, NEW h, NEW B, NEW U, Good(h, B, {}, U), NEW n, Adjusted(n),
           NEW f \in LocateFree(h, n), NEW g,
           g = PrepareUsed(RemoveFreeBlock(h, f.block, f.at), f.block, n)
    PROVE  \E C : /\ Good(g, C, {}, U \cup {f.block}) /\ Kept(g, h, U) /\ f.block \notin U
                  /\ Size(g, f.block) = TrimSize(h, f.block, n)
<1>1. PICK b, g1 : b = f.block /\ g1 = RemoveFreeBlock(h, f.block, f.at)
  OBVIOUS
<1>2. /\ Good(g1, B, {b}, U) /\ Alone(g1, b) /\ g1.hdr = h.hdr
      /\ n \in Nat /\ n >= MinSize /\ b \in Words /\ b \notin U
  BY <1>1, TakingFree
<1>3. ~Is(g1, NextOf(g1, b), "free")
  BY <1>2 DEF Alone
<1>4. PICK C : /\ Good(PrepareUsed(g1, b, n), C, {}, U \cup {b})
               /\ Kept(PrepareUsed(g1, b, n), g1, U)
               /\ Size(PrepareUsed(g1, b, n), b) = TrimSize(g1, b, n)
  BY <1>2, <1>3, PrepareUsedIs
<1>5. g = PrepareUsed(g1, b, n)
  BY <1>1
<1>6. Kept(g, h, U)
  BY <1>2, <1>4, <1>5 DEF Kept, Size
<1>7. TrimSize(g1, b, n) = TrimSize(h, b, n)
  BY <1>2 DEF TrimSize, CanSplit, Size
<1> QED
  BY <1>1, <1>2, <1>4, <1>5, <1>6, <1>7

(* Where tlsf_memalign puts the payload, and the heap it then trims         *)
Leads(h, b, gap) == gap # 0 /\ CanSplit(h, b, gap)
LedTo(h, b, gap) == IF Leads(h, b, gap) THEN Rest(b, gap - 1) ELSE b
Led(h, b, gap) == IF Leads(h, b, gap) THEN TrimFreeLeading(h, b, gap) ELSE h
LedSize(h, b, gap) == IF Leads(h, b, gap) THEN Size(h, b) - gap ELSE Size(h, b)

(* tlsf_memalign of m words, of which z were found                          *)
LEMMA MemalignIs ==
    ASSUME PoolIndexed, NEW h, NEW B, NEW U, Good(h, B, {}, U), NEW z, Adjusted(z),
           NEW f \in LocateFree(h, z), NEW gap \in Nat, gap # 0 => gap >= HeaderSize,
           NEW m \in Nat, m >= MinSize,
           NEW g1, g1 = RemoveFreeBlock(h, f.block, f.at),
           NEW b, b = LedTo(g1, f.block, gap),
           NEW g, g = PrepareUsed(Led(g1, f.block, gap), b, m)
    PROVE  \E C : /\ Good(g, C, {}, U \cup {b}) /\ Kept(g, h, U) /\ b \notin U
                  /\ Size(g, b) = LedSize(h, f.block, gap) \/ Size(g, b) = m
                  /\ Size(g, b) \in m..(m + 3) \/ LedSize(h, f.block, gap) < m
<1>1. PICK c : c = f.block
  OBVIOUS
<1>2. /\ Good(g1, B, {c}, U) /\ Alone(g1, c) /\ g1.hdr = h.hdr
      /\ z \in Nat /\ z >= MinSize /\ c \in Words /\ c \notin U
  BY <1>1, TakingFree
<1>3. PICK g2 : g2 = Led(g1, c, gap)
  OBVIOUS
<1>4. LedSize(g1, c, gap) = LedSize(h, c, gap)
  BY <1>2 DEF LedSize, Leads, CanSplit, Size
<1>5. \E C : /\ Good(g2, C, {b}, U) /\ Kept(g2, g1, U) /\ ~Is(g2, NextOf(g2, b), "free")
             /\ Size(g2, b) = LedSize(g1, c, gap)
  <2>1. CASE Leads(g1, c, gap)
    <3>1. gap # 0 /\ gap >= HeaderSize /\ CanSplit(g1, c, gap)
      BY <2>1 DEF Leads
    <3>3. b = Rest(c, gap - 1) /\ g2 = TrimFreeLeading(g1, c, gap)
      BY <1>1, <1>3, <2>1 DEF LedTo, Led
    <3>4. \E C : Good(g2, C, {b}, U) /\ Kept(g2, g1, U) /\ Leftover(g2, g1, c, gap, b)
      BY <1>2, <3>1, <3>3, LeadingIs
    <3> QED
      BY <2>1, <3>4 DEF LedSize, Leftover
  <2>2. CASE ~Leads(g1, c, gap)
    <3>1. b = c /\ g2 = g1 /\ LedSize(g1, c, gap) = Size(g1, c)
      BY <1>1, <1>3, <2>2 DEF LedTo, Led, LedSize
    <3>2. Kept(g2, g1, U)
      BY <3>1 DEF Kept
    <3> QED
      BY <1>2, <3>1, <3>2 DEF Alone
  <2> QED
    BY <2>1, <2>2
<1>6. PICK D : /\ Good(g2, D, {b}, U) /\ Kept(g2, g1, U) /\ ~Is(g2, NextOf(g2, b), "free")
               /\ Size(g2, b) = LedSize(g1, c, gap)
  BY <1>5
<1>7. g = PrepareUsed(g2, b, m)
  BY <1>1, <1>3
<1>8. PICK C : /\ Good(g, C, {}, U \cup {b}) /\ Kept(g, g2, U) /\ Size(g, b) = TrimSize(g2, b, m)
  <2>1. \E C : /\ Good(PrepareUsed(g2, b, m), C, {}, U \cup {b})
               /\ Kept(PrepareUsed(g2, b, m), g2, U)
               /\ Size(PrepareUsed(g2, b, m), b) = TrimSize(g2, b, m)
    BY <1>6, PrepareUsedIs
  <2> QED
    BY <1>7, <2>1
<1>9. b \notin U /\ Size(g2, b) \in Nat
  BY <1>6, PlaceOf
<1>10. Kept(g, h, U)
  BY <1>2, <1>6, <1>8 DEF Kept, Size
<1>11. /\ Size(g, b) = LedSize(h, c, gap) \/ Size(g, b) = m
       /\ Size(g, b) \in m..(m + 3) \/ LedSize(h, c, gap) < m
  BY <1>4, <1>6, <1>8, <1>9 DEF TrimSize, CanSplit, HeaderSize
<1> QED
  BY <1>1, <1>8, <1>9, <1>10, <1>11

(* tlsf_realloc into the next block                                         *)
Grown(h, b, n) == IF n > Size(h, b) THEN MarkAsUsed(MergeNext(h, b), b) ELSE h
GrownSize(h, b, n) == IF n > Size(h, b) THEN MergeSize(h, b) ELSE Size(h, b)
LEMMA GrownIs ==
    ASSUME PoolIndexed, NEW h, NEW B, NEW U, Good(h, B, {}, U), NEW b \in U,
           NEW n \in Nat, n >= MinSize, NEW g, g = TrimUsed(Grown(h, b, n), b, n)
    PROVE  \E C : /\ Good(g, C, {}, U) /\ Kept(g, h, U \ {b})
                  /\ Size(g, b) = TrimSize(Grown(h, b, n), b, n)
                  /\ Size(Grown(h, b, n), b) = GrownSize(h, b, n)
<1> DEFINE V == U \ {b}
<1>1. Good(h, B, {b}, V) /\ ~Is(h, b, "free") /\ ~Is(h, NextOf(h, b), "prevFree")
  BY Taking
<1>2. PICK h1 : h1 = Grown(h, b, n)
  OBVIOUS
<1> HIDE DEF V
<1>3. \E C : /\ Good(h1, C, {b}, V) /\ Kept(h1, h, V)
             /\ ~Is(h1, b, "free") /\ ~Is(h1, NextOf(h1, b), "prevFree")
             /\ Size(h1, b) = GrownSize(h, b, n)
  <2>1. CASE n > Size(h, b)
    <3>1. PICK g1 : g1 = MergeNext(h, b)
      OBVIOUS
    <3>2. PICK C : /\ Good(g1, C, {b}, V) /\ Kept(g1, h, V) /\ Size(g1, b) = MergeSize(h, b)
      BY <1>1, <3>1, MergeNextIs
    <3>3. h1 = MarkAsUsed(g1, b)
      BY <1>2, <2>1, <3>1 DEF Grown
    <3>4. /\ Good(h1, C, {b}, V) /\ Using(h1, g1, b, NextOf(g1, b))
          /\ \A w \in Words : NextOf(h1, w) = NextOf(g1, w)
      BY <3>2, <3>3, GoodUsed
    <3>5. b \in Words /\ V \subseteq Words
      BY <3>4, PlaceOf
    <3>6. ~Is(h1, b, "free") /\ ~Is(h1, NextOf(h1, b), "prevFree") /\ Size(h1, b) = Size(g1, b)
      BY <3>4, <3>5 DEF Using, SameSizes
    <3>7. Kept(h1, h, V)
      BY <3>2, <3>4, <3>5 DEF Kept, Using, SameSizes
    <3> QED
      BY <2>1, <3>2, <3>4, <3>6, <3>7 DEF GrownSize
  <2>2. CASE ~(n > Size(h, b))
    <3>1. h1 = h
      BY <1>2, <2>2 DEF Grown
    <3>2. Kept(h1, h, V)
      BY <3>1 DEF Kept
    <3> QED
      BY <1>1, <2>2, <3>1, <3>2 DEF GrownSize
  <2> QED
    BY <2>1, <2>2
<1>4. PICK D : /\ Good(h1, D, {b}, V) /\ Kept(h1, h, V)
               /\ ~Is(h1, b, "free") /\ ~Is(h1, NextOf(h1, b), "prevFree")
  BY <1>3
<1>5. g = TrimUsed(h1, b, n)
  BY <1>2
<1>6. PICK C : /\ Good(g, C, {}, V \cup {b}) /\ Kept(g, h1, V) /\ Size(g, b) = TrimSize(h1, b, n)
  <2>1. \E C : /\ Good(TrimUsed(h1, b, n), C, {}, V \cup {b})
               /\ Kept(TrimUsed(h1, b, n), h1, V)
               /\ Size(TrimUsed(h1, b, n), b) = TrimSize(h1, b, n)
    BY <1>4, TrimUsedIs
  <2> QED
    BY <1>5, <2>1
<1>7. V \cup {b} = U
  BY DEF V
<1>8. Kept(g, h, V)
  BY <1>4, <1>6 DEF Kept
<1> QED
  BY <1>2, <1>3, <1>6, <1>7, <1>8 DEF V

(* tlsf_create_with_pool                                                    *)
LEMMA AddPoolIs ==
    ASSUME PoolIndexed
    PROVE  Good(AddPool(Empty), {0}, {}, {})
<1>0. /\ PoolWords \in Nat /\ PoolWords >= 5 /\ PoolWords - 2 \in Nat /\ 0 \in Words
      /\ Sentinel \in Words /\ Sentinel # 0 /\ Sentinel \in Nat /\ 0 \in Nat
      /\ PoolWords - 2 < Pow2[FLMax] /\ Sentinel = 0 + 1 + (PoolWords - 2)
  BY PoolIs DEF Sentinel, Words, PoolIndexed
<1>1. PICK e : e = Empty
  OBVIOUS
<1>2. e \in Heaps /\ \A w \in Words : Size(e, w) = 0
  <2>1. Junk \in Header /\ PoolWords \in 0..PoolWords
    BY <1>0 DEF Junk, Header
  <2>2. <<>> \in Seq(Words)
    OBVIOUS
  <2>3. e \in Heaps
    BY <1>1, <2>1, <2>2 DEF Heaps, Empty, Words
  <2>4. e.hdr = [w \in Words |-> Junk]
    BY <1>1 DEF Empty, Words
  <2> QED
    BY <2>3, <2>4 DEF Size, Junk
<1>3. /\ \A f \in 0..(FLCount - 1) : e.sl[f] = {} /\ f \notin e.fl
      /\ \A f \in 0..(FLCount - 1), s \in 0..(SmallSize - 1) : e.list[f][s] = <<>>
  BY <1>1 DEF Empty
<1>4. PICK tt \in BOOLEAN, ff \in BOOLEAN : tt = TRUE /\ ff = FALSE
  OBVIOUS
<1>5. PICK a : a = SetSize(e, 0, PoolWords - 2)
  OBVIOUS
<1>6. /\ a \in Heaps /\ Size(a, 0) = PoolWords - 2 /\ SameSizes(a, e, Words \ {0}) /\ SameLists(a, e)
  BY <1>0, <1>2, <1>5, SetSizeIs
<1>7. PICK b : b = Mark(a, 0, "free", tt)
  OBVIOUS
<1>8. /\ b \in Heaps /\ (Is(b, 0, "free") <=> tt) /\ SameSizes(b, a, Words) /\ SameLists(b, a)
  BY <1>0, <1>6, <1>7, MarkFreeIs
<1>9. PICK c : c = Mark(b, 0, "prevFree", ff)
  OBVIOUS
<1>10. /\ c \in Heaps /\ (Is(c, 0, "prevFree") <=> ff) /\ SameSizes(c, b, Words) /\ SameLists(c, b)
       /\ SameFlags(c, b, "free", Words)
  BY <1>0, <1>8, <1>9, MarkPrevIs
<1>11. /\ Size(c, 0) = PoolWords - 2 /\ \A w \in Words \ {0} : Size(c, w) = 0
       /\ SameLists(c, e)
  BY <1>0, <1>2, <1>6, <1>8, <1>10 DEF SameSizes, SameLists
<1>12. PICK i \in Index : i = MappingInsert(PoolWords - 2)
  BY <1>0, MappingIn
<1>13. PICK d : d = InsertFreeBlock(c, 0, i)
  OBVIOUS
<1>14. d = BlockInsert(c, 0)
  BY <1>11, <1>12, <1>13 DEF BlockInsert
<1>15. i.fl \in 0..(FLCount - 1) /\ i.sl \in 0..(SmallSize - 1) /\ i = [fl |-> i.fl, sl |-> i.sl]
  BY DEF Index
<1>16. /\ c.list[i.fl][i.sl] = <<>> /\ 0 \notin Range(c.list[i.fl][i.sl])
       /\ IsInjective(c.list[i.fl][i.sl]) /\ Range(c.list[i.fl][i.sl]) = {}
  BY <1>3, <1>11, <1>15 DEF SameLists, IsInjective, Range
<1>17. /\ d \in Heaps /\ d.hdr = c.hdr /\ d.prev = c.prev
       /\ IsInjective(d.list[i.fl][i.sl])
       /\ Range(d.list[i.fl][i.sl]) = Range(c.list[i.fl][i.sl]) \cup {0}
       /\ \A f \in 0..(FLCount - 1), s \in 0..(SmallSize - 1) :
              f # i.fl \/ s # i.sl =>
                  d.list[f][s] = c.list[f][s] /\ (s \in d.sl[f] <=> s \in c.sl[f])
       /\ i.sl \in d.sl[i.fl]
       /\ \A f \in 0..(FLCount - 1) : f \in d.fl <=> f \in c.fl \/ f = i.fl
  BY <1>0, <1>10, <1>13, <1>16, InsertIs
<1>18. /\ Size(d, 0) = PoolWords - 2 /\ NextOf(d, 0) = Sentinel /\ \A w \in Words \ {0} : Size(d, w) = 0
       /\ Is(d, 0, "free") /\ ~Is(d, 0, "prevFree")
  <2>1. /\ Size(d, 0) = PoolWords - 2 /\ \A w \in Words \ {0} : Size(d, w) = 0
    BY <1>11, <1>17 DEF Size
  <2>2. Is(c, 0, "free") <=> Is(b, 0, "free")
    BY <1>0, <1>10 DEF SameFlags
  <2>3. Is(d, 0, "free") <=> Is(c, 0, "free")
    BY <1>17 DEF Is
  <2>4. Is(d, 0, "prevFree") <=> Is(c, 0, "prevFree")
    BY <1>17 DEF Is
  <2>5. Is(d, 0, "free")
    BY <1>4, <1>8, <2>2, <2>3
  <2>6. ~Is(d, 0, "prevFree")
    BY <1>4, <1>10, <2>4
  <2>7. NextOf(d, 0) = Sentinel
    BY <1>0, <2>1 DEF NextOf
  <2> QED
    BY <2>1, <2>5, <2>6, <2>7
<1>19. PICK l : l = LinkNext(d, 0)
  OBVIOUS
<1>20. /\ l \in Heaps /\ l.prev[Sentinel] = 0 /\ SameSizes(l, d, Words) /\ SameLists(l, d)
       /\ SameFlags(l, d, "free", Words) /\ SameFlags(l, d, "prevFree", Words)
  <2>1. NextOf(d, 0) \in Words
    BY <1>0, <1>18
  <2>2. /\ l \in Heaps /\ l.prev[NextOf(d, 0)] = 0 /\ SameSizes(l, d, Words) /\ SameLists(l, d)
        /\ SameFlags(l, d, "free", Words) /\ SameFlags(l, d, "prevFree", Words)
    BY <1>0, <1>17, <1>19, <2>1, LinkNextIs
  <2> QED
    BY <1>18, <2>2
<1>21. Size(l, 0) = PoolWords - 2 /\ NextOf(l, 0) = Sentinel
  BY <1>0, <1>18, <1>20 DEF SameSizes, NextOf
<1>22. PICK m : m = SetSize(l, Sentinel, 0)
  OBVIOUS
<1>23. /\ m \in Heaps /\ Size(m, Sentinel) = 0 /\ SameSizes(m, l, Words \ {Sentinel}) /\ SameLists(m, l)
       /\ SameFlags(m, l, "free", Words) /\ SameFlags(m, l, "prevFree", Words) /\ SamePrev(m, l, Words)
  BY <1>0, <1>20, <1>22, SetSizeIs
<1>24. PICK o : o = Mark(m, Sentinel, "free", ff)
  OBVIOUS
<1>25. /\ o \in Heaps /\ (Is(o, Sentinel, "free") <=> ff) /\ SameSizes(o, m, Words) /\ SameLists(o, m)
       /\ SameFlags(o, m, "free", Words \ {Sentinel}) /\ SameFlags(o, m, "prevFree", Words)
       /\ SamePrev(o, m, Words)
  BY <1>0, <1>23, <1>24, MarkFreeIs
<1>26. PICK g : g = Mark(o, Sentinel, "prevFree", tt)
  OBVIOUS
<1>27. /\ g \in Heaps /\ (Is(g, Sentinel, "prevFree") <=> tt) /\ SameSizes(g, o, Words) /\ SameLists(g, o)
       /\ SameFlags(g, o, "free", Words) /\ SameFlags(g, o, "prevFree", Words \ {Sentinel})
       /\ SamePrev(g, o, Words)
  BY <1>0, <1>25, <1>26, MarkPrevIs
<1>28. g = AddPool(Empty)
  BY <1>1, <1>4, <1>5, <1>7, <1>9, <1>14, <1>19, <1>21, <1>22, <1>24, <1>26 DEF AddPool
<1>29. /\ Size(g, 0) = PoolWords - 2 /\ NextOf(g, 0) = Sentinel
       /\ \A w \in Words \ {0} : Size(g, w) = 0 /\ NextOf(g, w) = w + 1
  <2>1. Size(g, 0) = PoolWords - 2
    BY <1>0, <1>21, <1>23, <1>25, <1>27 DEF SameSizes
  <2>2. \A w \in Words \ {0} : Size(g, w) = 0
    BY <1>18, <1>20, <1>23, <1>25, <1>27 DEF SameSizes
  <2>3. \A w \in Words : w \in Nat
    BY PoolIs
  <2> QED
    BY <1>0, <2>1, <2>2, <2>3 DEF NextOf
<1>30. g.prev[Sentinel] = 0 /\ SameLists(g, d)
  BY <1>0, <1>20, <1>23, <1>25, <1>27 DEF SamePrev, SameLists
<1>31. Is(g, 0, "free") /\ ~Is(g, 0, "prevFree")
  <2>1. Is(g, 0, "free") <=> Is(d, 0, "free")
    BY <1>0, <1>20, <1>23, <1>25, <1>27 DEF SameFlags
  <2>2. Is(g, 0, "prevFree") <=> Is(d, 0, "prevFree")
    BY <1>0, <1>20, <1>23, <1>25, <1>27 DEF SameFlags
  <2> QED
    BY <1>18, <2>1, <2>2
<1>32. ~Is(g, Sentinel, "free") /\ Is(g, Sentinel, "prevFree")
  <2>1. Is(g, Sentinel, "free") <=> Is(o, Sentinel, "free")
    BY <1>0, <1>27 DEF SameFlags
  <2>2. ~Is(g, Sentinel, "free")
    BY <1>4, <1>25, <2>1
  <2> QED
    BY <1>4, <1>27, <2>2
<1>33. Tiles(g, {0})
  <2>1. \A w \in Words : NextOf(g, w) <= PoolWords
    <3>1. Sentinel <= PoolWords
      BY <1>0
    <3>2. \A w \in Words : w + 1 <= PoolWords
      BY <1>0 DEF Words
    <3> QED
      BY <1>29, <3>1, <3>2
  <2>2. Size(g, Sentinel) = 0
    BY <1>0, <1>29
  <2>3. {0} \subseteq 0..(PoolWords - 2) /\ PoolWords - 2 >= MinSize
    BY <1>0 DEF MinSize
  <2> QED
    BY <1>0, <1>29, <2>1, <2>2, <2>3 DEF Tiles
<1>34. FreeOf(g, {0}, {}) = {0} /\ UsedOf(g, {0}, {}) = {}
  BY <1>31 DEF FreeOf, UsedOf
<1>35. Marked(g, {0}, {})
  <2>1. \A x \in {0} \ {} : Is(g, NextOf(g, x), "prevFree") <=> Is(g, x, "free")
    BY <1>29, <1>31, <1>32
  <2> QED
    BY <1>0, <1>29, <1>30, <1>31, <1>32, <1>34, <2>1 DEF Marked
<1>36. Listed(g, {0})
  <2>1. \A f, s : InList(g, {0}, f, s) = IF i = [fl |-> f, sl |-> s] THEN {0} ELSE {}
    BY <1>12, <1>29 DEF InList
  <2>2. \A f, s : InList(g, {0}, f, s) = IF i.fl = f /\ i.sl = s THEN {0} ELSE {}
    BY <1>15, <2>1
  <2>3. ASSUME NEW f \in 0..(FLCount - 1), NEW s \in 0..(SmallSize - 1)
        PROVE  /\ IsInjective(g.list[f][s]) /\ Range(g.list[f][s]) = InList(g, {0}, f, s)
               /\ s \in g.sl[f] <=> InList(g, {0}, f, s) # {}
    <3>1. CASE i.fl = f /\ i.sl = s
      <4>1. Range(d.list[f][s]) = {0} /\ IsInjective(d.list[f][s]) /\ s \in d.sl[f]
        BY <1>16, <1>17, <3>1
      <4> QED
        BY <1>30, <2>2, <3>1, <4>1 DEF SameLists
    <3>2. CASE f # i.fl \/ s # i.sl
      <4>1. d.list[f][s] = <<>> /\ s \notin d.sl[f]
        BY <1>3, <1>11, <1>17, <3>2 DEF SameLists
      <4>2. IsInjective(d.list[f][s]) /\ Range(d.list[f][s]) = {}
        BY <4>1 DEF IsInjective, Range
      <4> QED
        BY <1>30, <2>2, <3>2, <4>1, <4>2 DEF SameLists
    <3> QED
      BY <3>1, <3>2
  <2>4. ASSUME NEW f \in 0..(FLCount - 1) PROVE f \in g.fl <=> g.sl[f] # {}
    <3>1. f \in d.fl <=> f = i.fl
      BY <1>3, <1>11, <1>17 DEF SameLists
    <3>2. \A s \in 0..(SmallSize - 1) : s \in d.sl[f] <=> (f = i.fl /\ s = i.sl)
      BY <1>3, <1>11, <1>17 DEF SameLists
    <3>3. d.sl[f] \subseteq 0..(SmallSize - 1)
      BY <1>17 DEF Heaps
    <3>4. f \in d.fl <=> d.sl[f] # {}
      BY <1>15, <3>1, <3>2, <3>3
    <3> QED
      BY <1>30, <3>4 DEF SameLists
  <2> QED
    BY <2>3, <2>4 DEF Listed
<1> QED
  BY <1>27, <1>28, <1>33, <1>34, <1>35, <1>36 DEF Good

-----------------------------------------------------------------------------
(* The heap of KernelMem                                                    *)

(* The heap between two calls: some blocks tile the pool, and the used ones *)
(* are those whose payloads callers hold.                                   *)
Sound(h, P) == \E B, U : Good(h, B, {}, U) /\ P = {b + 1 : b \in U}

(* The inductive invariant of the heap.                                     *)
HeapInv == IF user = "boot" THEN heap = Empty /\ ptrs = {} ELSE Sound(heap, ptrs)

(* Used blocks are words of the pool.                                       *)
LEMMA UsedWords ==
    ASSUME NEW h, NEW B, NEW U, Good(h, B, {}, U)
    PROVE  U \subseteq B /\ U \subseteq Words /\ U \in SUBSET Nat /\ B \subseteq Words
<1>1. h \in Heaps /\ Tiles(h, B) /\ U = UsedOf(h, B, {})
  BY DEF Good
<1>2. B \subseteq Words /\ B \in SUBSET Nat
  BY <1>1, TileFacts
<1> QED
  BY <1>1, <1>2 DEF UsedOf

(* The requests that callers make are numbers.                              *)
LEMMA RequestIs ==
    ASSUME PoolIndexed, NEW n \in Sizes
    PROVE  n \in Nat /\ Adjusted(Adjust(n, 1)) /\ Adjust(n, 1) \in Nat
<1>1. n \in Nat /\ 1 \in Nat \ {0}
  BY TlsfAssumption, Pow2Is, ShiftsAre
<1> QED
  BY <1>1, AdjustIs

(* kmalloc                                                                  *)
LEMMA MallocKeeps ==
    ASSUME PoolIndexed, Sound(heap, ptrs), NEW n \in Sizes, Malloc(n)
    PROVE  Sound(heap', ptrs')
<1>1. PICK B, U : Good(heap, B, {}, U) /\ ptrs = {b + 1 : b \in U}
  BY DEF Sound
<1>2. PICK z : z = Adjust(n, 1) /\ Adjusted(z)
  BY RequestIs
<1>3. CASE UNCHANGED <<heap, ptrs>>
  BY <1>1, <1>3 DEF Sound
<1>4. ASSUME NEW f \in LocateFree(heap, z),
             heap' = Overwrite(PrepareUsed(RemoveFreeBlock(heap, f.block, f.at), f.block, z)),
             ptrs' = ptrs \cup {f.block + 1}
      PROVE  Sound(heap', ptrs')
  <2>1. PICK g, b : /\ g = PrepareUsed(RemoveFreeBlock(heap, f.block, f.at), f.block, z)
                    /\ b = f.block
    OBVIOUS
  <2>2. PICK C : Good(g, C, {}, U \cup {b})
    BY <1>1, <1>2, <2>1, MallocIs
  <2>3. Good(Overwrite(g), C, {}, U \cup {b})
    BY <2>2, OverwriteIs
  <2>4. ptrs' = {c + 1 : c \in U \cup {b}}
    BY <1>1, <1>4, <2>1
  <2> QED
    BY <1>4, <2>1, <2>3, <2>4 DEF Sound
<1> QED
  BY <1>2, <1>3, <1>4 DEF Malloc

(* tlsf_memalign                                                            *)
LEMMA MemalignKeeps ==
    ASSUME PoolIndexed, Sound(heap, ptrs), NEW n \in Sizes, NEW a \in Aligns, Memalign(n, a)
    PROVE  Sound(heap', ptrs')
<1>1. PICK B, U : Good(heap, B, {}, U) /\ ptrs = {b + 1 : b \in U}
  BY DEF Sound
<1>2. n \in Nat /\ a \in Nat \ {0} /\ Adjusted(Adjust(n, 1))
  BY RequestIs, TlsfAssumption
<1>3. PICK z, m : z = Asked(n, a) /\ m = Adjust(n, 1)
  OBVIOUS
<1>4. Adjusted(z) /\ (z # 0 => m \in Nat /\ m >= MinSize)
  BY <1>2, <1>3, AskedIs DEF Adjusted
<1>5. CASE UNCHANGED <<heap, ptrs>>
  BY <1>1, <1>5 DEF Sound
<1> DEFINE G1(f) == RemoveFreeBlock(heap, f.block, f.at)
           Gp(f) == Gap(f.block + 1, a)
           At(f) == LedTo(G1(f), f.block, Gp(f))
<1>6. ASSUME NEW f \in LocateFree(heap, z),
             heap' = Overwrite(PrepareUsed(Led(G1(f), f.block, Gp(f)), At(f), m)),
             ptrs' = ptrs \cup {At(f) + 1}
      PROVE  Sound(heap', ptrs')
  <2>1. PICK g1, gap, b : g1 = G1(f) /\ gap = Gp(f) /\ b = LedTo(g1, f.block, gap)
    OBVIOUS
  <2>2. PICK g : g = PrepareUsed(Led(g1, f.block, gap), b, m)
    OBVIOUS
  <2>3. z # 0 /\ f.block \in Words
    <3>1. z # 0
      BY DEF LocateFree
    <3>2. f.block \in FreeOf(heap, B, {})
      BY <1>1, <1>4, LocateIs
    <3> QED
      BY <1>1, <3>1, <3>2, UsedWords DEF FreeOf
  <2>4. f.block + 1 \in Nat
    <3>1. PICK c \in Nat : c = f.block
      BY <2>3, PoolIs
    <3> QED
      BY <3>1
  <2>5. gap \in Nat /\ (gap # 0 => gap >= HeaderSize)
    BY <1>2, <2>1, <2>4, GapIs
  <2>6. g1 = RemoveFreeBlock(heap, f.block, f.at)
    BY <2>1
  <2>7. m \in Nat /\ m >= MinSize
    BY <1>4, <2>3
  <2>8. PICK C : Good(g, C, {}, U \cup {b})
    BY <1>1, <1>4, <2>1, <2>2, <2>5, <2>6, <2>7, MemalignIs
  <2>9. Good(Overwrite(g), C, {}, U \cup {b})
    BY <2>8, OverwriteIs
  <2>10. ptrs' = {c + 1 : c \in U \cup {b}}
    BY <1>1, <1>6, <2>1
  <2>11. heap' = Overwrite(g)
    BY <1>6, <2>1, <2>2
  <2> QED
    BY <2>9, <2>10, <2>11 DEF Sound
<1> QED
  <2>1. ASSUME NEW f \in LocateFree(heap, z),
               LET h   == RemoveFreeBlock(heap, f.block, f.at)
                   gap == Gap(f.block + 1, a)
                   cut == gap # 0 /\ CanSplit(h, f.block, gap)
                   b   == IF cut THEN Rest(f.block, gap - 1) ELSE f.block
                   h1  == IF cut THEN TrimFreeLeading(h, f.block, gap) ELSE h
               IN  /\ heap' = Overwrite(PrepareUsed(h1, b, m))
                   /\ ptrs' = ptrs \cup {b + 1}
        PROVE  Sound(heap', ptrs')
    <3>1. /\ heap' = Overwrite(PrepareUsed(Led(G1(f), f.block, Gp(f)), At(f), m))
          /\ ptrs' = ptrs \cup {At(f) + 1}
      BY <2>1 DEF Led, LedTo, Leads
    <3> HIDE DEF G1, Gp, At
    <3> QED
      BY <1>6, <3>1
  <2> QED
    BY <1>3, <1>5, <2>1 DEF Memalign

(* The payloads without one that is given back.                             *)
LEMMA PtrsWithout ==
    ASSUME NEW U \in SUBSET Nat, NEW p \in {b + 1 : b \in U}
    PROVE  /\ p - 1 \in U /\ p = (p - 1) + 1
           /\ {b + 1 : b \in U} \ {p} = {b + 1 : b \in U \ {p - 1}}
<1>1. PICK c \in U : p = c + 1
  OBVIOUS
<1>2. c \in Nat /\ p - 1 = c
  BY <1>1
<1>3. \A b \in U : b + 1 = p <=> b = c
  BY <1>1, <1>2
<1> QED
  BY <1>1, <1>2, <1>3

(* kfree                                                                    *)
LEMMA FreeKeeps ==
    ASSUME PoolIndexed, Sound(heap, ptrs), NEW p \in ptrs, Free(p)
    PROVE  Sound(heap', ptrs')
<1>1. PICK B, U : Good(heap, B, {}, U) /\ ptrs = {b + 1 : b \in U}
  BY DEF Sound
<1>2. p - 1 \in U /\ ptrs \ {p} = {b + 1 : b \in U \ {p - 1}}
  BY <1>1, UsedWords, PtrsWithout
<1>3. PICK C : Good(Freed(heap, p), C, {}, U \ {p - 1})
  BY <1>1, <1>2, FreedIs
<1>4. Good(Overwrite(Freed(heap, p)), C, {}, U \ {p - 1})
  BY <1>3, OverwriteIs
<1> QED
  BY <1>2, <1>4 DEF Sound, Free

(* tlsf_realloc to another place                                            *)
LEMMA MoveKeeps ==
    ASSUME PoolIndexed, Sound(heap, ptrs), NEW p \in ptrs, NEW n \in Sizes, ReallocMove(p, n)
    PROVE  Sound(heap', ptrs')
<1>1. PICK B, U : Good(heap, B, {}, U) /\ ptrs = {b + 1 : b \in U}
  BY DEF Sound
<1>2. PICK z : z = Adjust(n, 1) /\ Adjusted(z)
  BY RequestIs
<1>3. CASE UNCHANGED <<heap, ptrs>>
  BY <1>1, <1>3 DEF Sound
<1>4. p - 1 \in U /\ ptrs \ {p} = {b + 1 : b \in U \ {p - 1}}
  BY <1>1, UsedWords, PtrsWithout
<1>5. ASSUME NEW f \in LocateFree(heap, z),
             heap' = Overwrite(Freed(PrepareUsed(RemoveFreeBlock(heap, f.block, f.at), f.block, z), p)),
             ptrs' = (ptrs \ {p}) \cup {f.block + 1}
      PROVE  Sound(heap', ptrs')
  <2>1. PICK g, b : /\ g = PrepareUsed(RemoveFreeBlock(heap, f.block, f.at), f.block, z)
                    /\ b = f.block
    OBVIOUS
  <2>2. PICK C : Good(g, C, {}, U \cup {b}) /\ b \notin U
    BY <1>1, <1>2, <2>1, MallocIs
  <2>3. PICK V : V = U \cup {b}
    OBVIOUS
  <2>4. PICK D : Good(Freed(g, p), D, {}, V \ {p - 1})
    BY <1>4, <2>2, <2>3, FreedIs
  <2>5. Good(Overwrite(Freed(g, p)), D, {}, V \ {p - 1})
    BY <2>4, OverwriteIs
  <2>6. V \ {p - 1} = (U \ {p - 1}) \cup {b}
    BY <1>4, <2>2, <2>3
  <2>7. ptrs' = {c + 1 : c \in V \ {p - 1}}
    BY <1>4, <1>5, <2>1, <2>6
  <2> QED
    BY <1>5, <2>1, <2>5, <2>7 DEF Sound
<1> QED
  BY <1>2, <1>3, <1>5 DEF ReallocMove

(* tlsf_realloc in place                                                    *)
LEMMA InPlaceKeeps ==
    ASSUME PoolIndexed, Sound(heap, ptrs), NEW p \in ptrs, NEW n \in Sizes,
           Adjust(n, 1) # 0, ReallocInPlace(p, n)
    PROVE  Sound(heap', ptrs')
<1>1. PICK B, U : Good(heap, B, {}, U) /\ ptrs = {b + 1 : b \in U}
  BY DEF Sound
<1>2. PICK z \in Nat : z = Adjust(n, 1) /\ z >= MinSize
  BY RequestIs DEF Adjusted
<1>3. PICK b \in U : b = p - 1
  BY <1>1, UsedWords, PtrsWithout
<1>4. PICK g : g = TrimUsed(Grown(heap, b, z), b, z)
  OBVIOUS
<1>5. PICK C : Good(g, C, {}, U)
  BY <1>1, <1>2, <1>3, <1>4, GrownIs
<1>6. Good(Overwrite(g), C, {}, U)
  BY <1>5, OverwriteIs
<1>7. heap' = Overwrite(g) /\ ptrs' = ptrs
  BY <1>2, <1>3, <1>4 DEF ReallocInPlace, Grown
<1> QED
  BY <1>1, <1>6, <1>7 DEF Sound

(* A request that is not 0 and below block_size_max is not adjusted to 0.   *)
LEMMA AdjustServes ==
    ASSUME NEW n \in Sizes, n # 0
    PROVE  Adjust(n, 1) # 0
<1>1. n \in Nat /\ n < Pow2[FLMax]
  BY TlsfAssumption, Pow2Is, ShiftsAre
<1>2. RoundUp(n, 1) = n
  BY <1>1 DEF RoundUp
<1> QED
  BY <1>1, <1>2 DEF Adjust, Bigger, MinSize

(* Whatever callers ask of the heap, it is sound again.                     *)
LEMMA TlsfKeeps ==
    ASSUME PoolIndexed, Sound(heap, ptrs), TlsfNext
    PROVE  Sound(heap', ptrs')
<1>1. ASSUME NEW p \in ptrs, NEW n \in Sizes, Realloc(p, n) PROVE Sound(heap', ptrs')
  <2>1. CASE Free(p)
    BY <2>1, FreeKeeps
  <2>2. CASE ReallocMove(p, n)
    BY <2>2, MoveKeeps
  <2>3. CASE n # 0 /\ ReallocInPlace(p, n)
    BY <2>3, AdjustServes, InPlaceKeeps
  <2> QED
    BY <1>1, <2>1, <2>2, <2>3 DEF Realloc
<1> QED
  BY <1>1, MallocKeeps, MemalignKeeps, FreeKeeps DEF TlsfNext

(* A step keeps the heap's invariant; init_kmalloc makes the pool.          *)
LEMMA HeapStep ==
    ASSUME PoolIndexed, HeapInv, [KmNext]_kmVars
    PROVE  HeapInv'
<1>1. CASE InitKmalloc
  <2>1. heap = Empty /\ ptrs = {} /\ heap' = Overwrite(AddPool(Empty)) /\ ptrs' = ptrs /\ user' # "boot"
    BY <1>1 DEF InitKmalloc, HeapInv
  <2>2. Good(Overwrite(AddPool(Empty)), {0}, {}, {})
    BY AddPoolIs, OverwriteIs
  <2>3. ptrs' = {b + 1 : b \in {}}
    BY <2>1
  <2>4. Sound(heap', ptrs')
    BY <2>1, <2>2, <2>3 DEF Sound
  <2> QED
    BY <2>1, <2>4 DEF HeapInv
<1>2. CASE HeapCall
  <2>1. user # "boot" /\ user' = user /\ TlsfNext
    BY <1>2 DEF HeapCall
  <2>2. Sound(heap', ptrs')
    BY <2>1, TlsfKeeps DEF HeapInv
  <2> QED
    BY <2>1, <2>2 DEF HeapInv
<1>3. CASE UNCHANGED <<tlsfVars, user>>
  BY <1>3 DEF HeapInv, tlsfVars
<1> QED
  BY <1>1, <1>2, <1>3 DEF KmNext, PageCall, kmVars

(* What a sound heap gives tlsf_check and tlsf_check_pool.                  *)
LEMMA SoundIntegrity ==
    ASSUME PoolIndexed, Sound(heap, ptrs)
    PROVE  HeapIntegrity
<1>1. PICK B, U : Good(heap, B, {}, U) /\ ptrs = {b + 1 : b \in U}
  BY DEF Sound
<1> DEFINE F == FreeOf(heap, B, {})
           free == {b \in B : Is(heap, b, "free")}
           listed == {i \in (DOMAIN heap.list) \X (0..(SmallSize - 1)) : heap.list[i[1]][i[2]] # <<>>}
<1>2. /\ heap \in Heaps /\ Tiles(heap, B) /\ Marked(heap, B, {}) /\ Listed(heap, F)
      /\ U = UsedOf(heap, B, {})
  BY <1>1 DEF Good
<1>3. Blocks(heap) = B
  BY <1>2, BlocksAre
<1>4. free = F /\ U = B \ free /\ F \subseteq B
  BY <1>2 DEF FreeOf, UsedOf
<1>5. /\ DOMAIN heap.list = 0..(FLCount - 1)
      /\ \A f \in 0..(FLCount - 1) : DOMAIN heap.list[f] = 0..(SmallSize - 1)
      /\ \A f \in 0..(FLCount - 1), s \in 0..(SmallSize - 1) : heap.list[f][s] \in Seq(Words)
      /\ \A f \in 0..(FLCount - 1) : heap.sl[f] \subseteq 0..(SmallSize - 1)
  BY <1>2 DEF Heaps
<1>6. ASSUME NEW f \in 0..(FLCount - 1), NEW s \in 0..(SmallSize - 1)
      PROVE  /\ Range(heap.list[f][s]) = InList(heap, F, f, s)
             /\ heap.list[f][s] # <<>> <=> InList(heap, F, f, s) # {}
             /\ s \in heap.sl[f] <=> InList(heap, F, f, s) # {}
             /\ IsInjective(heap.list[f][s])
  <2>1. /\ Range(heap.list[f][s]) = InList(heap, F, f, s)
        /\ s \in heap.sl[f] <=> InList(heap, F, f, s) # {}
        /\ IsInjective(heap.list[f][s])
    BY <1>2 DEF Listed
  <2>2. PICK q \in Seq(Words) : q = heap.list[f][s]
    BY <1>5
  <2>3. q # <<>> <=> Range(q) # {}
    <3>1. CASE q = <<>>
      BY <3>1 DEF Range
    <3>2. CASE q # <<>>
      <4>1. 1 \in DOMAIN q
        BY <3>2
      <4> QED
        BY <3>2, <4>1 DEF Range
    <3> QED
      BY <3>1, <3>2
  <2> QED
    BY <2>1, <2>2, <2>3
<1> HIDE DEF F, free
<1>7. TlsfCheck(heap)
  <2> SUFFICES ASSUME NEW f \in 0..(FLCount - 1)
               PROVE  /\ heap.sl[f] = {s \in 0..(SmallSize - 1) : heap.list[f][s] # <<>>}
                      /\ f \in heap.fl <=> heap.sl[f] # {}
                      /\ \A s \in 0..(SmallSize - 1) : \A b \in Range(heap.list[f][s]) :
                            /\ Is(heap, b, "free") /\ ~Is(heap, b, "prevFree")
                            /\ ~Is(heap, NextOf(heap, b), "free") /\ Is(heap, NextOf(heap, b), "prevFree")
                            /\ Size(heap, b) >= MinSize
                            /\ MappingInsert(Size(heap, b)) = [fl |-> f, sl |-> s]
    BY <1>5 DEF TlsfCheck
  <2>1. heap.sl[f] = {s \in 0..(SmallSize - 1) : heap.list[f][s] # <<>>}
    BY <1>5, <1>6
  <2>2. f \in heap.fl <=> heap.sl[f] # {}
    BY <1>2 DEF Listed
  <2>3. ASSUME NEW s \in 0..(SmallSize - 1), NEW b \in Range(heap.list[f][s])
        PROVE  /\ Is(heap, b, "free") /\ ~Is(heap, b, "prevFree")
               /\ ~Is(heap, NextOf(heap, b), "free") /\ Is(heap, NextOf(heap, b), "prevFree")
               /\ Size(heap, b) >= MinSize
               /\ MappingInsert(Size(heap, b)) = [fl |-> f, sl |-> s]
    <3>1. b \in F /\ MappingInsert(Size(heap, b)) = [fl |-> f, sl |-> s]
      BY <1>6, <2>3 DEF InList
    <3>2. Size(heap, b) >= MinSize /\ Is(heap, b, "free") /\ b \in B
      BY <1>2, <1>4, <3>1 DEF Tiles, free
    <3>3. Alone(heap, b)
      BY <1>1, <3>1, FreeAlone DEF F
    <3>4. Is(heap, NextOf(heap, b), "prevFree")
      BY <1>2, <3>2 DEF Marked
    <3> QED
      BY <3>1, <3>2, <3>3, <3>4 DEF Alone
  <2> QED
    BY <2>1, <2>2, <2>3
<1>8. TlsfCheckPool(heap)
  BY <1>2, <1>3 DEF TlsfCheckPool, Marked
<1>9. \A b \in B : NextOf(heap, b) \in B \cup {PoolWords - 1}
  BY <1>2 DEF Tiles, Sentinel
<1>10. \A b \in free : heap.prev[NextOf(heap, b)] = b
  BY <1>2, <1>4 DEF Marked, F
<1>11. \A i \in listed : /\ i[1] \in 0..(FLCount - 1) /\ i[2] \in 0..(SmallSize - 1)
                         /\ heap.list[i[1]][i[2]] # <<>>
  BY <1>5
<1>12. free = UNION {Range(heap.list[i[1]][i[2]]) : i \in listed}
  <2>1. ASSUME NEW b \in free PROVE b \in UNION {Range(heap.list[i[1]][i[2]]) : i \in listed}
    <3>1. b \in F /\ b \in B
      BY <1>4
    <3>2. PICK f \in 0..(FLCount - 1), s \in 0..(SmallSize - 1) :
              MappingInsert(Size(heap, b)) = [fl |-> f, sl |-> s]
      BY <1>2, <3>1, BlockIndexed DEF Index
    <3>3. b \in Range(heap.list[f][s]) /\ heap.list[f][s] # <<>>
      BY <1>6, <3>1, <3>2 DEF InList
    <3>4. <<f, s>> \in listed
      BY <1>5, <3>3
    <3> QED
      BY <3>3, <3>4
  <2>2. ASSUME NEW i \in listed, NEW b \in Range(heap.list[i[1]][i[2]]) PROVE b \in free
    BY <1>4, <1>6, <1>11, <2>2 DEF InList
  <2> QED
    BY <2>1, <2>2
<1>13. \A i \in listed : IsInjective(heap.list[i[1]][i[2]])
  BY <1>6, <1>11
<1>14. ptrs = {b + 1 : b \in B \ free}
  BY <1>1, <1>4
<1> QED
  BY <1>3, <1>7, <1>8, <1>9, <1>10, <1>12, <1>13, <1>14 DEF HeapIntegrity, free

(* The invariant of the heap, from init_kmalloc on and before               *)
THEOREM HeapInductive ==
    ASSUME PoolIndexed
    PROVE  KmSpec => []HeapInv
<1>1. KmInit => HeapInv
  BY DEF KmInit, HeapInv
<1>2. HeapInv /\ [KmNext]_kmVars => HeapInv'
  BY HeapStep
<1> QED
  BY <1>1, <1>2, PTL DEF KmSpec

(* The kmalloc heap stays sound: for every pool shorter than                *)
(* block_size_max, every number of lists and every set of requests, after   *)
(* any sequence of tlsf_malloc, tlsf_memalign, tlsf_free and tlsf_realloc   *)
(* and whatever callers write into their payloads, the lists, bitmaps,      *)
(* marks and links agree and free neighbours have been merged.              *)
THEOREM HeapStaysSound ==
    ASSUME PoolIndexed
    PROVE  KmSpec => []HeapSound
<1>1. HeapInv => HeapSound
  BY SoundIntegrity DEF HeapInv, HeapSound
<1> QED
  BY <1>1, HeapInductive, PTL

-----------------------------------------------------------------------------
(* The heap implements its promise                                          *)

(* Sizes below block_size_max, and twice as much, have a first level.       *)
LEMMA ShortIs ==
    ASSUME NEW s \in Nat, s < Pow2[FLMax]
    PROVE  s < Pow2[FLMax + 2]
<1>1. FLMax \in 0..(FLMax + 2) /\ FLMax + 2 \in 0..(FLMax + 2)
  BY ShiftsAre
<1>2. Pow2[FLMax] <= Pow2[FLMax + 2] /\ Pow2[FLMax] \in Nat /\ Pow2[FLMax + 2] \in Nat
  BY <1>1, Pow2Grows, Pow2Is, ShiftsAre
<1> QED
  BY <1>2

(* A longer block is in no lower first level.                               *)
LEMMA FlsGrows ==
    ASSUME NEW s \in Nat, s # 0, NEW y \in Nat, y < Pow2[FLMax + 2], s <= y
    PROVE  Fls(s) <= Fls(y)
<1>0. FLMax + 2 \in 0..(FLMax + 2) /\ Pow2[FLMax + 2] \in Nat
  BY Pow2Is, ShiftsAre
<1>1. Fls(s) \in 0..(FLMax + 1) /\ Pow2[Fls(s)] <= s
  BY <1>0, FlsIs
<1>2. Fls(y) \in 0..(FLMax + 1) /\ y < Pow2[Fls(y) + 1]
  BY FlsIs
<1> SUFFICES ASSUME Fls(y) + 1 <= Fls(s) PROVE FALSE
  BY <1>1, <1>2, ShiftsAre
<1>3. Fls(y) + 1 \in 0..(FLMax + 2) /\ Fls(s) \in 0..(FLMax + 2)
  BY <1>1, <1>2, ShiftsAre
<1>4. Pow2[Fls(y) + 1] <= Pow2[Fls(s)] /\ Pow2[Fls(y) + 1] \in Nat /\ Pow2[Fls(s)] \in Nat
  BY <1>3, Pow2Grows, Pow2Is
<1> QED
  BY <1>1, <1>2, <1>4

(* The order in which search_suitable_block looks at the lists              *)
Below(i, j) == i.fl < j.fl \/ (i.fl = j.fl /\ i.sl < j.sl)

(* Where mapping_search rounds a request up to                              *)
Step(z) == Pow2[Fls(z) - SLLog]
LEMMA SearchAt ==
    ASSUME NEW z \in Nat, z # 0, z < Pow2[FLMax], z >= SmallSize,
           NEW d, d = Step(z), NEW y, y = z + d - 1
    PROVE  /\ d \in Nat \ {0} /\ y \in Nat /\ y >= z /\ y >= SmallSize /\ y < Pow2[FLMax + 2] /\ y # 0
           /\ Fls(z) \in SLLog..(FLMax + 1) /\ Fls(y) \in SLLog..(FLMax + 1) /\ Fls(z) <= Fls(y)
           /\ MappingSearch(z) = MappingInsert(y)
           /\ MappingInsert(y) = [fl |-> Fls(y) - SLLog + 1, sl |-> (y \div Step(y)) - SmallSize]
<1>0. /\ SmallSize \in Nat \ {0} /\ FLMax \in 0..(FLMax + 2) /\ FLMax + 2 \in 0..(FLMax + 2)
      /\ Pow2[FLMax + 2] = 2 * Pow2[FLMax + 1] /\ Pow2[FLMax + 1] = 2 * Pow2[FLMax]
      /\ Pow2[FLMax] \in Nat
  <2>1. FLMax \in 0..(FLMax + 1) /\ FLMax + 1 \in 0..(FLMax + 1) /\ (FLMax + 1) + 1 = FLMax + 2
    BY ShiftsAre
  <2> QED
    BY <2>1, Pow2Is, ShiftsAre DEF SmallSize
<1>1. d \in Nat \ {0} /\ SmallSize * d <= z /\ Fls(z) \in SLLog..(FLMax + 1)
  BY <1>0, FlsHigh DEF Step
<1>2. d <= SmallSize * d /\ SmallSize * d \in Nat
  BY <1>0, <1>1
<1>3. y \in Nat /\ y >= z /\ y >= SmallSize /\ y < Pow2[FLMax + 2] /\ y # 0
  BY <1>0, <1>1, <1>2
<1>4. Fls(y) \in SLLog..(FLMax + 1)
  BY <1>3, FlsHigh
<1>5. Fls(z) <= Fls(y)
  BY <1>3, FlsGrows
<1>6. MappingSearch(z) = MappingInsert(y)
  BY <1>0 DEF MappingSearch, Step
<1>7. MappingInsert(y) = [fl |-> Fls(y) - SLLog + 1, sl |-> (y \div Step(y)) - SmallSize]
  BY <1>0, <1>3 DEF MappingInsert, Step
<1> QED
  BY <1>1, <1>3, <1>4, <1>5, <1>6, <1>7

(* A quotient keeps order.                                                  *)
LEMMA QuotientAt ==
    ASSUME NEW n \in Nat, NEW d \in Nat \ {0}
    PROVE  /\ n \div d \in Nat /\ (n \div d) * d <= n /\ n < (n \div d) * d + d
           /\ \A q \in Nat : q * d <= n => q <= n \div d
<1>1. PICK k : k = n \div d
  OBVIOUS
<1>2. k \in Nat /\ k * d <= n /\ n < k * d + d
  BY <1>1
<1>3. ASSUME NEW q \in Nat, q * d <= n PROVE q <= k
  <2> SUFFICES ASSUME k + 1 <= q PROVE FALSE
    BY <1>2
  <2>1. (k + 1) * d <= q * d
    BY <1>2
  <2>2. (k + 1) * d = k * d + d
    BY <1>2
  <2>3. k * d \in Nat /\ q * d \in Nat
    BY <1>2
  <2> QED
    BY <1>2, <1>3, <2>1, <2>2, <2>3
<1> QED
  BY <1>1, <1>2, <1>3

(* No block in a list where the search begins, or in a later one, is        *)
(* shorter than the request.                                                *)
LEMMA SearchServes ==
    ASSUME NEW z \in Nat, z # 0, z < Pow2[FLMax], NEW s \in Nat, s < Pow2[FLMax], s < z
    PROVE  Below(MappingInsert(s), MappingSearch(z))
<1>0. SmallSize \in Nat \ {0} /\ SLLog \in Nat
  BY Pow2Is, ShiftsAre DEF SmallSize
<1>1. CASE z < SmallSize
  <2>1. MappingSearch(z) = [fl |-> 0, sl |-> z]
    BY <1>0, <1>1 DEF MappingSearch, MappingInsert
  <2>2. MappingInsert(s) = [fl |-> 0, sl |-> s]
    BY <1>0, <1>1 DEF MappingInsert
  <2> QED
    BY <2>1, <2>2 DEF Below
<1>2. CASE z >= SmallSize
  <2>1. PICK d : d = Step(z)
    OBVIOUS
  <2>2. PICK y : y = z + d - 1
    OBVIOUS
  <2>3. /\ d \in Nat \ {0} /\ y \in Nat /\ y >= z /\ y >= SmallSize /\ y < Pow2[FLMax + 2] /\ y # 0
        /\ Fls(z) \in SLLog..(FLMax + 1) /\ Fls(y) \in SLLog..(FLMax + 1) /\ Fls(z) <= Fls(y)
        /\ MappingSearch(z) = MappingInsert(y)
        /\ MappingInsert(y) = [fl |-> Fls(y) - SLLog + 1, sl |-> (y \div Step(y)) - SmallSize]
    BY <1>2, <2>1, <2>2, SearchAt
  <2>4. CASE s < SmallSize
    <3>1. MappingInsert(s) = [fl |-> 0, sl |-> s]
      BY <1>0, <2>4 DEF MappingInsert
    <3>2. 0 < Fls(y) - SLLog + 1
      BY <1>0, <2>3, ShiftsAre
    <3> QED
      BY <2>3, <3>1, <3>2 DEF Below
  <2>5. CASE s >= SmallSize
    <3>1. s # 0 /\ s <= y /\ s <= z /\ z < Pow2[FLMax + 2]
      BY <1>0, <2>3, <2>5, ShortIs
    <3>2. MappingInsert(s) = [fl |-> Fls(s) - SLLog + 1, sl |-> (s \div Step(s)) - SmallSize]
      BY <1>0, <2>5 DEF MappingInsert, Step
    <3>3. Fls(s) <= Fls(z) /\ Fls(s) <= Fls(y) /\ Fls(s) \in SLLog..(FLMax + 1)
      <4>1. s < Pow2[FLMax + 2]
        BY ShortIs
      <4> QED
        BY <2>3, <2>5, <3>1, <4>1, FlsGrows, FlsHigh
    <3>4. CASE Fls(s) < Fls(y)
      <4>1. Fls(s) - SLLog + 1 < Fls(y) - SLLog + 1
        BY <1>0, <2>3, <3>3, <3>4, ShiftsAre
      <4> QED
        BY <2>3, <3>2, <4>1 DEF Below
    <3>5. CASE Fls(s) = Fls(y)
      <4>1. Fls(s) = Fls(z)
        BY <2>3, <3>3, <3>5, ShiftsAre
      <4>2. Step(s) = d /\ Step(y) = d
        BY <2>1, <3>5, <4>1 DEF Step
      <4>3. PICK u, v : u = s \div d /\ v = y \div d
        OBVIOUS
      <4>4. u \in Nat /\ u * d <= s /\ \A q \in Nat : q * d <= y => q <= v
        BY <2>3, <4>3, QuotientAt
      <4>5. v \in Nat
        BY <2>3, <4>3, QuotientAt
      <4>6. (u + 1) * d <= y
        <5>1. (u + 1) * d = u * d + d /\ u * d \in Nat
          BY <2>3, <4>4
        <5> QED
          BY <2>2, <2>3, <4>4, <5>1
      <4>7. u + 1 <= v
        BY <4>4, <4>6
      <4>8. u - SmallSize < v - SmallSize
        BY <1>0, <4>4, <4>5, <4>7
      <4> QED
        BY <2>3, <3>2, <3>5, <4>2, <4>3, <4>8 DEF Below
    <3> QED
      BY <2>3, <3>3, <3>4, <3>5, ShiftsAre
  <2> QED
    BY <1>0, <2>4, <2>5
<1> QED
  BY <1>0, <1>1, <1>2

(* A block as long as the request rounded up to its size class is in a list *)
(* where the search begins, or in a later one.                              *)
LEMMA SearchReaches ==
    ASSUME NEW z \in Nat, z # 0, z < Pow2[FLMax], NEW s \in Nat, s < Pow2[FLMax],
           s >= IF z < SmallSize THEN z ELSE RoundUp(z, Step(z))
    PROVE  ~Below(MappingInsert(s), MappingSearch(z))
<1>0. SmallSize \in Nat \ {0} /\ SLLog \in Nat
  BY Pow2Is, ShiftsAre DEF SmallSize
<1>1. CASE z < SmallSize
  <2>1. MappingSearch(z) = [fl |-> 0, sl |-> z]
    BY <1>0, <1>1 DEF MappingSearch, MappingInsert
  <2>2. CASE s < SmallSize
    <3>1. MappingInsert(s) = [fl |-> 0, sl |-> s] /\ s >= z
      BY <1>0, <1>1, <2>2 DEF MappingInsert
    <3> QED
      BY <2>1, <3>1 DEF Below
  <2>3. CASE s >= SmallSize
    <3>1. MappingInsert(s).fl = Fls(s) - SLLog + 1
      BY <1>0, <2>3 DEF MappingInsert
    <3>2. s < Pow2[FLMax + 2]
      BY ShortIs
    <3>3. Fls(s) - SLLog + 1 > 0
      BY <1>0, <2>3, <3>2, FlsHigh, ShiftsAre
    <3> QED
      BY <1>0, <2>1, <3>1, <3>3, FlsHigh, <2>3, <3>2, ShiftsAre DEF Below
  <2> QED
    BY <1>0, <2>2, <2>3
<1>2. CASE z >= SmallSize
  <2>1. PICK d : d = Step(z)
    OBVIOUS
  <2>2. PICK y : y = z + d - 1
    OBVIOUS
  <2>3. /\ d \in Nat \ {0} /\ y \in Nat /\ y >= z /\ y >= SmallSize /\ y < Pow2[FLMax + 2] /\ y # 0
        /\ Fls(z) \in SLLog..(FLMax + 1) /\ Fls(y) \in SLLog..(FLMax + 1) /\ Fls(z) <= Fls(y)
        /\ MappingSearch(z) = MappingInsert(y)
        /\ MappingInsert(y) = [fl |-> Fls(y) - SLLog + 1, sl |-> (y \div Step(y)) - SmallSize]
    BY <1>2, <2>1, <2>2, SearchAt
  (* Every multiple of d up to y is up to s. *)
  <2>4. ASSUME NEW m \in Nat, m * d <= y PROVE m * d <= s
    <3>1. PICK k : k = y \div d
      OBVIOUS
    <3>2. k \in Nat /\ m <= k
      BY <2>3, <2>4, <3>1, QuotientAt
    <3>3. m * d <= k * d /\ k * d \in Nat /\ m * d \in Nat
      BY <2>3, <3>2
    <3>4. RoundUp(z, d) = k * d
      BY <2>2, <3>1 DEF RoundUp
    <3>5. s >= k * d
      BY <1>0, <1>2, <2>1, <3>4
    <3> QED
      BY <3>3, <3>5
  <2>5. PICK e : e = Fls(y)
    OBVIOUS
  <2>6. PICK D : D = Step(y)
    OBVIOUS
  <2>7. /\ e \in SLLog..(FLMax + 1) /\ D \in Nat \ {0}
        /\ SmallSize * D = Pow2[e] /\ Pow2[e] <= y
    <3>1. /\ Fls(y) \in SLLog..(FLMax + 1) /\ Pow2[Fls(y) - SLLog] \in Nat \ {0}
          /\ SmallSize * Pow2[Fls(y) - SLLog] = Pow2[Fls(y)]
          /\ SmallSize * Pow2[Fls(y) - SLLog] <= y
      BY <2>3, FlsHigh
    <3> QED
      BY <2>5, <2>6, <3>1 DEF Step
  <2>8. PICK c \in Nat : D = d * c
    <3>1. PICK i, j : i = Fls(z) - SLLog /\ j = Fls(y) - Fls(z)
      OBVIOUS
    <3>2. i \in 0..(FLMax + 2) /\ j \in 0..(FLMax + 2) /\ i + j <= FLMax + 2 /\ i + j = Fls(y) - SLLog
      BY <2>3, <3>1, ShiftsAre
    <3>3. Pow2[i + j] = Pow2[i] * Pow2[j] /\ Pow2[j] \in Nat
      BY <3>2, Pow2Sum, Pow2Is
    <3> QED
      BY <2>1, <2>6, <3>1, <3>2, <3>3 DEF Step
  <2>9. ASSUME NEW q \in Nat, q * D <= y PROVE q * D <= s
    <3>1. q * D = (q * c) * d /\ q * c \in Nat
      BY <2>3, <2>8
    <3> QED
      BY <2>4, <2>9, <3>1
  <2>10. Pow2[e] <= s /\ Pow2[e] \in Nat
    <3>1. SmallSize * D <= y
      BY <2>7
    <3>2. SmallSize * D <= s
      BY <1>0, <2>9, <3>1
    <3> QED
      BY <1>0, <2>7, <3>2
  <2>11. s >= SmallSize /\ s < Pow2[FLMax + 2] /\ s # 0
    <3>1. SmallSize <= SmallSize * D
      BY <1>0, <2>7
    <3> QED
      BY <1>0, <2>7, <2>10, <3>1, ShortIs
  <2>12. MappingInsert(s) = [fl |-> Fls(s) - SLLog + 1, sl |-> (s \div Step(s)) - SmallSize]
    BY <1>0, <2>11 DEF MappingInsert, Step
  <2>13. Fls(s) \in SLLog..(FLMax + 1)
    BY <2>11, FlsHigh
  <2>14. e <= Fls(s)
    <3>1. Fls(Pow2[e]) = e
      <4>1. e \in 0..(FLMax + 1) /\ e + 1 \in 0..(FLMax + 2) /\ Pow2[e + 1] = 2 * Pow2[e] /\ Pow2[e] # 0
        BY <2>7, Pow2Is, ShiftsAre
      <4>2. Pow2[e] < Pow2[e + 1] /\ Pow2[e] <= Pow2[e] /\ Pow2[e] < Pow2[FLMax + 2]
        BY <2>10, <2>11, <4>1, ShiftsAre, Pow2Is
      <4> QED
        BY <2>10, <4>1, <4>2, FlsUnique
    <3>2. Pow2[e] # 0
      BY <2>7, Pow2Is, ShiftsAre
    <3> QED
      BY <2>10, <2>11, <3>1, <3>2, FlsGrows
  <2>15. CASE e < Fls(s)
    <3>1. ~(Fls(s) - SLLog + 1 < e - SLLog + 1) /\ Fls(s) - SLLog + 1 # e - SLLog + 1
      BY <1>0, <2>7, <2>13, <2>15, ShiftsAre
    <3> QED
      BY <2>3, <2>5, <2>12, <3>1 DEF Below
  <2>16. CASE e = Fls(s)
    <3>1. Step(s) = D
      BY <2>5, <2>6, <2>16 DEF Step
    <3>2. PICK u, v : u = s \div D /\ v = y \div D
      OBVIOUS
    <3>3. v \in Nat /\ v * D <= y
      BY <2>3, <2>7, <3>2, QuotientAt
    <3>4. v * D <= s
      BY <2>9, <3>3
    <3>5. u \in Nat /\ v <= u
      BY <2>7, <3>2, <3>3, <3>4, QuotientAt
    <3>6. ~(u - SmallSize < v - SmallSize) /\ ~(e - SLLog + 1 < e - SLLog + 1)
      BY <1>0, <2>7, <3>3, <3>5, ShiftsAre
    <3> QED
      BY <2>3, <2>5, <2>6, <2>12, <2>16, <3>1, <3>2, <3>6 DEF Below
  <2> QED
    BY <2>7, <2>13, <2>14, <2>15, <2>16, ShiftsAre
<1> QED
  BY <1>0, <1>1, <1>2

(* The lengths of blocks are below block_size_max.                          *)
LEMMA SizeIs ==
    ASSUME PoolIndexed, NEW h, NEW B, NEW X, NEW U, Good(h, B, X, U), NEW b \in B
    PROVE  Size(h, b) \in Nat /\ Size(h, b) < Pow2[FLMax] /\ MappingInsert(Size(h, b)) \in Index
<1>1. h \in Heaps /\ Tiles(h, B)
  BY DEF Good
<1>2. /\ b \in Nat /\ Size(h, b) \in Nat /\ NextOf(h, b) = b + 1 + Size(h, b) /\ NextOf(h, b) <= Sentinel
  BY <1>1, TileFacts
<1>3. Size(h, b) <= PoolWords - 2 /\ Pow2[FLMax] \in Nat
  BY <1>2, PoolIs, Pow2Is, ShiftsAre DEF Sentinel
<1> QED
  BY <1>1, <1>2, <1>3, BlockIndexed, PoolIs DEF PoolIndexed

(* search_suitable_block goes down in no list.                              *)
LEMMA SuitableAbove ==
    ASSUME NEW h \in Heaps, NEW i, i.fl \in 0..(FLCount - 1), i.sl \in Int,
           \A f \in h.fl : h.sl[f] # {}, NEW j \in Suitable(h, i)
    PROVE  ~Below(j, i)
<1>0. FLCount \in Nat /\ SmallSize \in Nat
  BY ShiftsAre, Pow2Is DEF FLCount, SmallSize
<1>1. /\ h.fl \in SUBSET (0..(FLCount - 1)) /\ h.sl \in [0..(FLCount - 1) -> SUBSET (0..(SmallSize - 1))]
  BY DEF Heaps
<1> DEFINE same == {s \in h.sl[i.fl] : s >= i.sl}
           above == {v \in h.fl : v > i.fl}
<1>2. same \in SUBSET Nat /\ above \in SUBSET Nat
  BY <1>0, <1>1
<1>3. CASE same # {}
  <2>1. PICK t \in same : t = Ffs(same)
    BY <1>2, <1>3, FfsIs
  <2>2. j = [fl |-> i.fl, sl |-> Ffs(same)]
    BY <1>3 DEF Suitable
  <2>3. t >= i.sl /\ t \in Nat /\ i.fl \in Nat
    <3>1. i.fl \in Nat
      BY <1>0
    <3>2. t \in Nat
      BY <1>2
    <3>3. t >= i.sl
      OBVIOUS
    <3> QED
      BY <3>1, <3>2, <3>3
  <2> HIDE DEF same, above
  <2> QED
    BY <2>1, <2>2, <2>3 DEF Below
<1>4. CASE same = {} /\ above # {}
  <2>1. PICK t \in above : t = Ffs(above)
    BY <1>2, <1>4, FfsIs
  <2>2. j = [fl |-> Ffs(above), sl |-> Ffs(h.sl[Ffs(above)])]
    BY <1>4 DEF Suitable
  <2>3. t > i.fl /\ t \in Nat /\ i.fl \in Nat
    <3>1. i.fl \in Nat
      BY <1>0
    <3>2. t \in Nat
      BY <1>2
    <3>3. t > i.fl
      OBVIOUS
    <3> QED
      BY <3>1, <3>2, <3>3
  <2> HIDE DEF same, above
  <2> QED
    BY <2>1, <2>2, <2>3 DEF Below
<1>5. CASE same = {} /\ above = {}
  BY <1>5 DEF Suitable
<1> QED
  BY <1>3, <1>4, <1>5

(* Bits are set only where they say that there is something.                *)
LEMMA BitsTell ==
    ASSUME NEW h, NEW B, NEW X, NEW U, Good(h, B, X, U)
    PROVE  h \in Heaps /\ \A f \in h.fl : h.sl[f] # {}
<1>1. h \in Heaps /\ Listed(h, FreeOf(h, B, X))
  BY DEF Good
<1>2. h.fl \in SUBSET (0..(FLCount - 1))
  BY <1>1 DEF Heaps
<1> QED
  BY <1>1, <1>2 DEF Listed

(* The block that is found is as long as the request.                       *)
LEMMA FoundServes ==
    ASSUME PoolIndexed, NEW h, NEW B, NEW X, NEW U, Good(h, B, X, U), NEW n, Adjusted(n),
           NEW f \in LocateFree(h, n)
    PROVE  Size(h, f.block) >= n /\ Size(h, f.block) \in Nat
<1>1. /\ n \in Nat /\ n >= MinSize
      /\ f.block \in FreeOf(h, B, X) /\ f.at = MappingInsert(Size(h, f.block))
      /\ f.at \in Suitable(h, MappingSearch(n))
  BY LocateIs
<1>2. n # 0 /\ n < Pow2[FLMax]
  BY <1>1 DEF Adjusted, MinSize
<1>3. f.block \in B
  BY <1>1 DEF FreeOf
<1>4. PICK s \in Nat : s = Size(h, f.block) /\ s < Pow2[FLMax]
  BY <1>3, SizeIs
<1>5. PICK i : i = MappingSearch(n)
  OBVIOUS
<1>6. i.fl \in 0..(FLCount - 1) /\ i.sl \in Int
  <2>1. ~(MappingSearch(n).fl >= FLCount)
    BY DEF LocateFree
  <2>2. MappingSearch(n).fl \in Nat /\ MappingSearch(n).sl \in Int /\ FLCount \in Nat
    BY <1>1, <1>2, SearchLevel, ShiftsAre DEF FLCount
  <2> QED
    BY <1>5, <2>1, <2>2
<1>7. ~Below(f.at, i)
  <2>1. h \in Heaps /\ \A v \in h.fl : h.sl[v] # {}
    BY BitsTell
  <2>2. PICK j \in Suitable(h, i) : j = f.at
    BY <1>1, <1>5
  <2>3. ~Below(j, i)
    BY <1>6, <2>1, SuitableAbove
  <2> QED
    BY <2>2, <2>3
<1>8. s < n => Below(MappingInsert(s), MappingSearch(n))
  BY <1>1, <1>2, <1>4, SearchServes
<1> QED
  BY <1>1, <1>4, <1>5, <1>7, <1>8

(* A free block that is long enough for the size class is found.            *)
LEMMA LongIsFound ==
    ASSUME PoolIndexed, NEW h, NEW B, NEW X, NEW U, Good(h, B, X, U), NEW n, Adjusted(n), n # 0,
           NEW b \in FreeOf(h, B, X),
           Size(h, b) >= IF n < SmallSize THEN n ELSE RoundUp(n, Step(n))
    PROVE  LocateFree(h, n) # {}
<1>1. n \in Nat /\ n < Pow2[FLMax] /\ FLCount \in Nat /\ SmallSize \in Nat
  BY ShiftsAre, Pow2Is DEF Adjusted, FLCount, SmallSize
<1>2. b \in B
  BY DEF FreeOf
<1>3. PICK s \in Nat : s = Size(h, b) /\ s < Pow2[FLMax] /\ MappingInsert(s) \in Index
  BY <1>2, SizeIs
<1>4. PICK i, k : i = MappingSearch(n) /\ k = MappingInsert(s)
  OBVIOUS
<1>5. ~Below(k, i)
  BY <1>1, <1>3, <1>4, SearchReaches
<1>6. i.fl \in Nat /\ i.sl \in Int
  BY <1>1, <1>4, SearchLevel
<1>7. /\ k.fl \in 0..(FLCount - 1) /\ k.sl \in 0..(SmallSize - 1) /\ k = [fl |-> k.fl, sl |-> k.sl]
  BY <1>3, <1>4 DEF Index
<1>8. k.fl >= i.fl /\ (k.fl = i.fl => k.sl >= i.sl)
  BY <1>1, <1>5, <1>6, <1>7 DEF Below
<1>9. i.fl \in 0..(FLCount - 1)
  BY <1>1, <1>6, <1>7, <1>8
<1>10. k.sl \in h.sl[k.fl] /\ k.fl \in h.fl
  <2>1. Listed(h, FreeOf(h, B, X))
    BY DEF Good
  <2>2. b \in InList(h, FreeOf(h, B, X), k.fl, k.sl)
    BY <1>3, <1>4, <1>7 DEF InList
  <2>3. k.sl \in h.sl[k.fl]
    BY <1>7, <2>1, <2>2 DEF Listed
  <2> QED
    BY <1>7, <2>1, <2>3 DEF Listed
<1>11. Suitable(h, i) # {}
  <2>1. CASE k.fl = i.fl
    <3>1. k.sl \in {t \in h.sl[i.fl] : t >= i.sl}
      BY <1>8, <1>10, <2>1
    <3>2. {t \in h.sl[i.fl] : t >= i.sl} # {}
      BY <3>1
    <3> QED
      BY <3>2 DEF Suitable
  <2>2. CASE k.fl > i.fl
    <3>1. {v \in h.fl : v > i.fl} # {}
      BY <1>10, <2>2
    <3> QED
      BY <3>1 DEF Suitable
  <2> QED
    BY <1>1, <1>6, <1>7, <1>8, <2>1, <2>2
<1>12. ~(n = 0 \/ i.fl >= FLCount)
  BY <1>1, <1>9
<1> QED
  BY <1>4, <1>11, <1>12 DEF LocateFree

(* Every word before the sentinel is in a block.                            *)
LEMMA Covered ==
    ASSUME NEW h \in Heaps, NEW B, Tiles(h, B), NEW a \in Nat, a < Sentinel
    PROVE  \E b \in B : b \in Nat /\ b <= a /\ a < NextOf(h, b)
<1>0. /\ B \in SUBSET Nat /\ 0 \in B /\ Sentinel \in Nat
      /\ \A b \in B : /\ NextOf(h, b) \in Nat /\ NextOf(h, b) > b /\ NextOf(h, b) \in B \cup {Sentinel}
  <2>1. /\ B \subseteq Words /\ B \in SUBSET Nat /\ Sentinel \in Nat
        /\ \A w \in Words : NextOf(h, w) \in Nat
        /\ \A b \in B : NextOf(h, b) > b
    BY TileFacts
  <2> QED
    BY <2>1 DEF Tiles
<1> DEFINE T == {k \in 0..a : a - k \in B}
<1>1. T \in SUBSET Nat /\ T # {}
  <2>1. a \in 0..a /\ a - a = 0
    OBVIOUS
  <2> QED
    BY <1>0, <2>1
<1>2. PICK k \in T : \A m \in T : k <= m
  BY <1>1, LeastNumber
<1>3. PICK b \in B : b = a - k /\ b \in Nat /\ b <= a /\ k \in Nat
  BY <1>2
<1>4. PICK y \in Nat : y = NextOf(h, b) /\ y > b /\ y \in B \cup {Sentinel}
  BY <1>0
<1>5. a < y
  <2> SUFFICES ASSUME y <= a PROVE FALSE
    BY <1>4
  <2>1. y \in B
    BY <1>0, <1>4
  <2>2. a - y \in 0..a /\ a - (a - y) = y
    BY <1>4
  <2>3. a - y \in T
    BY <2>1, <2>2
  <2>4. k <= a - y
    BY <1>2, <2>3
  <2> QED
    BY <1>3, <1>4, <2>4
<1> QED
  BY <1>3, <1>4, <1>5

(* Rounding up gives the next multiple.                                     *)
LEMMA RoundUpAt ==
    ASSUME NEW n \in Nat, NEW a \in Nat \ {0}
    PROVE  \E q \in Nat : RoundUp(n, a) = q * a /\ q * a \in Nat /\ n <= q * a /\ q * a <= n + a - 1
<1>1. PICK m \in Nat : m = n + a - 1
  OBVIOUS
<1>2. PICK q : q = m \div a
  OBVIOUS
<1>3. q \in Nat /\ q * a <= m /\ m < q * a + a
  BY <1>2, QuotientAt
<1>4. RoundUp(n, a) = q * a
  BY <1>1, <1>2 DEF RoundUp
<1>5. q * a \in Nat
  BY <1>3
<1> QED
  BY <1>1, <1>3, <1>4, <1>5

(* A multiple is not rounded.                                               *)
LEMMA RoundUpMultiple ==
    ASSUME NEW k \in Nat, NEW a \in Nat \ {0}, NEW n \in Nat, n = k * a
    PROVE  RoundUp(n, a) = n
<1>1. PICK q \in Nat : RoundUp(n, a) = q * a /\ q * a \in Nat /\ n <= q * a /\ q * a <= n + a - 1
  BY RoundUpAt
<1>2. q >= k
  <2> SUFFICES ASSUME q + 1 <= k PROVE FALSE
    OBVIOUS
  <2>1. (q + 1) * a <= k * a /\ (q + 1) * a = q * a + a
    OBVIOUS
  <2> QED
    BY <1>1, <2>1
<1>3. q <= k
  <2> SUFFICES ASSUME k + 1 <= q PROVE FALSE
    OBVIOUS
  <2>1. (k + 1) * a <= q * a /\ (k + 1) * a = k * a + a
    OBVIOUS
  <2> QED
    BY <1>1, <2>1
<1>4. q = k
  BY <1>2, <1>3
<1> QED
  BY <1>1, <1>4

(* A multiple leaves no remainder.                                          *)
LEMMA MultipleMod ==
    ASSUME NEW q \in Nat, NEW a \in Nat \ {0}, NEW n \in Nat, n = q * a
    PROVE  n % a = 0
<1>1. a \in Nat /\ a > 0
  OBVIOUS
<1> QED
  BY <1>1, SMT

(* The gap of tlsf_memalign ends at an aligned place, and is not longer     *)
(* than what was asked for beyond the request.                              *)
LEMMA GapFits ==
    ASSUME NEW p \in Nat, NEW a \in Nat \ {0}
    PROVE  /\ (p + Gap(p, a)) % a = 0 /\ Gap(p, a) <= a + 3
           /\ a = 1 => Gap(p, a) = 0
<1>1. PICK q \in Nat : RoundUp(p, a) = q * a /\ q * a \in Nat /\ p <= q * a /\ q * a <= p + a - 1
  BY RoundUpAt
<1>2. PICK g \in Nat : g = RoundUp(p, a) - p
  BY <1>1
<1>3. p + g = q * a /\ g <= a - 1
  BY <1>1, <1>2
<1>4. CASE g \in 1..(HeaderSize - 1)
  <2>1. PICK m \in Nat : m = p + g + Bigger(HeaderSize - g, a)
    BY <1>4 DEF Bigger, HeaderSize
  <2>2. Gap(p, a) = RoundUp(m, a) - p
    BY <1>2, <1>4, <2>1 DEF Gap
  <2>3. PICK k \in Nat : RoundUp(m, a) = k * a /\ k * a \in Nat /\ m <= k * a /\ k * a <= m + a - 1
    BY RoundUpAt
  <2>4. (p + Gap(p, a)) = k * a
    BY <2>2, <2>3
  <2>5. (p + Gap(p, a)) % a = 0
    BY <2>3, <2>4, MultipleMod
  <2>6. Gap(p, a) <= a + 3
    <3>1. CASE HeaderSize - g > a
      <4>1. g = 1 /\ a = 2 /\ m = p + 4
        BY <1>3, <1>4, <2>1, <3>1 DEF Bigger, HeaderSize
      <4> QED
        BY <2>2, <2>3, <4>1
    <3>2. CASE ~(HeaderSize - g > a)
      <4>1. m = q * a + a
        BY <1>3, <2>1, <3>2 DEF Bigger
      <4>2. PICK j \in Nat : j = q + 1
        OBVIOUS
      <4>3. RoundUp(m, a) = m
        <5>1. m = j * a
          BY <4>1, <4>2
        <5> QED
          BY <5>1, RoundUpMultiple
      <4> QED
        BY <1>3, <1>4, <2>2, <4>1, <4>3 DEF HeaderSize
    <3> QED
      BY <3>1, <3>2
  <2>7. a # 1
    BY <1>3, <1>4 DEF HeaderSize
  <2> QED
    BY <2>5, <2>6, <2>7
<1>5. CASE g \notin 1..(HeaderSize - 1)
  <2>1. Gap(p, a) = g
    BY <1>2, <1>5 DEF Gap
  <2>2. (p + g) % a = 0
    BY <1>1, <1>3, MultipleMod
  <2> QED
    BY <1>3, <2>1, <2>2
<1> QED
  BY <1>4, <1>5

-----------------------------------------------------------------------------
(* A payload in the hands of a caller, and its place as HeapSpec sees it    *)
Rec(h, b) == [at |-> b + 1, size |-> Size(h, b)]
Recs(h, U) == {Rec(h, b) : b \in U}
Held(h, P) == {[at |-> p, size |-> Size(h, p - 1)] : p \in P}
LEMMA HeldIs ==
    ASSUME NEW h, NEW U \in SUBSET Nat, NEW P, P = {b + 1 : b \in U}
    PROVE  Held(h, P) = Recs(h, U)
<1>1. \A b \in U : (b + 1) - 1 = b
  OBVIOUS
<1> QED
  BY <1>1 DEF Held, Rec, Recs

(* What a payload's words are.                                              *)
LEMMA ExtentIs ==
    ASSUME NEW h, NEW B, NEW X, NEW U, Good(h, B, X, U), NEW b \in B
    PROVE  /\ b \in Nat /\ NextOf(h, b) \in Nat /\ H!Extent(Rec(h, b)) = b..(NextOf(h, b) - 1)
           /\ NextOf(h, b) <= Sentinel /\ b < NextOf(h, b) /\ NextOf(h, b) = b + 1 + Size(h, b)
           /\ Size(h, b) \in Nat
<1>1. h \in Heaps /\ Tiles(h, B)
  BY DEF Good
<1>2. /\ b \in Nat /\ Size(h, b) \in Nat /\ NextOf(h, b) = b + 1 + Size(h, b) /\ NextOf(h, b) <= Sentinel
      /\ NextOf(h, b) \in Nat /\ b < NextOf(h, b)
  BY <1>1, TileFacts
<1>3. (b + 1) - 1 = b /\ (b + 1) + Size(h, b) - 1 = NextOf(h, b) - 1
  BY <1>2
<1>4. H!Extent(Rec(h, b)) = b..(NextOf(h, b) - 1)
  BY <1>3 DEF H!Extent, Rec
<1> QED
  BY <1>2, <1>4

(* Two blocks share no word.                                                *)
LEMMA Apart ==
    ASSUME NEW h, NEW B, NEW X, NEW U, Good(h, B, X, U), NEW b \in B, NEW c \in B, b # c
    PROVE  H!Extent(Rec(h, b)) \cap H!Extent(Rec(h, c)) = {}
<1>1. /\ b \in Nat /\ NextOf(h, b) \in Nat /\ H!Extent(Rec(h, b)) = b..(NextOf(h, b) - 1)
  BY ExtentIs
<1>2. /\ c \in Nat /\ NextOf(h, c) \in Nat /\ H!Extent(Rec(h, c)) = c..(NextOf(h, c) - 1)
  BY ExtentIs
<1>3. (b < c => NextOf(h, b) <= c) /\ (c < b => NextOf(h, c) <= b)
  BY DEF Good, Tiles
<1>4. NextOf(h, b) <= c \/ NextOf(h, c) <= b
  BY <1>1, <1>2, <1>3
<1> QED
  BY <1>1, <1>2, <1>4

(* A block that the call leaves used is what HeapSpec may grant: it is as   *)
(* long as asked and not a header longer, and meets no other payload.       *)
LEMMA Granted ==
    ASSUME NEW g, NEW C, NEW V, Good(g, C, {}, V), NEW x \in V, NEW a \in Nat \ {0}, (x + 1) % a = 0,
           NEW n, n # 0, NEW z \in Nat, z = Adjust(n, 1), Size(g, x) \in z..(z + 3)
    PROVE  Rec(g, x) \in H!Grants(n, a, Recs(g, V \ {x}))
<1>1. V \subseteq C /\ x \in C
  BY UsedWords
<1>2. /\ x \in Nat /\ NextOf(g, x) \in Nat /\ NextOf(g, x) <= Sentinel /\ NextOf(g, x) = x + 1 + Size(g, x)
      /\ Size(g, x) \in Nat
  BY <1>1, ExtentIs
<1>3. LeastOf(n) = z
  BY DEF LeastOf
<1>4. x + 1 \in 1..(PoolWords - 1) /\ (x + 1) + Size(g, x) <= PoolWords - 1
  BY <1>2, PoolIs DEF Sentinel
<1>5. Rec(g, x) \in [at : 1..(PoolWords - 1), size : LeastOf(n)..(LeastOf(n) + 3)]
  BY <1>3, <1>4 DEF Rec
<1>6. Rec(g, x).at = x + 1 /\ Rec(g, x).size = Size(g, x)
  BY DEF Rec
<1>7. \A o \in Recs(g, V \ {x}) : H!Extent(o) \cap H!Extent(Rec(g, x)) = {}
  <2> SUFFICES ASSUME NEW u \in V \ {x} PROVE H!Extent(Rec(g, u)) \cap H!Extent(Rec(g, x)) = {}
    BY DEF Recs
  <2> QED
    BY <1>1, Apart
<1> QED
  BY <1>4, <1>5, <1>6, <1>7 DEF H!Grants

(* A request is refused only when no free run is as long as its size class. *)
LEMMA RefusedRightly ==
    ASSUME PoolIndexed, NEW B, NEW U, Good(heap, B, {}, U), ptrs = {b + 1 : b \in U},
           NEW n, NEW a, Adjusted(Asked(n, a)), LocateFree(heap, Asked(n, a)) = {}
    PROVE  H!NoRun(Enough(n, a))
<1>1. PICK z : z = Asked(n, a)
  OBVIOUS
<1>2. Held(heap, ptrs) = Recs(heap, U)
  BY UsedWords, HeldIs
<1>3. CASE z = 0
  <2>1. Enough(n, a) = PoolWords
    BY <1>1, <1>3 DEF Enough
  <2>2. 0..(PoolWords - PoolWords - 2) = {}
    BY PoolIs
  <2> QED
    BY <2>1, <2>2 DEF H!NoRun
<1>4. CASE z # 0
  <2>1. z \in Nat /\ z >= MinSize /\ z < Pow2[FLMax] /\ SmallSize \in Nat
    BY <1>1, <1>4, Pow2Is, ShiftsAre DEF Adjusted, SmallSize
  <2>2. PICK e : e = IF z < SmallSize THEN z ELSE RoundUp(z, Step(z))
    OBVIOUS
  <2>3. Enough(n, a) = e
    BY <1>1, <1>4, <2>2 DEF Enough, Step
  <2>4. e \in Nat
    <3>1. CASE z < SmallSize
      BY <2>1, <2>2, <3>1
    <3>2. CASE z >= SmallSize
      <4>1. PICK d \in Nat \ {0} : d = Step(z)
        BY <1>4, <2>1, <3>2, SearchAt
      <4> QED
        BY <2>1, <2>2, <3>2, <4>1, RoundUpIs
    <3> QED
      BY <2>1, <3>1, <3>2
  <2>5. ASSUME NEW w \in 0..(PoolWords - e - 2),
               \A b \in U : H!Extent(Rec(heap, b)) \cap (w..(w + e + 1)) = {}
        PROVE  FALSE
    <3>0. heap \in Heaps /\ Tiles(heap, B) /\ Marked(heap, B, {}) /\ U = UsedOf(heap, B, {})
      BY DEF Good
    <3>1. w \in Nat /\ w < Sentinel /\ w + e + 1 <= Sentinel /\ Sentinel \in Nat
      BY <2>4, PoolIs DEF Sentinel
    <3>2. PICK b \in B : b \in Nat /\ b <= w /\ w < NextOf(heap, b)
      BY <3>0, <3>1, Covered
    <3>3. PICK y \in Nat : /\ y = NextOf(heap, b) /\ y = b + 1 + Size(heap, b) /\ Size(heap, b) \in Nat
                           /\ H!Extent(Rec(heap, b)) = b..(y - 1)
      BY ExtentIs
    <3>4. b \notin U
      <4>1. w \in b..(y - 1) /\ w \in w..(w + e + 1)
        BY <2>4, <3>1, <3>2, <3>3
      <4> QED
        BY <2>5, <3>3, <4>1
    <3>5. b \in FreeOf(heap, B, {})
      BY <3>0, <3>2, <3>4 DEF FreeOf, UsedOf
    <3>6. y \in B \cup {Sentinel} /\ y \notin FreeOf(heap, B, {})
      BY <3>0, <3>2, <3>3, <3>5 DEF Tiles, Marked
    <3>7. y >= w + e + 1
      <4>1. CASE y = Sentinel
        BY <3>1, <4>1
      <4>2. CASE y \in B
        <5>1. y \in U
          BY <3>0, <3>6, <4>2 DEF UsedOf, FreeOf
        <5>2. y \in H!Extent(Rec(heap, y))
          <6>1. /\ NextOf(heap, y) \in Nat /\ H!Extent(Rec(heap, y)) = y..(NextOf(heap, y) - 1)
                /\ y < NextOf(heap, y)
            BY <4>2, ExtentIs
          <6> QED
            BY <6>1
        <5>3. y \notin w..(w + e + 1)
          BY <2>5, <5>1, <5>2
        <5> QED
          BY <2>4, <3>1, <3>2, <3>3, <5>3
      <4> QED
        BY <3>6, <4>1, <4>2
    <3>8. Size(heap, b) >= e
      BY <2>4, <3>1, <3>2, <3>3, <3>7
    <3>9. LocateFree(heap, z) # {}
      BY <1>1, <1>4, <2>2, <3>5, <3>8, LongIsFound
    <3> QED
      BY <1>1, <3>9
  <2>6. \A w \in 0..(PoolWords - e - 2) : \E r \in Held(heap, ptrs) : H!Extent(r) \cap (w..(w + e + 1)) # {}
    BY <1>2, <2>5 DEF Recs
  <2> QED
    BY <2>3, <2>6 DEF H!NoRun, Held
<1> QED
  BY <1>3, <1>4

(* Payloads that keep their sizes are the same payloads.                    *)
LEMMA KeptRecs ==
    ASSUME NEW g, NEW h, NEW S, Kept(g, h, S)
    PROVE  Recs(g, S) = Recs(h, S)
BY DEF Kept, Rec, Recs

(* The payloads without one of them.                                        *)
LEMMA RecsWithout ==
    ASSUME NEW h, NEW U \in SUBSET Nat, NEW x \in U
    PROVE  Recs(h, U) \ {Rec(h, x)} = Recs(h, U \ {x})
<1>1. ASSUME NEW u \in U, Rec(h, u) = Rec(h, x) PROVE u = x
  <2>1. Rec(h, u).at = u + 1 /\ Rec(h, x).at = x + 1
    BY DEF Rec
  <2> QED
    BY <1>1, <2>1
<1> QED
  BY <1>1 DEF Recs

(* The steps of HeapSpec.                                                   *)
LEMMA GrantStep ==
    ASSUME NEW n \in Sizes, NEW a \in Aligns \cup {1}, NEW r \in H!Grants(n, a, Held(heap, ptrs)),
           Held(heap', ptrs') = Held(heap, ptrs) \cup {r}, refused' = {}
    PROVE  H!HeapNext
BY DEF H!HeapNext, H!HeapAlloc, Held

(* A request that is refused                                                *)
LEMMA RefuseStep ==
    ASSUME NEW n \in Sizes, NEW a \in Aligns \cup {1}, H!NoRun(Enough(n, a)),
           refused' = {[n |-> n, align |-> a]}, UNCHANGED <<heap, ptrs>>
    PROVE  H!HeapNext
BY DEF H!HeapNext, H!HeapFail

(* A payload that is given back                                             *)
LEMMA GiveBackStep ==
    ASSUME NEW r \in Held(heap, ptrs), Held(heap', ptrs') = Held(heap, ptrs) \ {r}, refused' = {}
    PROVE  H!HeapNext
BY DEF H!HeapNext, H!HeapFree, Held

(* A payload that grows, shrinks or moves                                   *)
LEMMA ResizeStep ==
    ASSUME NEW r \in Held(heap, ptrs), NEW n \in Sizes,
           NEW new \in H!Grants(n, 1, Held(heap, ptrs) \ {r}),
           Held(heap', ptrs') = (Held(heap, ptrs) \ {r}) \cup {new}, refused' = {}
    PROVE  H!HeapNext
BY DEF H!HeapNext, H!HeapRealloc, Held

(* A block trimmed to n words is that long and not a header longer.         *)
LEMMA TrimmedFits ==
    ASSUME NEW h, NEW b, NEW n \in Nat, Size(h, b) \in Nat, Size(h, b) >= n
    PROVE  TrimSize(h, b, n) \in n..(n + 3)
BY DEF TrimSize, CanSplit, HeaderSize

(* A block that the call has made used joins the payloads.                  *)
LEMMA Joins ==
    ASSUME NEW B, NEW U, Good(heap, B, {}, U), ptrs = {b + 1 : b \in U},
           NEW g, NEW C, NEW x, Good(g, C, {}, U \cup {x}), Kept(g, heap, U), x \notin U,
           NEW n \in Sizes, NEW a \in Aligns \cup {1}, (x + 1) % a = 0,
           NEW z \in Nat, z = Adjust(n, 1), n # 0, Size(g, x) \in z..(z + 3),
           heap' = Overwrite(g), ptrs' = ptrs \cup {x + 1}, refused' = {}
    PROVE  H!HeapNext
<1>1. PICK k, V : k = Overwrite(g) /\ V = U \cup {x}
  OBVIOUS
<1>2. Good(k, C, {}, V) /\ Kept(k, g, V)
  BY <1>1, OverwriteIs
<1>3. x \in V /\ V \ {x} = U
  BY <1>1
<1>4. Kept(k, heap, U) /\ Size(k, x) = Size(g, x)
  BY <1>1, <1>2 DEF Kept
<1>5. a \in Nat \ {0}
  BY TlsfAssumption
<1>6. Rec(k, x) \in H!Grants(n, a, Recs(k, V \ {x}))
  BY <1>2, <1>3, <1>4, <1>5, Granted
<1>7. Recs(k, U) = Recs(heap, U)
  BY <1>4, KeptRecs
<1>8. U \in SUBSET Nat /\ V \in SUBSET Nat
  BY <1>2, UsedWords
<1>9. Held(heap, ptrs) = Recs(heap, U)
  BY <1>8, HeldIs
<1>10. ptrs' = {b + 1 : b \in V}
  BY <1>1
<1>11. Held(k, ptrs') = Recs(k, V)
  BY <1>8, <1>10, HeldIs
<1>12. Recs(k, V) = Recs(k, U) \cup {Rec(k, x)}
  BY <1>1 DEF Recs
<1>13. Held(heap', ptrs') = Held(heap, ptrs) \cup {Rec(k, x)}
  BY <1>1, <1>7, <1>9, <1>11, <1>12
<1>14. Rec(k, x) \in H!Grants(n, a, Held(heap, ptrs))
  BY <1>3, <1>6, <1>7, <1>9
<1> QED
  BY <1>13, <1>14, GrantStep

(* tlsf_malloc: the search begins where all blocks are long enough, and it  *)
(* misses no block of the size class.                                       *)
LEMMA MallocPromise ==
    ASSUME PoolIndexed, Sound(heap, ptrs), NEW n \in Sizes, Malloc(n)
    PROVE  H!HeapNext
<1>1. PICK B, U : Good(heap, B, {}, U) /\ ptrs = {b + 1 : b \in U}
  BY DEF Sound
<1>2. PICK z : z = Adjust(n, 1) /\ Adjusted(z)
  BY RequestIs
<1>3. 1 \in Aligns \cup {1} /\ Asked(n, 1) = z
  BY <1>2 DEF Asked
<1>4. CASE LocateFree(heap, z) = {} /\ refused' = {[n |-> n, align |-> 1]} /\ UNCHANGED <<heap, ptrs>>
  <2>1. H!NoRun(Enough(n, 1))
    BY <1>1, <1>2, <1>3, <1>4, RefusedRightly
  <2> QED
    BY <1>3, <1>4, <2>1, RefuseStep
<1>5. ASSUME NEW f \in LocateFree(heap, z),
             heap' = Overwrite(PrepareUsed(RemoveFreeBlock(heap, f.block, f.at), f.block, z)),
             ptrs' = ptrs \cup {f.block + 1}, refused' = {}
      PROVE  H!HeapNext
  <2>1. PICK g, b : /\ g = PrepareUsed(RemoveFreeBlock(heap, f.block, f.at), f.block, z)
                    /\ b = f.block
    OBVIOUS
  <2>2. PICK C : /\ Good(g, C, {}, U \cup {b}) /\ Kept(g, heap, U) /\ b \notin U
                 /\ Size(g, b) = TrimSize(heap, b, z)
    BY <1>1, <1>2, <2>1, MallocIs
  <2>3. z \in Nat /\ z >= MinSize
    BY <1>1, <1>2, LocateIs
  <2>4. Size(heap, b) \in Nat /\ Size(heap, b) >= z
    BY <1>1, <1>2, <2>1, FoundServes
  <2>5. Size(g, b) \in z..(z + 3)
    BY <2>2, <2>3, <2>4, TrimmedFits
  <2>6. n # 0
    BY <1>2, <2>3 DEF Adjust, MinSize
  <2>7. (b + 1) % 1 = 0
    <3>1. b \in Nat
      BY <2>2, UsedWords
    <3> QED
      BY <3>1
  <2>8. heap' = Overwrite(g) /\ ptrs' = ptrs \cup {b + 1}
    BY <1>5, <2>1
  <2> QED
    BY <1>1, <1>2, <1>3, <1>5, <2>2, <2>3, <2>5, <2>6, <2>7, <2>8, Joins
<1> QED
  BY <1>2, <1>4, <1>5 DEF Malloc

(* tlsf_memalign: what is asked for leaves room for the gap.                *)
LEMMA MemalignRoom ==
    ASSUME PoolIndexed, NEW n \in Nat, NEW a \in Nat \ {0}, NEW z, z = Asked(n, a), z # 0,
           NEW m \in Nat, m = Adjust(n, 1), m >= MinSize,
           NEW p \in Nat, NEW gap \in Nat, gap = Gap(p, a), NEW s \in Nat, s >= z
    PROVE  s >= gap + m /\ (gap # 0 => s >= HeaderSize + gap)
<1>1. gap <= a + 3 /\ (a = 1 => gap = 0)
  BY GapFits
<1>2. CASE a = 1
  BY <1>1, <1>2 DEF Asked
<1>3. CASE a > 1
  <2>1. PICK w \in Nat : w = m + a + HeaderSize
    BY DEF HeaderSize
  <2>2. z = Adjust(w, a)
    BY <1>3, <2>1 DEF Asked, MinSize
  <2>3. RoundUp(w, a) \in Nat /\ RoundUp(w, a) >= w
    BY <2>1, RoundUpIs
  <2>4. z >= w /\ z \in Nat
    BY <2>2, <2>3 DEF Adjust, Bigger, MinSize
  <2> QED
    BY <1>1, <2>1, <2>4 DEF HeaderSize, MinSize
<1> QED
  BY <1>2, <1>3

(* tlsf_memalign: the payload is aligned, and as long as asked.             *)
LEMMA MemalignPromise ==
    ASSUME PoolIndexed, Sound(heap, ptrs), NEW n \in Sizes, NEW a \in Aligns, Memalign(n, a)
    PROVE  H!HeapNext
<1>1. PICK B, U : Good(heap, B, {}, U) /\ ptrs = {b + 1 : b \in U}
  BY DEF Sound
<1>2. n \in Nat /\ a \in Nat \ {0} /\ Adjusted(Adjust(n, 1)) /\ Adjust(n, 1) \in Nat /\ a \in Aligns \cup {1}
  BY RequestIs, TlsfAssumption
<1>3. PICK z, m : z = Asked(n, a) /\ m = Adjust(n, 1)
  OBVIOUS
<1>4. Adjusted(z) /\ (z # 0 => m \in Nat /\ m >= MinSize)
  BY <1>2, <1>3, AskedIs DEF Adjusted
<1>5. CASE LocateFree(heap, z) = {} /\ refused' = {[n |-> n, align |-> a]} /\ UNCHANGED <<heap, ptrs>>
  <2>1. H!NoRun(Enough(n, a))
    BY <1>1, <1>3, <1>4, <1>5, RefusedRightly
  <2> QED
    BY <1>2, <1>5, <2>1, RefuseStep
<1> DEFINE G1(f) == RemoveFreeBlock(heap, f.block, f.at)
           Gp(f) == Gap(f.block + 1, a)
           At(f) == LedTo(G1(f), f.block, Gp(f))
<1>6. ASSUME NEW f \in LocateFree(heap, z),
             heap' = Overwrite(PrepareUsed(Led(G1(f), f.block, Gp(f)), At(f), m)),
             ptrs' = ptrs \cup {At(f) + 1}, refused' = {}
      PROVE  H!HeapNext
  <2>1. PICK g1, gap, b : g1 = G1(f) /\ gap = Gp(f) /\ b = LedTo(g1, f.block, gap)
    OBVIOUS
  <2>2. PICK g : g = PrepareUsed(Led(g1, f.block, gap), b, m)
    OBVIOUS
  <2>3. z # 0 /\ f.block \in B
    <3>1. z # 0
      BY DEF LocateFree
    <3>2. f.block \in FreeOf(heap, B, {})
      BY <1>1, <1>4, LocateIs
    <3> QED
      BY <3>1, <3>2 DEF FreeOf
  <2>4. PICK c \in Nat : c = f.block
    <3>1. B \subseteq Words
      BY <1>1, UsedWords
    <3>2. f.block \in Nat
      BY <2>3, <3>1, PoolIs
    <3> QED
      BY <3>2
  <2>5. PICK p \in Nat : p = c + 1
    OBVIOUS
  <2>6. gap \in Nat /\ (gap # 0 => gap >= HeaderSize) /\ gap = Gap(p, a)
    BY <1>2, <2>1, <2>4, <2>5, GapIs
  <2>7. g1 = RemoveFreeBlock(heap, f.block, f.at)
    BY <2>1
  <2>8. m \in Nat /\ m >= MinSize
    BY <1>4, <2>3
  <2>9. PICK C : /\ Good(g, C, {}, U \cup {b}) /\ Kept(g, heap, U) /\ b \notin U
                 /\ Size(g, b) \in m..(m + 3) \/ LedSize(heap, f.block, gap) < m
    BY <1>1, <1>4, <2>1, <2>2, <2>6, <2>7, <2>8, MemalignIs
  <2>10. PICK s \in Nat : s = Size(heap, c) /\ s >= z
    BY <1>1, <1>4, <2>4, FoundServes
  <2>11. s >= gap + m /\ (gap # 0 => s >= HeaderSize + gap)
    BY <1>2, <1>3, <2>3, <2>6, <2>8, <2>10, MemalignRoom
  <2>12. g1.hdr = heap.hdr
    <3>1. /\ Good(g1, B, {f.block}, U) /\ Alone(g1, f.block) /\ g1.hdr = heap.hdr
          /\ z \in Nat /\ z >= MinSize /\ f.block \in Words /\ f.block \notin U
      BY <1>1, <1>4, <2>7, TakingFree
    <3> QED
      BY <3>1
  <2>13. (gap # 0) <=> Leads(heap, c, gap)
    BY <2>10, <2>11 DEF Leads, CanSplit
  <2>14. b = c + gap
    <3>1. Leads(g1, c, gap) <=> Leads(heap, c, gap)
      BY <2>12 DEF Leads, CanSplit, Size
    <3>2. Rest(c, gap - 1) = c + gap
      BY <2>6 DEF Rest
    <3> QED
      BY <2>1, <2>4, <2>6, <2>13, <3>1, <3>2 DEF LedTo
  <2>15. LedSize(heap, c, gap) = s - gap
    BY <2>6, <2>10, <2>13 DEF LedSize
  <2>16. Size(g, b) \in m..(m + 3)
    <3>1. ~(s - gap < m)
      BY <2>6, <2>8, <2>11
    <3> QED
      BY <2>4, <2>9, <2>15, <3>1
  <2>17. (b + 1) % a = 0
    <3>1. (p + gap) % a = 0
      BY <1>2, <2>6, GapFits
    <3>2. b + 1 = p + gap
      BY <2>5, <2>6, <2>14
    <3> QED
      BY <3>1, <3>2
  <2>18. n # 0
    BY <1>3, <2>8 DEF Adjust, MinSize
  <2>19. heap' = Overwrite(g) /\ ptrs' = ptrs \cup {b + 1}
    BY <1>6, <2>1, <2>2
  <2> QED
    BY <1>1, <1>2, <1>3, <1>6, <2>8, <2>9, <2>16, <2>17, <2>18, <2>19, Joins
<1> QED
  <2>1. ASSUME NEW f \in LocateFree(heap, z),
               LET h   == RemoveFreeBlock(heap, f.block, f.at)
                   gap == Gap(f.block + 1, a)
                   cut == gap # 0 /\ CanSplit(h, f.block, gap)
                   b   == IF cut THEN Rest(f.block, gap - 1) ELSE f.block
                   h1  == IF cut THEN TrimFreeLeading(h, f.block, gap) ELSE h
               IN  /\ heap' = Overwrite(PrepareUsed(h1, b, m))
                   /\ ptrs' = ptrs \cup {b + 1},
               refused' = {}
        PROVE  H!HeapNext
    <3>1. /\ heap' = Overwrite(PrepareUsed(Led(G1(f), f.block, Gp(f)), At(f), m))
          /\ ptrs' = ptrs \cup {At(f) + 1}
      BY <2>1 DEF Led, LedTo, Leads
    <3> HIDE DEF G1, Gp, At
    <3> QED
      BY <1>6, <2>1, <3>1
  <2> QED
    BY <1>3, <1>5, <2>1 DEF Memalign

(* tlsf_free gives one payload back and leaves the others.                  *)
LEMMA FreePromise ==
    ASSUME PoolIndexed, Sound(heap, ptrs), NEW p \in ptrs, Free(p)
    PROVE  H!HeapNext
<1>1. PICK B, U : Good(heap, B, {}, U) /\ ptrs = {b + 1 : b \in U}
  BY DEF Sound
<1>2. p - 1 \in U /\ ptrs \ {p} = {b + 1 : b \in U \ {p - 1}} /\ U \in SUBSET Nat
  BY <1>1, UsedWords, PtrsWithout
<1>3. PICK x \in U : x = p - 1
  BY <1>2
<1>0. PICK V : V = U \ {x}
  OBVIOUS
<1>4. PICK C : Good(Freed(heap, p), C, {}, V) /\ Kept(Freed(heap, p), heap, V)
  BY <1>0, <1>1, <1>2, <1>3, FreedIs
<1>5. PICK k : k = Overwrite(Freed(heap, p))
  OBVIOUS
<1>6. Good(k, C, {}, V) /\ Kept(k, Freed(heap, p), V)
  BY <1>4, <1>5, OverwriteIs
<1>7. Kept(k, heap, V)
  BY <1>4, <1>6 DEF Kept
<1>8. heap' = k /\ ptrs' = {b + 1 : b \in V} /\ refused' = {}
  BY <1>0, <1>2, <1>3, <1>5 DEF Free
<1>9. V \in SUBSET Nat
  BY <1>0, <1>2
<1>10. Held(heap, ptrs) = Recs(heap, U)
  BY <1>1, <1>2, HeldIs
<1>11. Held(k, ptrs') = Recs(k, V)
  BY <1>8, <1>9, HeldIs
<1>12. Recs(k, V) = Recs(heap, V)
  BY <1>7, KeptRecs
<1>13. Recs(heap, U) \ {Rec(heap, x)} = Recs(heap, V)
  BY <1>0, <1>2, <1>3, RecsWithout
<1>14. Held(heap', ptrs') = Held(heap, ptrs) \ {Rec(heap, x)} /\ Rec(heap, x) \in Held(heap, ptrs)
  BY <1>8, <1>10, <1>11, <1>12, <1>13 DEF Recs
<1> QED
  BY <1>8, <1>14, GiveBackStep

(* A payload x becomes y, which may be the same place; the others stay.     *)
Turns(x, y, B, U, S, V, g, C, z) ==
    /\ Good(heap, B, {}, U) /\ ptrs = {b + 1 : b \in U} /\ x \in U
    /\ S = U \ {x} /\ y \notin S /\ V = S \cup {y}
    /\ Good(g, C, {}, V) /\ Kept(g, heap, S) /\ Size(g, y) \in z..(z + 3)
    /\ heap' = Overwrite(g) /\ ptrs' = {b + 1 : b \in V} /\ refused' = {}
LEMMA Resized ==
    ASSUME NEW x, NEW y, NEW B, NEW U, NEW S, NEW V, NEW g, NEW C, NEW n \in Sizes, NEW z \in Nat,
           z = Adjust(n, 1), n # 0, Turns(x, y, B, U, S, V, g, C, z)
    PROVE  H!HeapNext
<1>0. /\ Good(heap, B, {}, U) /\ ptrs = {b + 1 : b \in U} /\ x \in U
      /\ S = U \ {x} /\ y \notin S /\ V = S \cup {y}
      /\ Good(g, C, {}, V) /\ Kept(g, heap, S) /\ Size(g, y) \in z..(z + 3)
      /\ heap' = Overwrite(g) /\ ptrs' = {b + 1 : b \in V} /\ refused' = {}
  BY DEF Turns
<1>1. PICK k : k = Overwrite(g)
  OBVIOUS
<1>2. Good(k, C, {}, V) /\ Kept(k, g, V)
  BY <1>0, <1>1, OverwriteIs
<1>3. y \in V /\ V \ {y} = S
  BY <1>0
<1>4. Kept(k, heap, S) /\ Size(k, y) = Size(g, y)
  BY <1>0, <1>1, <1>2 DEF Kept
<1>5. U \in SUBSET Nat /\ V \in SUBSET Nat
  BY <1>0, <1>2, UsedWords
<1>6. PICK one \in Nat \ {0} : one = 1
  OBVIOUS
<1>7. (y + 1) % one = 0
  <2>1. y \in Nat
    BY <1>3, <1>5
  <2> QED
    BY <1>6, <2>1
<1>8. Rec(k, y) \in H!Grants(n, one, Recs(k, V \ {y}))
  BY <1>0, <1>2, <1>3, <1>4, <1>7, Granted
<1>9. Recs(k, S) = Recs(heap, S)
  BY <1>0, <1>4, KeptRecs
<1>10. Held(heap, ptrs) = Recs(heap, U)
  BY <1>0, <1>5, HeldIs
<1>11. Recs(heap, U) \ {Rec(heap, x)} = Recs(heap, S)
  BY <1>0, <1>1, <1>5, RecsWithout
<1>12. Held(k, ptrs') = Recs(k, V)
  BY <1>0, <1>1, <1>5, HeldIs
<1>13. Recs(k, V) = Recs(k, S) \cup {Rec(k, y)}
  BY <1>0 DEF Recs
<1>14. Held(heap', ptrs') = (Held(heap, ptrs) \ {Rec(heap, x)}) \cup {Rec(k, y)}
  BY <1>0, <1>1, <1>9, <1>10, <1>11, <1>12, <1>13
<1>15. Rec(k, y) \in H!Grants(n, 1, Held(heap, ptrs) \ {Rec(heap, x)})
  BY <1>0, <1>3, <1>6, <1>8, <1>9, <1>10, <1>11
<1>16. Rec(heap, x) \in Held(heap, ptrs)
  BY <1>0, <1>10 DEF Recs
<1> QED
  BY <1>0, <1>14, <1>15, <1>16, ResizeStep

(* tlsf_realloc to another place                                            *)
LEMMA MovePromise ==
    ASSUME PoolIndexed, Sound(heap, ptrs), NEW p \in ptrs, NEW n \in Sizes, ReallocMove(p, n)
    PROVE  H!HeapNext
<1>1. PICK B, U : Good(heap, B, {}, U) /\ ptrs = {b + 1 : b \in U}
  BY DEF Sound
<1>2. PICK z : z = Adjust(n, 1) /\ Adjusted(z)
  BY RequestIs
<1>3. 1 \in Aligns \cup {1} /\ Asked(n, 1) = z
  BY <1>2 DEF Asked
<1>4. CASE LocateFree(heap, z) = {} /\ refused' = {[n |-> n, align |-> 1]} /\ UNCHANGED <<heap, ptrs>>
  <2>1. H!NoRun(Enough(n, 1))
    BY <1>1, <1>2, <1>3, <1>4, RefusedRightly
  <2> QED
    BY <1>3, <1>4, <2>1, RefuseStep
<1>5. p - 1 \in U /\ ptrs \ {p} = {b + 1 : b \in U \ {p - 1}}
  BY <1>1, UsedWords, PtrsWithout
<1>6. ASSUME NEW f \in LocateFree(heap, z),
             heap' = Overwrite(Freed(PrepareUsed(RemoveFreeBlock(heap, f.block, f.at), f.block, z), p)),
             ptrs' = (ptrs \ {p}) \cup {f.block + 1}, refused' = {}
      PROVE  H!HeapNext
  <2>1. PICK g, b : /\ g = PrepareUsed(RemoveFreeBlock(heap, f.block, f.at), f.block, z)
                    /\ b = f.block
    OBVIOUS
  <2>2. PICK C : /\ Good(g, C, {}, U \cup {b}) /\ Kept(g, heap, U) /\ b \notin U
                 /\ Size(g, b) = TrimSize(heap, b, z)
    BY <1>1, <1>2, <2>1, MallocIs
  <2>3. z \in Nat /\ z >= MinSize
    BY <1>1, <1>2, LocateIs
  <2>4. Size(heap, b) \in Nat /\ Size(heap, b) >= z
    BY <1>1, <1>2, <2>1, FoundServes
  <2>5. Size(g, b) \in z..(z + 3)
    BY <2>2, <2>3, <2>4, TrimmedFits
  <2>6. n # 0
    BY <1>2, <2>3 DEF Adjust, MinSize
  <2>7. PICK x \in U : x = p - 1
    BY <1>5
  <2>8. PICK k, S, T, V : k = Freed(g, p) /\ S = U \ {x} /\ T = U \cup {b} /\ V = S \cup {b}
    OBVIOUS
  <2>9. PICK D : Good(k, D, {}, T \ {p - 1}) /\ Kept(k, g, T \ {p - 1})
    BY <1>5, <2>2, <2>8, FreedIs
  <2>10. T \ {p - 1} = V /\ b \notin S /\ S = U \ {x}
    BY <2>2, <2>7, <2>8
  <2>11. Good(k, D, {}, V)
    BY <2>9, <2>10
  <2>12. Kept(k, heap, S) /\ Size(k, b) = Size(g, b)
    BY <2>2, <2>8, <2>9, <2>10 DEF Kept
  <2>13. heap' = Overwrite(k) /\ ptrs' = {c + 1 : c \in V}
    BY <1>5, <1>6, <2>1, <2>7, <2>8
  <2>14. V = S \cup {b} /\ Size(k, b) \in z..(z + 3)
    BY <2>5, <2>8, <2>12
  <2>15. Turns(x, b, B, U, S, V, k, D, z)
    BY <1>1, <1>6, <2>7, <2>10, <2>11, <2>12, <2>13, <2>14 DEF Turns
  <2> QED
    BY <1>2, <2>3, <2>6, <2>15, Resized
<1> QED
  BY <1>2, <1>4, <1>6 DEF ReallocMove

(* tlsf_realloc in place: the next block has the room that is missing.      *)
LEMMA InPlacePromise ==
    ASSUME PoolIndexed, Sound(heap, ptrs), NEW p \in ptrs, NEW n \in Sizes, n # 0,
           NEW x, x = p - 1,
           Adjust(n, 1) > Size(heap, x) =>
               /\ Is(heap, NextOf(heap, x), "free")
               /\ ~(Adjust(n, 1) > Size(heap, x) + Size(heap, NextOf(heap, x)) + 1),
           ReallocInPlace(p, n)
    PROVE  H!HeapNext
<1>1. PICK B, U : Good(heap, B, {}, U) /\ ptrs = {b + 1 : b \in U}
  BY DEF Sound
<1>2. PICK z \in Nat : z = Adjust(n, 1) /\ z >= MinSize
  BY RequestIs, AdjustServes DEF Adjusted
<1>3. x \in U
  BY <1>1, UsedWords, PtrsWithout
<1>4. PICK g : g = TrimUsed(Grown(heap, x, z), x, z)
  OBVIOUS
<1>5. PICK C : /\ Good(g, C, {}, U) /\ Kept(g, heap, U \ {x})
               /\ Size(g, x) = TrimSize(Grown(heap, x, z), x, z)
               /\ Size(Grown(heap, x, z), x) = GrownSize(heap, x, z)
  BY <1>1, <1>2, <1>3, <1>4, GrownIs
<1>6. heap' = Overwrite(g) /\ ptrs' = ptrs /\ refused' = {}
  BY <1>2, <1>4 DEF ReallocInPlace, Grown
<1>7. PICK k : k = Grown(heap, x, z)
  OBVIOUS
<1>8. Size(k, x) \in Nat /\ Size(k, x) >= z
  <2>1. /\ Size(heap, x) \in Nat /\ Size(heap, NextOf(heap, x)) \in Nat
    <3>1. heap \in Heaps /\ Tiles(heap, B) /\ x \in B
      BY <1>1, <1>3, UsedWords DEF Good
    <3>2. x \in Words /\ NextOf(heap, x) \in Words /\ \A w \in Words : Size(heap, w) \in Nat
      BY <3>1, TileFacts
    <3> QED
      BY <3>2
  <2>2. CASE z > Size(heap, x)
    <3>1. Size(k, x) = Size(heap, x) + Size(heap, NextOf(heap, x)) + 1
      BY <1>2, <1>5, <1>7, <2>2 DEF MergeSize, GrownSize
    <3> QED
      BY <1>2, <2>1, <2>2, <3>1
  <2>3. CASE ~(z > Size(heap, x))
    BY <1>5, <1>7, <2>1, <2>3 DEF GrownSize
  <2> QED
    BY <2>2, <2>3
<1>9. Size(g, x) \in z..(z + 3)
  BY <1>5, <1>7, <1>8, TrimmedFits
<1>10. PICK S : S = U \ {x}
  OBVIOUS
<1>11. U = S \cup {x} /\ x \notin S /\ Kept(g, heap, S) /\ ptrs' = {b + 1 : b \in U}
  BY <1>1, <1>3, <1>5, <1>6, <1>10
<1>12. Turns(x, x, B, U, S, U, g, C, z)
  BY <1>1, <1>3, <1>5, <1>6, <1>9, <1>10, <1>11 DEF Turns
<1> QED
  BY <1>2, <1>12, Resized

(* Every call is a step of HeapSpec.                                        *)
LEMMA TlsfPromise ==
    ASSUME PoolIndexed, Sound(heap, ptrs), TlsfNext
    PROVE  H!HeapNext
<1>1. ASSUME NEW p \in ptrs, NEW n \in Sizes, Realloc(p, n) PROVE H!HeapNext
  <2>1. PICK x : x = p - 1
    OBVIOUS
  <2> DEFINE next == NextOf(heap, x)
             combined == Size(heap, x) + Size(heap, next) + 1
             moves == /\ Adjust(n, 1) > Size(heap, x)
                      /\ ~Is(heap, next, "free") \/ Adjust(n, 1) > combined
  <2>2. CASE Free(p)
    BY <2>2, FreePromise
  <2>3. CASE ReallocMove(p, n)
    BY <2>3, MovePromise
  <2>4. CASE n # 0 /\ ~moves /\ ReallocInPlace(p, n)
    <3>1. Adjust(n, 1) > Size(heap, x) =>
              /\ Is(heap, NextOf(heap, x), "free")
              /\ ~(Adjust(n, 1) > Size(heap, x) + Size(heap, NextOf(heap, x)) + 1)
      BY <2>4
    <3> HIDE DEF moves
    <3> QED
      BY <2>1, <2>4, <3>1, InPlacePromise
  <2> QED
    BY <1>1, <2>1, <2>2, <2>3, <2>4 DEF Realloc
<1> QED
  BY <1>1, MallocPromise, MemalignPromise, FreePromise DEF TlsfNext

(* A step of the kernel's memory is a step of HeapSpec or leaves the        *)
(* payloads alone.                                                          *)
LEMMA PromiseStep ==
    ASSUME PoolIndexed, HeapInv, [KmNext]_kmVars
    PROVE  [H!HeapNext]_<<Held(heap, ptrs), refused>>
<1>1. CASE InitKmalloc
  <2>1. ptrs = {} /\ ptrs' = ptrs /\ refused' = refused
    BY <1>1 DEF InitKmalloc, HeapInv
  <2>2. Held(heap', ptrs') = Held(heap, ptrs)
    BY <2>1 DEF Held
  <2> QED
    BY <2>1, <2>2 DEF Held
<1>2. CASE HeapCall
  <2>1. Sound(heap, ptrs) /\ TlsfNext
    BY <1>2 DEF HeapCall, HeapInv
  <2> QED
    BY <2>1, TlsfPromise
<1>3. CASE UNCHANGED tlsfVars
  BY <1>3 DEF tlsfVars, Held
<1> QED
  BY <1>1, <1>2, <1>3 DEF KmNext, PageCall, kmVars

(* The heap keeps its promise: payloads never overlap, are aligned and as   *)
(* long as asked, and a request is refused only when no free run is as long *)
(* as the size class that block_locate_free searches; for every pool        *)
(* shorter than block_size_max and every set of sizes and alignments.       *)
THEOREM HeapKeepsPromise ==
    ASSUME PoolIndexed
    PROVE  KmSpec => HeapPromise
<1>1. KmInit => H!HeapInit
  BY DEF KmInit, H!HeapInit
<1>2. HeapInv /\ [KmNext]_kmVars => [H!HeapNext]_<<Held(heap, ptrs), refused>>
  BY PromiseStep
<1> QED
  BY <1>1, <1>2, HeapInductive, PTL DEF KmSpec, HeapPromise, H!HeapSpec, Held
=============================================================================
