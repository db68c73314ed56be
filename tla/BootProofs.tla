----------------------------- MODULE BootProofs -----------------------------
(***************************************************************************)
(* What both boots promise, for every tree, machine and order of events: a  *)
(* guest that is let pass fits the configuration, every hart has a number   *)
(* of its own, every CPU sets up its own redistributor, in a frame that is  *)
(* mapped when the boot CPU's maps keep what they hold, and RISC-V's page   *)
(* tables map what was asked for and nothing else.  Recursive functions are *)
(* dealt with as in KernelMemProofs.                                        *)
(***************************************************************************)
EXTENDS Boot, FiniteSetTheorems, WellFoundedInduction, TLAPS

-----------------------------------------------------------------------------
(* Numbers and recursion                                                    *)

(* The least element of a set of natural numbers.                           *)
LEMMA MinIs ==
    ASSUME NEW T \in SUBSET Nat, T # {}
    PROVE  Min(T) \in T /\ \A n \in T : Min(T) <= n
<1> DEFINE R == {ss \in Nat \X Nat : ss[1] < ss[2]}
<1>1. IsWellFoundedOn(R, Nat)
  BY NatLessThanWellFounded DEF OpToRel
<1> HIDE DEF R
<1>2. \E m \in T : \A n \in T : ~(<<n, m>> \in R)
  BY <1>1, WFMin
<1> USE DEF R
<1>3. PICK m \in T : \A n \in T : ~(<<n, m>> \in R)
  BY <1>2
<1>4. \A n \in T : ~(n < m) /\ n \in Nat /\ m \in Nat
  BY <1>3
<1> HIDE DEF R
<1>5. \A n \in T : m <= n
  BY <1>4
<1> QED
  BY <1>5 DEF Min

(* What holds at 0, and at k once it holds below k, holds up to n.          *)
LEMMA UpTo ==
    ASSUME NEW n \in Nat, NEW G, 0 \in G,
           \A k \in 1..n : (\A j \in 0..(k - 1) : j \in G) => k \in G
    PROVE  \A k \in 0..n : k \in G
<1> DEFINE Bad == {k \in 0..n : k \notin G}
<1> SUFFICES ASSUME Bad # {} PROVE FALSE
  OBVIOUS
<1>1. Bad \in SUBSET Nat
  OBVIOUS
<1>2. PICK m \in Bad : \A k \in Bad : m <= k
  <2> HIDE DEF Bad
  <2> QED
    BY <1>1, MinIs
<1>3. m \in 1..n /\ \A j \in 0..(m - 1) : j \in G
  BY <1>2
<1> QED
  BY <1>2, <1>3

(* A function on 0..n whose value at k is computed from its value at an     *)
(* earlier place, and the functions that are so computed.                   *)
GoesBack(n, V, prev, step) ==
    /\ \A k \in 1..n : prev[k] \in 0..(k - 1)
    /\ \A k \in 1..n, v \in V : step[<<k, v>>] \in V
Computed(f, n, base, prev, step) == f[0] = base /\ \A k \in 1..n : f[k] = step[<<k, f[prev[k]]>>]

(* There is such a function.                                                *)
LEMMA Recursion ==
    ASSUME NEW n \in Nat, NEW V, NEW base \in V, NEW prev, NEW step, GoesBack(n, V, prev, step)
    PROVE  \E f \in [0..n -> V] : Computed(f, n, base, prev, step)
<1> USE DEF GoesBack, Computed
<1> DEFINE Good(m) == \E f \in [0..m -> V] : f[0] = base /\ \A k \in 1..m : f[k] = step[<<k, f[prev[k]]>>]
           G == {m \in 0..n : Good(m)}
<1>1. 0 \in G
  <2> DEFINE f == [k \in 0..0 |-> base]
  <2>1. f \in [0..0 -> V] /\ f[0] = base /\ 1..0 = {}
    OBVIOUS
  <2> HIDE DEF f
  <2>2. Good(0)
    BY <2>1
  <2> HIDE DEF Good
  <2> QED
    BY <2>2
<1>2. ASSUME NEW m \in 1..n, \A j \in 0..(m - 1) : j \in G PROVE m \in G
  <2>1. m - 1 \in 0..(m - 1) /\ m - 1 \in 0..n
    OBVIOUS
  <2>2. Good(m - 1)
    <3> HIDE DEF Good
    <3> QED
      BY <1>2, <2>1
  <2>3. PICK f \in [0..(m - 1) -> V] : f[0] = base /\ \A k \in 1..(m - 1) : f[k] = step[<<k, f[prev[k]]>>]
    BY <2>2
  <2> DEFINE g == [k \in 0..m |-> IF k = m THEN step[<<m, f[prev[m]]>>] ELSE f[k]]
  <2>4. prev[m] \in 0..(m - 1) /\ f[prev[m]] \in V
    OBVIOUS
  <2>5. step[<<m, f[prev[m]]>>] \in V
    BY <2>4
  <2>6. \A k \in 0..(m - 1) : k \in 0..m /\ k # m /\ f[k] \in V
    OBVIOUS
  <2>7. \A k \in 0..m : k = m \/ k \in 0..(m - 1)
    OBVIOUS
  <2>8. g \in [0..m -> V]
    BY <2>5, <2>6, <2>7
  <2>9. g[m] = step[<<m, f[prev[m]]>>] /\ \A k \in 0..(m - 1) : g[k] = f[k]
    BY <2>6
  <2> HIDE DEF g
  <2>10. g[0] = base
    BY <2>3, <2>9
  <2>11. ASSUME NEW k \in 1..m PROVE g[k] = step[<<k, g[prev[k]]>>]
    <3>1. CASE k = m
      BY <2>4, <2>9, <3>1
    <3>2. CASE k # m
      <4>1. k \in 1..(m - 1) /\ k \in 0..(m - 1) /\ k \in 1..n
        BY <3>2
      <4>2. prev[k] \in 0..(k - 1)
        BY <4>1
      <4>3. prev[k] \in 0..(m - 1)
        BY <4>1, <4>2
      <4> QED
        BY <2>3, <2>9, <4>1, <4>3
    <3> QED
      BY <3>1, <3>2
  <2>12. Good(m)
    BY <2>8, <2>10, <2>11
  <2> HIDE DEF Good
  <2> QED
    BY <2>12
<1>3. n \in G
  <2> HIDE DEF G
  <2>1. \A k \in 0..n : k \in G
    BY <1>1, <1>2, UpTo
  <2> QED
    BY <2>1
<1> QED
  BY <1>3

-----------------------------------------------------------------------------
(* aarch64: what is read from a tree                                        *)

Cells == 0..(Cell - 1)

(* A cell is a natural number.                                              *)
LEMMA CellsAre == Cell \in Nat \ {0} /\ Cell * Cell \in Nat \ {0} /\ Cells \subseteq Nat
BY BootCfgAssumption DEF Cells

(* A number read from cells is a natural number.                            *)
LEMMA ReadCellsType ==
    ASSUME NEW cells, Len(cells) \in Nat, \A i \in 1..Len(cells) : cells[i] \in Nat
    PROVE  ReadCells(cells) \in Nat
<1> DEFINE n == Len(cells)
           C == Cell * Cell
           read[k \in 0..Len(cells)] == IF k = 0 THEN 0 ELSE (read[k - 1] * Cell + cells[k]) % (Cell * Cell)
           prev == [k \in 1..n |-> k - 1]
           step == [kv \in (1..n) \X Nat |-> (kv[2] * Cell + cells[kv[1]]) % C]
<1>1. ReadCells(cells) = read[Len(cells)]
  BY DEF ReadCells
<1>2. C \in Nat \ {0} /\ Cell \in Nat
  BY CellsAre
<1>3. \A k \in 1..n, v \in Nat : (v * Cell + cells[k]) % C \in Nat
  <2> SUFFICES ASSUME NEW k \in 1..n, NEW v \in Nat PROVE (v * Cell + cells[k]) % C \in Nat
    OBVIOUS
  <2>1. v * Cell \in Nat
    BY <1>2
  <2>2. v * Cell + cells[k] \in Nat
    BY <2>1
  <2> HIDE DEF C
  <2> QED
    BY <1>2, <2>2
<1>4. /\ \A k \in 1..n : prev[k] = k - 1
      /\ \A k \in 1..n, v \in Nat : step[<<k, v>>] = (v * Cell + cells[k]) % C
  <2> HIDE DEF C
  <2> QED
    OBVIOUS
<1>5. \E f \in [0..n -> Nat] : f[0] = 0 /\ \A k \in 1..n : f[k] = step[<<k, f[prev[k]]>>]
  <2>1. \A k \in 1..n : prev[k] \in 0..(k - 1)
    BY <1>4
  <2>2. \A k \in 1..n, v \in Nat : step[<<k, v>>] \in Nat
    <3> HIDE DEF step, C
    <3> QED
      BY <1>3, <1>4
  <2>3. n \in Nat /\ GoesBack(n, Nat, prev, step)
    BY <2>1, <2>2 DEF GoesBack
  <2> HIDE DEF step, prev, n
  <2>4. \E f \in [0..n -> Nat] : Computed(f, n, 0, prev, step)
    BY <2>3, Recursion
  <2> QED
    BY <2>4 DEF Computed
<1>6. PICK f \in [0..n -> Nat] : f[0] = 0 /\ \A k \in 1..n : f[k] = step[<<k, f[prev[k]]>>]
  BY <1>5
<1>7. \A k \in 0..n : f[k] = IF k = 0 THEN 0 ELSE (f[k - 1] * Cell + cells[k]) % C
  <2> SUFFICES ASSUME NEW k \in 0..n PROVE f[k] = IF k = 0 THEN 0 ELSE (f[k - 1] * Cell + cells[k]) % C
    OBVIOUS
  <2> HIDE DEF step, prev, C, n
  <2>1. CASE k = 0
    BY <1>6, <2>1
  <2>2. CASE k # 0
    <3>1. k \in 1..n /\ k - 1 \in 0..n /\ prev[k] = k - 1
      BY <1>4, <2>2 DEF n
    <3>2. f[k - 1] \in Nat
      BY <3>1
    <3> QED
      BY <1>4, <1>6, <2>2, <3>1, <3>2
  <2> QED
    BY <2>1, <2>2
<1>8. f = [k \in 0..n |-> IF k = 0 THEN 0 ELSE (f[k - 1] * Cell + cells[k]) % C]
  <2> HIDE DEF C, n, step, prev
  <2> QED
    BY <1>7
<1>9. read = [k \in 0..Len(cells) |-> IF k = 0 THEN 0 ELSE (read[k - 1] * Cell + cells[k]) % (Cell * Cell)]
  BY <1>8
<1> HIDE DEF read
<1>10. \A k \in 0..n : read[k] = IF k = 0 THEN 0 ELSE (read[k - 1] * Cell + cells[k]) % C
  BY <1>9
<1> DEFINE G == {k \in 0..n : read[k] \in Nat}
<1>11. 0 \in G
  BY <1>10
<1>12. ASSUME NEW k \in 1..n, \A j \in 0..(k - 1) : j \in G PROVE k \in G
  <2>1. k - 1 \in 0..(k - 1) /\ k \in 0..n /\ k # 0
    OBVIOUS
  <2>2. read[k - 1] \in Nat
    BY <1>12, <2>1
  <2> HIDE DEF C, n
  <2> QED
    BY <1>3, <1>10, <2>1, <2>2
<1>13. \A k \in 0..n : k \in G
  <2> HIDE DEF G
  <2> QED
    BY <1>11, <1>12, UpTo
<1> QED
  BY <1>1, <1>13

(* A property that is no string is cells, or nothing.                       *)
LEMMA PropType ==
    ASSUME NEW tree, IsTree(tree), NEW n \in 0..Len(tree), NEW p, p \notin StringProps
    PROVE  Prop(tree, n, p) \in Seq(Cells)
<1>1. CASE n # 0 /\ p \in DOMAIN tree[n].prop
  BY <1>1 DEF Prop, IsTree, Cells
<1>2. CASE ~(n # 0 /\ p \in DOMAIN tree[n].prop)
  BY <1>2 DEF Prop
<1> QED
  BY <1>1, <1>2

(* A number of cells, found at a node or above it, is a natural number.     *)
LEMMA CellCountType ==
    ASSUME NEW tree, IsTree(tree), NEW node \in 0..Len(tree), NEW p, p \notin StringProps
    PROVE  InheritedCellCount(tree, node, p) \in Nat
<1> DEFINE N == Len(tree)
           up[n \in 0..Len(tree)] ==
               IF n = 0 THEN 2
               ELSE IF Prop(tree, n, p) # <<>> THEN Prop(tree, n, p)[1] ELSE up[tree[n].parent]
           prev == [k \in 1..N |-> tree[k].parent]
           step == [kv \in (1..N) \X Nat |-> IF Prop(tree, kv[1], p) # <<>> THEN Prop(tree, kv[1], p)[1] ELSE kv[2]]
<1>1. InheritedCellCount(tree, node, p) = up[node]
  BY DEF InheritedCellCount
<1>2. N \in Nat /\ \A k \in 1..N : tree[k].parent \in 0..(k - 1)
  BY DEF IsTree
<1>3. ASSUME NEW k \in 1..N, Prop(tree, k, p) # <<>> PROVE Prop(tree, k, p)[1] \in Nat
  <2>1. k \in 0..Len(tree)
    OBVIOUS
  <2>2. Prop(tree, k, p) \in Seq(Cells)
    BY <2>1, PropType
  <2>3. Prop(tree, k, p)[1] \in Cells
    BY <1>3, <2>2
  <2> QED
    BY <2>3, CellsAre
<1>4. /\ \A k \in 1..N : prev[k] = tree[k].parent
      /\ \A k \in 1..N, v \in Nat : step[<<k, v>>] = IF Prop(tree, k, p) # <<>> THEN Prop(tree, k, p)[1] ELSE v
  OBVIOUS
<1>5. \E f \in [0..N -> Nat] : f[0] = 2 /\ \A k \in 1..N : f[k] = step[<<k, f[prev[k]]>>]
  <2>1. \A k \in 1..N : prev[k] \in 0..(k - 1)
    BY <1>2, <1>4
  <2>2. \A k \in 1..N, v \in Nat : step[<<k, v>>] \in Nat
    <3> HIDE DEF step
    <3> QED
      BY <1>3, <1>4
  <2>3. N \in Nat /\ GoesBack(N, Nat, prev, step)
    BY <1>2, <2>1, <2>2 DEF GoesBack
  <2> HIDE DEF step, prev, N
  <2>4. \E f \in [0..N -> Nat] : Computed(f, N, 2, prev, step)
    BY <2>3, Recursion
  <2> QED
    BY <2>4 DEF Computed
<1>6. PICK f \in [0..N -> Nat] : f[0] = 2 /\ \A k \in 1..N : f[k] = step[<<k, f[prev[k]]>>]
  BY <1>5
<1>7. \A k \in 0..N : f[k] = IF k = 0 THEN 2
                             ELSE IF Prop(tree, k, p) # <<>> THEN Prop(tree, k, p)[1] ELSE f[tree[k].parent]
  <2> SUFFICES ASSUME NEW k \in 1..N
               PROVE  f[k] = IF Prop(tree, k, p) # <<>> THEN Prop(tree, k, p)[1] ELSE f[tree[k].parent]
    BY <1>2, <1>6
  <2>1. tree[k].parent \in 0..N /\ prev[k] = tree[k].parent
    BY <1>2, <1>4
  <2> HIDE DEF step, prev, N
  <2>2. f[tree[k].parent] \in Nat
    BY <2>1
  <2>3. f[k] = step[<<k, f[tree[k].parent]>>]
    BY <1>6, <2>1
  <2> QED
    BY <1>4, <2>2, <2>3
<1>8. f = [k \in 0..N |-> IF k = 0 THEN 2
                          ELSE IF Prop(tree, k, p) # <<>> THEN Prop(tree, k, p)[1] ELSE f[tree[k].parent]]
  <2> HIDE DEF N, step, prev
  <2> QED
    BY <1>7
<1>9. up = [n \in 0..Len(tree) |->
               IF n = 0 THEN 2
               ELSE IF Prop(tree, n, p) # <<>> THEN Prop(tree, n, p)[1] ELSE up[tree[n].parent]]
  BY <1>8
<1> HIDE DEF up
<1> DEFINE G == {k \in 0..N : up[k] \in Nat}
<1>10. \A k \in 0..N : up[k] = IF k = 0 THEN 2
                               ELSE IF Prop(tree, k, p) # <<>> THEN Prop(tree, k, p)[1] ELSE up[tree[k].parent]
  BY <1>9
<1>11. 0 \in G
  BY <1>2, <1>10
<1>12. ASSUME NEW k \in 1..N, \A j \in 0..(k - 1) : j \in G PROVE k \in G
  <2>1. k \in 0..N /\ k # 0 /\ tree[k].parent \in 0..(k - 1)
    BY <1>2
  <2>2. up[tree[k].parent] \in Nat
    BY <1>12, <2>1
  <2> QED
    BY <1>3, <1>10, <2>1, <2>2
<1>13. \A k \in 0..N : k \in G
  <2> HIDE DEF G, N
  <2> QED
    BY <1>2, <1>11, <1>12, UpTo
<1> QED
  BY <1>1, <1>13

(* A pair that is read from a reg is a base and a size.                     *)
LEMMA RegPairType ==
    ASSUME NEW reg \in Seq(Cells), NEW index \in Nat, NEW na \in Nat, NEW ns \in Nat,
           RegPair(reg, index, na, ns) # <<>>
    PROVE  \E r \in Frame : RegPair(reg, index, na, ns) = <<r>>
<1> DEFINE off == index * (na + ns)
           a == SubSeq(reg, off + 1, off + na)
           s == SubSeq(reg, off + na + 1, off + na + ns)
<1>1. off \in Nat
  OBVIOUS
<1> HIDE DEF off
<1>2. Len(reg) >= off + na + ns /\ RegPair(reg, index, na, ns) = <<<<ReadCells(a), ReadCells(s)>>>>
  BY <1>1 DEF RegPair, off
<1>3. \A i \in 1..Len(reg) : reg[i] \in Nat
  <2>1. \A i \in 1..Len(reg) : reg[i] \in Cells
    OBVIOUS
  <2> QED
    BY <2>1, CellsAre
<1>4. Len(a) \in Nat /\ \A i \in 1..Len(a) : a[i] \in Nat
  BY <1>1, <1>2, <1>3
<1>5. Len(s) \in Nat /\ \A i \in 1..Len(s) : s[i] \in Nat
  BY <1>1, <1>2, <1>3
<1> HIDE DEF a, s
<1>6. <<ReadCells(a), ReadCells(s)>> \in Frame
  BY <1>4, <1>5, ReadCellsType DEF Frame
<1> QED
  BY <1>2, <1>6

(* RegEntry gives nothing or a pair of natural numbers.                     *)
LEMMA RegEntryType ==
    ASSUME NEW tree, IsTree(tree), NEW n \in 0..Len(tree), NEW index \in Nat, RegEntry(tree, n, index) # <<>>
    PROVE  \E r \in Frame : RegEntry(tree, n, index) = <<r>>
<1>1. n # 0
  BY DEF RegEntry
<1>2. tree[n].parent \in 0..Len(tree)
  BY <1>1 DEF IsTree
<1> DEFINE na == InheritedCellCount(tree, tree[n].parent, "#address-cells")
           ns == InheritedCellCount(tree, tree[n].parent, "#size-cells")
<1>3. na \in Nat /\ ns \in Nat
  BY <1>2, CellCountType DEF StringProps
<1>4. Prop(tree, n, "reg") \in Seq(Cells)
  BY PropType DEF StringProps
<1> HIDE DEF na, ns
<1>5. RegEntry(tree, n, index) = RegPair(Prop(tree, n, "reg"), index, na, ns)
  BY <1>1 DEF RegEntry, na, ns
<1> QED
  BY <1>3, <1>4, <1>5, RegPairType

(* The searches answer a node of the tree, or 0.                            *)
LEMMA ByCompatibleType ==
    ASSUME NEW tree, IsTree(tree), NEW from \in Nat, NEW c
    PROVE  ByCompatible(tree, from, c) \in 0..Len(tree)
<1> DEFINE found == {n \in (from + 1)..Len(tree) : c \in tree[n].compat}
<1>1. ByCompatible(tree, from, c) = IF found = {} THEN 0 ELSE Min(found)
  BY DEF ByCompatible, Behind
<1>2. found \in SUBSET Nat /\ found \subseteq 0..Len(tree) /\ Len(tree) \in Nat
  BY DEF IsTree
<1> HIDE DEF found
<1>3. CASE found = {}
  BY <1>1, <1>2, <1>3
<1>4. CASE found # {}
  <2>1. Min(found) \in found
    BY <1>2, <1>4, MinIs
  <2> QED
    BY <1>1, <1>2, <1>4, <2>1
<1> QED
  BY <1>3, <1>4

(* Which device an address leads to: the first region that has it.          *)
LEMMA DeviceAtIs ==
    ASSUME NEW c, c.gicd \in Frame, c.gicr \in Frame, c.uart \in Frame, NEW a \in Int
    PROVE  /\ c.gicd[1] <= a /\ a < c.gicr[1] + c.gicr[2] => DeviceAt(c, a) = "gic3"
           /\ ~(c.gicd[1] <= a /\ a < c.gicr[1] + c.gicr[2]) /\ a \in Span(c.uart) => DeviceAt(c, a) = "pl011"
<1> DEFINE found == {i \in 1..3 : Regions(c)[i].from <= a /\ a < Regions(c)[i].to}
<1>0. c.uart[1] \in Nat /\ c.uart[2] \in Nat
  BY DEF Frame
<1>1. DeviceAt(c, a) = IF found = {} THEN "none" ELSE Regions(c)[Min(found)].dev
  BY DEF DeviceAt
<1>2. found \in SUBSET Nat /\ found \subseteq {1, 2, 3}
  OBVIOUS
<1>3. 1 \in found <=> c.gicd[1] <= a /\ a < c.gicr[1] + c.gicr[2]
  BY DEF Regions
<1>4. 2 \in found <=> c.uart[1] <= a /\ a < c.uart[1] + c.uart[2]
  BY DEF Regions
<1>5. Regions(c)[1].dev = "gic3" /\ Regions(c)[2].dev = "pl011"
  BY DEF Regions
<1> HIDE DEF found
<1>6. ASSUME 1 \in found PROVE DeviceAt(c, a) = "gic3"
  <2>1. Min(found) \in found /\ Min(found) <= 1
    BY <1>2, <1>6, MinIs
  <2>2. \A m \in found : m <= 1 => m = 1
    BY <1>2
  <2>3. Min(found) = 1
    BY <2>1, <2>2
  <2> QED
    BY <1>1, <1>5, <1>6, <2>3
<1>7. ASSUME 1 \notin found, 2 \in found PROVE DeviceAt(c, a) = "pl011"
  <2>1. Min(found) \in found /\ Min(found) <= 2
    BY <1>2, <1>7, MinIs
  <2>2. \A m \in found : m <= 2 => m = 2
    BY <1>2, <1>7
  <2>3. Min(found) = 2
    BY <2>1, <2>2
  <2> QED
    BY <1>1, <1>5, <1>7, <2>3
<1>8. a \in Span(c.uart) => c.uart[1] <= a /\ a < c.uart[1] + c.uart[2]
  BY <1>0 DEF Span
<1> QED
  BY <1>3, <1>4, <1>6, <1>7, <1>8

(* A tree that validate_guest_dtb_config lets pass can be lived with.  The  *)
(* code compares one way only, each of the guest's CPUs with the vCPUs; the *)
(* other way is by counting them.                                           *)
LEMMA ValidAgrees ==
    ASSUME NEW g, IsTree(g), NEW c, ValidateGuestDtb(g, c)
    PROVE  Agrees(g, c)
<1> DEFINE gic  == ByCompatible(g, 0, "arm,gic-v3")
           uart == ByCompatible(g, 0, "arm,pl011")
           D    == GuestCpus(g)
           Id(n) == Aff(RegEntry(g, n, 0)[1][1])
           cpu  == {Aff(RegEntry(g, n, 0)[1][1]) : n \in GuestCpus(g)}
           conf == {Aff(c.mpidr[i]) : i \in 1..c.count}
           once == /\ Cardinality(cpu) = Cardinality(GuestCpus(g))
                   /\ \A i, j \in 1..c.count : Aff(c.mpidr[i]) = Aff(c.mpidr[j]) => i = j
           end  == c.gicr[1] + c.gicr[2]
           apart == /\ c.gicd[1] <= c.gicr[1] /\ c.gicd[1] + c.gicd[2] <= end
                    /\ (c.gicd[1]..(end - 1)) \cap Span(c.uart) = {}
<1>1. /\ \A n \in D : MpidrConfigured(c, RegEntry(g, n, 0)[1][1])
      /\ Cardinality(D) = c.count
      /\ gic # 0 /\ uart # 0
      /\ RegEntry(g, gic, 0) = <<c.gicd>> /\ RegEntry(g, gic, 1) = <<c.gicr>> /\ RegEntry(g, uart, 0) = <<c.uart>>
  BY DEF ValidateGuestDtb
<1>2. IsFiniteSet(D) /\ c.count \in Nat
  <2>1. D \subseteq 1..Len(g) /\ Len(g) \in Nat
    BY DEF GuestCpus, Children, IsTree
  <2>2. IsFiniteSet(1..Len(g))
    BY <2>1, FS_Interval
  <2>3. IsFiniteSet(D)
    BY <2>1, <2>2, FS_Subset
  <2> HIDE DEF D
  <2> QED
    BY <1>1, <2>3, FS_CardinalityType
<1>3. ASSUME once PROVE cpu = conf
  <2>1. cpu \subseteq conf
    BY <1>1 DEF MpidrConfigured
  <2>2. IsFiniteSet(conf) /\ Cardinality(conf) = c.count
    <3> DEFINE f == [i \in 1..c.count |-> Aff(c.mpidr[i])]
    <3>1. f \in Bijection(1..c.count, conf)
      <4>1. f \in [1..c.count -> conf]
        OBVIOUS
      <4>2. \A i, j \in 1..c.count : f[i] = f[j] => i = j
        BY <1>3
      <4>3. \A x \in conf : \E i \in 1..c.count : f[i] = x
        OBVIOUS
      <4> QED
        BY <4>1, <4>2, <4>3 DEF Bijection, Injection, Surjection, IsInjective
    <3>2. IsFiniteSet(1..c.count) /\ Cardinality(1..c.count) = c.count
      BY <1>2, FS_Interval
    <3>3. ExistsBijection(1..c.count, conf)
      BY <3>1 DEF ExistsBijection
    <3> HIDE DEF conf
    <3> QED
      BY <3>2, <3>3, FS_Bijection
  <2>3. Cardinality(cpu) = c.count
    BY <1>1, <1>3
  <2> HIDE DEF cpu, conf
  <2> QED
    BY <2>1, <2>2, <2>3, FS_Subset
<1>4. c.gicd \in Frame /\ c.gicr \in Frame /\ c.uart \in Frame
  <2>1. gic \in 0..Len(g) /\ uart \in 0..Len(g)
    BY ByCompatibleType
  <2>2. ASSUME NEW n \in 0..Len(g), NEW k \in Nat, NEW r, RegEntry(g, n, k) = <<r>> PROVE r \in Frame
    <3>1. RegEntry(g, n, k) # <<>>
      BY <2>2
    <3>2. PICK q \in Frame : RegEntry(g, n, k) = <<q>>
      BY <3>1, RegEntryType
    <3> QED
      BY <2>2, <3>2
  <2> HIDE DEF gic, uart
  <2> QED
    BY <1>1, <2>1, <2>2
<1>5. ASSUME apart
      PROVE  /\ \A a \in Span(RegEntry(g, gic, 0)[1]) \cup Span(RegEntry(g, gic, 1)[1]) : DeviceAt(c, a) = "gic3"
             /\ \A a \in Span(RegEntry(g, uart, 0)[1]) : DeviceAt(c, a) = "pl011"
  <2>0. RegEntry(g, gic, 0)[1] = c.gicd /\ RegEntry(g, gic, 1)[1] = c.gicr /\ RegEntry(g, uart, 0)[1] = c.uart
    <3> HIDE DEF gic, uart
    <3> QED
      BY <1>1
  <2>1. /\ c.gicd[1] \in Nat /\ c.gicd[2] \in Nat /\ c.gicr[1] \in Nat /\ c.gicr[2] \in Nat
        /\ c.uart[1] \in Nat /\ c.uart[2] \in Nat
    BY <1>4 DEF Frame
  <2>2. ASSUME NEW a \in Span(c.gicd) \cup Span(c.gicr) PROVE DeviceAt(c, a) = "gic3"
    <3>1. a \in Int /\ c.gicd[1] <= a /\ a < c.gicr[1] + c.gicr[2]
      BY <1>5, <2>1 DEF Span
    <3> QED
      BY <1>4, <3>1, DeviceAtIs
  <2>3. ASSUME NEW a \in Span(c.uart) PROVE DeviceAt(c, a) = "pl011"
    <3>1. a \in Int
      BY <2>1 DEF Span
    <3>2. a \notin c.gicd[1]..(end - 1)
      BY <1>5
    <3>3. ~(c.gicd[1] <= a /\ a < c.gicr[1] + c.gicr[2])
      BY <2>1, <3>1, <3>2
    <3> QED
      BY <1>4, <3>1, <3>3, DeviceAtIs
  <2> HIDE DEF gic, uart
  <2> QED
    BY <2>0, <2>2, <2>3
<1> HIDE DEF once, apart
<1>6. Agrees(g, c) = (/\ once => cpu = conf
                      /\ apart => /\ \A a \in Span(RegEntry(g, gic, 0)[1]) \cup Span(RegEntry(g, gic, 1)[1]) : DeviceAt(c, a) = "gic3"
                                  /\ \A a \in Span(RegEntry(g, uart, 0)[1]) : DeviceAt(c, a) = "pl011")
  BY DEF Agrees, once, apart
<1> QED
  BY <1>3, <1>5, <1>6

-----------------------------------------------------------------------------
(* aarch64: the configuration                                               *)

Fields == {"memory", "gic", "hostUart", "hostIrq", "uart", "irq", "hypPpi", "virtPpi", "entry", "dtb", "ram", "count",
           "mpidr", "gicd", "gicr", "stride"}

(* What every later step relies on: the fields are there, and the host's    *)
(* GIC has frames and a stride.                                             *)
CfgOK(c) == DOMAIN c = Fields /\ c.gic \in GicConfig

(* The defaults are a configuration.                                        *)
LEMMA DefaultsOK == CfgOK(Defaults)
BY DefaultsAssumption DEF CfgOK, Fields, HyperConfig

(* Parsers that leave the host's GIC alone.                                 *)
LEMMA OthersOK ==
    ASSUME NEW c, CfgOK(c), NEW tree, NEW root, NEW guest0
    PROVE  /\ CfgOK(ParseHostUart(tree, root, c)) /\ CfgOK(ParseGuestUart(tree, guest0, c))
           /\ CfgOK(ParseTimer(tree, root, guest0, c)) /\ CfgOK(ParseGuestVgic(tree, guest0, c))
           /\ CfgOK(ParseGuestVcpus(tree, guest0, c))
<1> USE DEF CfgOK, Fields
<1>1. CfgOK(ParseHostUart(tree, root, c))
  BY DEF ParseHostUart
<1>2. CfgOK(ParseGuestUart(tree, guest0, c))
  BY DEF ParseGuestUart
<1>3. CfgOK(ParseTimer(tree, root, guest0, c))
  BY DEF ParseTimer
<1>4. CfgOK(ParseGuestVgic(tree, guest0, c))
  BY DEF ParseGuestVgic
<1>5. CfgOK(ParseGuestVcpus(tree, guest0, c))
  BY DEF ParseGuestVcpus
<1> QED
  BY <1>1, <1>2, <1>3, <1>4, <1>5

(* parse_guest_cfg leaves a configuration.                                  *)
LEMMA GuestCfgOK ==
    ASSUME NEW c, CfgOK(c), NEW tree, NEW guest0
    PROVE  CfgOK(ParseGuestCfg(tree, guest0, c))
<1> DEFINE m == GuestMemoryNode(tree, guest0)
           d == [c EXCEPT !.entry = Or(ReadU64(tree, guest0, "guest-entry"), @),
                          !.dtb = Or(ReadU64(tree, guest0, "guest-dtb"), @)]
           e == ParseGuestVcpus(tree, guest0, d)
           f == ParseGuestVgic(tree, guest0, e)
           g == ParseGuestUart(tree, guest0, f)
<1>1. CfgOK(d)
  BY DEF CfgOK, Fields
<1> HIDE DEF d
<1>2. CfgOK(e)
  BY <1>1, OthersOK
<1> HIDE DEF e
<1>3. CfgOK(f)
  BY <1>2, OthersOK
<1> HIDE DEF f
<1>4. CfgOK(g)
  BY <1>3, OthersOK
<1> HIDE DEF g
<1>5. CfgOK([g EXCEPT !.ram = Or(RegInfo(tree, m), @)])
  BY <1>4 DEF CfgOK, Fields
<1>6. ParseGuestCfg(tree, guest0, c) = IF guest0 = 0 THEN c
                                       ELSE IF m = 0 THEN g ELSE [g EXCEPT !.ram = Or(RegInfo(tree, m), @)]
  BY DEF ParseGuestCfg, d, e, f, g
<1> QED
  BY <1>4, <1>5, <1>6

(* parse_host_gic leaves a configuration.                                   *)
LEMMA HostGicOK ==
    ASSUME NEW c, CfgOK(c), NEW tree, IsTree(tree), NEW root \in Nat
    PROVE  CfgOK(ParseHostGic(tree, root, c))
<1> DEFINE n == ByCompatible(tree, root, "arm,gic-v3")
           gicd == Or(RegEntry(tree, n, 0), c.gic.gicd)
           gicr == Or(RegEntry(tree, n, 1), c.gic.gicr)
           stride == Or(ReadU64(tree, n, "redistributor-stride"), c.gic.stride)
           count == IF stride # 0 THEN gicr[2] \div stride ELSE c.gic.count
<1>1. n \in 0..Len(tree)
  BY ByCompatibleType
<1> HIDE DEF n
<1>2. gicd \in Frame /\ gicr \in Frame
  <2>1. c.gic.gicd \in Frame /\ c.gic.gicr \in Frame
    BY DEF CfgOK, GicConfig
  <2>2. ASSUME NEW k \in Nat, NEW old \in Frame PROVE Or(RegEntry(tree, n, k), old) \in Frame
    <3>1. CASE RegEntry(tree, n, k) = <<>>
      BY <3>1, <2>2 DEF Or
    <3>2. CASE RegEntry(tree, n, k) # <<>>
      <4>1. PICK r \in Frame : RegEntry(tree, n, k) = <<r>>
        BY <1>1, <3>2, RegEntryType
      <4> QED
        BY <3>2, <4>1 DEF Or
    <3> QED
      BY <3>1, <3>2
  <2> QED
    BY <2>1, <2>2
<1>3. stride \in Nat
  <2> DEFINE v == Prop(tree, n, "redistributor-stride")
             cells == SubSeq(v, 1, IF Len(v) >= 2 THEN 2 ELSE 1)
  <2>1. v \in Seq(Cells)
    BY <1>1, PropType DEF StringProps
  <2> HIDE DEF v
  <2>2. CASE v = <<>>
    BY <2>2 DEF ReadU64, Or, CfgOK, GicConfig, v
  <2>3. CASE v # <<>>
    <3>1. Len(v) \in Nat /\ Len(v) >= 1 /\ \A i \in 1..Len(v) : v[i] \in Cells
      BY <2>1, <2>3
    <3>2. \A i \in 1..Len(v) : v[i] \in Nat
      BY <3>1, CellsAre
    <3>3. Len(cells) \in Nat /\ \A i \in 1..Len(cells) : cells[i] \in Nat
      BY <2>1, <3>1, <3>2
    <3> HIDE DEF cells
    <3>4. ReadCells(cells) \in Nat
      BY <3>3, ReadCellsType
    <3>5. ReadU64(tree, n, "redistributor-stride") = <<ReadCells(cells)>>
      BY <2>3 DEF ReadU64, v, cells
    <3> QED
      BY <3>4, <3>5 DEF Or
  <2> QED
    BY <2>2, <2>3
<1> HIDE DEF gicd, gicr, stride
<1>4. count \in Nat
  <2>1. gicr[2] \in Nat /\ c.gic.count \in Nat
    BY <1>2 DEF Frame, CfgOK, GicConfig
  <2> QED
    BY <1>3, <2>1
<1>5. ParseHostGic(tree, root, c) =
          IF n = 0 THEN c
          ELSE [c EXCEPT !.gic.gicd = gicd, !.gic.gicr = gicr, !.gic.stride = stride, !.gic.count = count]
  BY DEF ParseHostGic, n, gicd, gicr, stride, CfgOK, Fields, GicConfig
<1> HIDE DEF count
<1> DEFINE g == [c.gic EXCEPT !.gicd = gicd, !.gicr = gicr, !.stride = stride, !.count = count]
<1>6. g \in GicConfig
  BY <1>2, <1>3, <1>4 DEF CfgOK, GicConfig
<1>7. [c EXCEPT !.gic.gicd = gicd, !.gic.gicr = gicr, !.gic.stride = stride, !.gic.count = count] = [c EXCEPT !.gic = g]
  BY DEF CfgOK, GicConfig, Fields
<1> HIDE DEF g
<1> QED
  BY <1>5, <1>6, <1>7 DEF CfgOK, Fields

(* Whatever tree load_dtb is given.                                         *)
LEMMA LoadDtbOK ==
    ASSUME NEW tree, IsTree(tree), NEW junk
    PROVE  CfgOK(LoadDtb(tree, junk))
<1> DEFINE root == PlatformNode(tree)
           guest0 == ByCompatible(tree, root, "hypervisor,guest")
           m == ByProp(tree, root, "device_type", <<"memory">>)
           a == [Defaults EXCEPT !.memory = Or(RegInfo(tree, m), junk)]
           b == ParseHostGic(tree, root, a)
           c == ParseHostUart(tree, root, b)
           d == ParseGuestCfg(tree, guest0, c)
<1>1. root \in Nat
  <2>1. Len(tree) \in Nat /\ root \in 0..Len(tree)
    BY ByCompatibleType DEF PlatformNode, IsTree
  <2> HIDE DEF root
  <2> QED
    BY <2>1
<1>2. CfgOK(a)
  BY DefaultsOK DEF CfgOK, Fields
<1> HIDE DEF a, root, guest0
<1>3. CfgOK(b)
  BY <1>1, <1>2, HostGicOK
<1> HIDE DEF b
<1>4. CfgOK(c)
  BY <1>3, OthersOK
<1> HIDE DEF c
<1>5. CfgOK(d)
  BY <1>4, GuestCfgOK
<1> HIDE DEF d
<1>6. LoadDtb(tree, junk) = ParseTimer(tree, root, guest0, d)
  BY DEF LoadDtb, a, b, c, d, root, guest0
<1> QED
  BY <1>5, <1>6, OthersOK

-----------------------------------------------------------------------------
(* aarch64: the order of boot                                               *)

Unread   == {"reset", "el3", "not_el2", "load_dtb", "panic"}
Unmapped == Unread \cup {"cpu_init", "mm", "mm_42"}
NoGic    == Unmapped \cup {"test_page_alloc", "test_page_alloc_42", "stage2", "stage2_42", "percpu", "interrupt"}
NoCpus   == NoGic \cup {"gic", "cpus"}
Ticking  == {"create_task", "insert", "finished"}

(* The trees have been read before anything is mapped, and the guest's has  *)
(* been held against the configuration; the tick comes last.                *)
ConfigInv ==
    /\ CfgOK(cfg)
    /\ stage \in Unread => todo = <<>>
    /\ stage \notin Unread => /\ host \in HostTrees /\ guest \in GuestTrees
                              /\ PlatformNode(host) # 0 => ValidateGuestDtb(guest, cfg)
    /\ irqOn \in BOOLEAN
    /\ irqOn => stage \in Ticking /\ todo = <<>>

(* A step behind load_dtb that leaves trees and configuration alone.        *)
LEMMA ConfigQuiet ==
    ASSUME ConfigInv, UNCHANGED <<host, guest, cfg>>, stage \notin Unread, stage' \notin Unread,
           irqOn' \in BOOLEAN, irqOn' => stage' \in Ticking /\ todo' = <<>>
    PROVE  ConfigInv'
BY DEF ConfigInv

(* Taking the next secondary leaves boot in the loop or behind it.          *)
LEMMA NextCpuMoves ==
    ASSUME NEW i, NextCpu(i)
    PROVE  (stage' = "unmap_fdt" /\ turn' = i /\ i = Len(cpus)) \/ (stage' = "boot_cpu" /\ turn' = i + 1 /\ i # Len(cpus))
BY DEF NextCpu

(* The window answers with a bit, and ioremap with a page.                  *)
LEMMA VmallocBitType ==
    ASSUME NEW w, NEW pages \in Nat
    PROVE  VmallocBit(w, pages) \in Nat /\ IoremapAt(w, pages) \in Nat
<1> DEFINE fit == {b \in 0..(KmapSize - pages) : \A i \in 0..(pages - 1) : b + i \notin w}
<1>1. KmapSize \in Nat /\ KmapAt \in Nat
  BY HostMapAssumption DEF VaPages
<1>2. fit \in SUBSET Nat
  BY <1>1
<1>3. VmallocBit(w, pages) = IF fit = {} THEN KmapSize ELSE Min(fit)
  BY DEF VmallocBit
<1> HIDE DEF fit
<1>4. VmallocBit(w, pages) \in Nat
  <2>1. fit # {} => Min(fit) \in fit
    BY <1>2, MinIs
  <2> QED
    BY <1>1, <1>2, <1>3, <2>1
<1> QED
  BY <1>1, <1>4 DEF IoremapAt

(* Every step of boot and of the secondaries preserves ConfigInv.           *)
LEMMA ConfigStep == ConfigInv /\ [BootNext]_bootVars => ConfigInv'
<1> SUFFICES ASSUME ConfigInv, [BootNext]_bootVars PROVE ConfigInv'
  OBVIOUS
<1> USE DEF Unread, Ticking
<1>1. CASE UNCHANGED <<stage, host, guest, cfg, todo, irqOn>>
  BY <1>1 DEF ConfigInv
<1>2. CASE UNCHANGED bootVars
  BY <1>1, <1>2 DEF bootVars
<1>3. ASSUME NEW m \in Secondary, SecondaryStep(m) PROVE ConfigInv'
  <2>1. UNCHANGED <<stage, host, guest, cfg, todo, irqOn>>
    BY <1>3 DEF SecondaryStep, SecondaryEntry, SecondaryMmu, PcpuInit, EnableTick, MarkOnline, EarlyTick, cfgVars, mmVars, runVars
  <2> QED
    BY <1>1, <2>1
<1>4. CASE BootTick
  <2>1. /\ UNCHANGED <<host, guest, cfg>> /\ stage \notin Unread /\ stage' \notin Unread
    BY <1>4 DEF BootTick, cfgVars, ConfigInv
  <2>2. irqOn' = FALSE
    BY <1>4 DEF BootTick
  <2> QED
    BY <2>1, <2>2, ConfigQuiet
<1>5. CASE PageStep
  <2>1. todo # <<>> /\ UNCHANGED <<host, guest, cfg, irqOn>> /\ (stage' = "fatal" \/ stage' = stage)
    BY <1>5 DEF PageStep, cfgVars, runVars
  <2>2. stage \notin Unread /\ stage' \notin Unread /\ irqOn' = FALSE
    BY <2>1 DEF ConfigInv
  <2> QED
    BY <2>1, <2>2, ConfigQuiet
<1>6. CASE todo = <<>> /\ (InitHyperLowLevel \/ SwitchToEl2)
  <2>1. UNCHANGED <<host, guest, cfg, todo, irqOn>> /\ stage \in Unread /\ stage' \in Unread
    BY <1>6 DEF InitHyperLowLevel, SwitchToEl2, cfgVars, mmVars, runVars
  <2> QED
    BY <2>1 DEF ConfigInv
<1>7. CASE todo = <<>> /\ InitPlatform
  <2>1. PICK h \in HostTrees, g \in GuestTrees, junk \in Junks :
            LET c == LoadDtb(h, junk)
            IN  /\ host' = h /\ guest' = g
                /\ cfg' = IF PlatformNode(h) = 0 THEN Defaults ELSE c
                /\ stage' = IF \/ PlatformNode(h) = 0
                               \/ /\ ByProp(h, PlatformNode(h), "device_type", <<"memory">>) # 0
                                  /\ ValidateGuestDtb(g, c)
                            THEN "cpu_init" ELSE "panic"
    BY <1>7 DEF InitPlatform
  <2>2. CfgOK(LoadDtb(h, junk)) /\ CfgOK(Defaults)
    BY TreesAssumption, LoadDtbOK, DefaultsOK
  <2>3. CfgOK(cfg')
    BY <2>1, <2>2
  <2>4. stage' # "panic" => stage' = "cpu_init" /\ (PlatformNode(h) # 0 => ValidateGuestDtb(g, cfg'))
    BY <2>1
  <2>5. todo' = <<>> /\ irqOn' = FALSE
    BY <1>7 DEF InitPlatform, mmVars, runVars, ConfigInv
  <2>6. stage' \in {"cpu_init", "panic"}
    BY <2>1
  <2> QED
    BY <2>1, <2>3, <2>4, <2>5, <2>6 DEF ConfigInv
<1>8. CASE todo = <<>> /\ (CpuInit \/ InitMm \/ TestPageAlloc \/ EnableStage2 \/ EnableStage2Fatal \/ InitPercpuArea)
  <2>1. UNCHANGED <<host, guest, cfg, irqOn>> /\ stage \notin Unread \cup Ticking /\ stage' \notin Unread
    <3>1. CASE CpuInit
      BY <3>1 DEF CpuInit, runVars
    <3>2. CASE InitMm
      BY <3>2 DEF InitMm, cfgVars, runVars
    <3>3. CASE TestPageAlloc
      BY <3>3 DEF TestPageAlloc, cfgVars, runVars
    <3>4. CASE EnableStage2 \/ EnableStage2Fatal
      BY <3>4 DEF EnableStage2, EnableStage2Fatal, cfgVars, runVars
    <3>5. CASE InitPercpuArea
      BY <3>5 DEF InitPercpuArea, cfgVars, runVars
    <3> QED
      BY <1>8, <3>1, <3>2, <3>3, <3>4, <3>5
  <2>2. irqOn' = FALSE
    BY <2>1 DEF ConfigInv
  <2> QED
    BY <2>1, <2>2, ConfigQuiet
<1>9. CASE todo = <<>> /\ InitInterrupt
  <2>1. /\ UNCHANGED <<host, guest, irqOn>> /\ stage = "interrupt" /\ stage' = "gic"
        /\ \E w2 : cfg' = [cfg EXCEPT !.gic.virt = IoremapAt(w2, cfg.gic.gicr[2])]
    BY <1>9 DEF InitInterrupt, runVars
  <2>2. PICK v \in Nat : cfg' = [cfg EXCEPT !.gic.virt = v]
    <3>1. cfg.gic.gicr[2] \in Nat
      BY DEF ConfigInv, CfgOK, GicConfig, Frame
    <3> QED
      BY <2>1, <3>1, VmallocBitType
  <2>3. CfgOK(cfg') /\ \A f \in Fields \ {"gic"} : cfg'[f] = cfg[f]
    BY <2>2 DEF ConfigInv, CfgOK, Fields, GicConfig
  <2>4. cfg'.gicd = cfg.gicd /\ cfg'.gicr = cfg.gicr /\ cfg'.uart = cfg.uart /\ cfg'.irq = cfg.irq
        /\ cfg'.count = cfg.count /\ cfg'.mpidr = cfg.mpidr
    BY <2>3 DEF Fields
  <2>5. ValidateGuestDtb(guest, cfg) => ValidateGuestDtb(guest', cfg')
    <3>1. PICK c : c = cfg'
      OBVIOUS
    <3>2. c.gicd = cfg.gicd /\ c.gicr = cfg.gicr /\ c.uart = cfg.uart /\ c.irq = cfg.irq
          /\ c.count = cfg.count /\ c.mpidr = cfg.mpidr
      BY <2>4, <3>1
    <3>3. ValidateGuestDtb(guest, cfg) => ValidateGuestDtb(guest, c)
      BY <3>2 DEF ValidateGuestDtb, MpidrConfigured
    <3> QED
      BY <2>1, <3>1, <3>3
  <2> QED
    BY <2>1, <2>3, <2>5 DEF ConfigInv
<1>10. CASE todo = <<>> /\ (InitGicv3 \/ ParseHostCpus \/ CpuOn \/ WaitOnline \/ UnmapFdt \/ InitSched)
  <2>1. UNCHANGED <<host, guest, cfg, irqOn>> /\ stage \notin Unread \cup Ticking /\ stage' \notin Unread
    <3>1. CASE InitGicv3
      BY <3>1 DEF InitGicv3, cfgVars, runVars
    <3>2. CASE ParseHostCpus
      BY <3>2 DEF ParseHostCpus, cfgVars, runVars
    <3>3. CASE CpuOn
      BY <3>3, NextCpuMoves DEF CpuOn, cfgVars, runVars
    <3>4. CASE WaitOnline
      BY <3>4, NextCpuMoves DEF WaitOnline, cfgVars, runVars
    <3>5. CASE UnmapFdt \/ InitSched
      BY <3>5 DEF UnmapFdt, InitSched, cfgVars, runVars
    <3> QED
      BY <1>10, <3>1, <3>2, <3>3, <3>4, <3>5
  <2>2. irqOn' = FALSE
    BY <2>1 DEF ConfigInv
  <2> QED
    BY <2>1, <2>2, ConfigQuiet
<1>11. CASE todo = <<>> /\ (TimerInit \/ CreateTask \/ Insert)
  <2>1. /\ UNCHANGED <<host, guest, cfg, todo>> /\ stage \notin Unread /\ stage' \in Ticking
        /\ irqOn' \in BOOLEAN
    BY <1>11 DEF TimerInit, CreateTask, Insert, cfgVars, mmVars, ConfigInv
  <2> QED
    BY <1>11, <2>1, ConfigQuiet
<1> QED
  BY <1>2, <1>3, <1>4, <1>5, <1>6, <1>7, <1>8, <1>9, <1>10, <1>11 DEF BootNext, BootStep

(* Boot begins in ConfigInv.                                                *)
LEMMA ConfigInitially == BootInit => ConfigInv
BY DefaultsOK DEF BootInit, ConfigInv, Unread

(* A tree that validate_guest_dtb let pass agrees with the configuration.   *)
LEMMA ConfigAgrees == ConfigInv => GuestAgrees
<1> SUFFICES ASSUME ConfigInv, stage \notin Unread, PlatformNode(host) # 0 PROVE Agrees(guest, cfg)
  BY DEF GuestAgrees, Unread
<1>1. IsTree(guest) /\ ValidateGuestDtb(guest, cfg)
  BY TreesAssumption DEF ConfigInv
<1> QED
  BY <1>1, ValidAgrees

(* A guest that boot lets pass finds the CPUs and the devices that its tree *)
(* names, whatever the two trees are and whatever load_dtb failed to read.  *)
THEOREM GuestFits == Spec => []GuestAgrees
<1>1. Init => ConfigInv
  BY ConfigInitially DEF Init
<1>2. ConfigInv /\ [Next]_allBootVars => ConfigInv'
  <2> SUFFICES ASSUME ConfigInv, [Next]_allBootVars PROVE ConfigInv'
    OBVIOUS
  <2>1. [BootNext]_bootVars
    BY DEF Next, A64Next, RiscvNext, allBootVars
  <2> QED
    BY <2>1, ConfigStep
<1> QED
  BY <1>1, <1>2, ConfigAgrees, PTL DEF Spec

(* A finite set of numbers can be walked in increasing order: for each      *)
(* count k up to its size, one of them has k members up to itself.          *)
LEMMA NthIs ==
    ASSUME NEW S \in SUBSET Int, IsFiniteSet(S), NEW k \in 1..Cardinality(S)
    PROVE  \E x \in S : Cardinality({y \in S : y <= x}) = k
<1> DEFINE upto(x) == {y \in S : y <= x}
           f == [x \in S |-> Cardinality(upto(x))]
<1>1. Cardinality(S) \in Nat
  BY FS_CardinalityType
<1>2. ASSUME NEW x \in S
      PROVE  /\ IsFiniteSet(upto(x)) /\ Cardinality(upto(x)) \in 1..Cardinality(S)
  <2>1. upto(x) \in SUBSET S /\ x \in upto(x)
    OBVIOUS
  <2> HIDE DEF upto
  <2>2. /\ IsFiniteSet(upto(x)) /\ Cardinality(upto(x)) <= Cardinality(S)
        /\ Cardinality(upto(x)) \in Nat /\ Cardinality(upto(x)) # 0
    BY <2>1, FS_Subset, FS_CardinalityType, FS_EmptySet
  <2> QED
    BY <1>1, <2>2
<1>3. ASSUME NEW x \in S, NEW z \in S, x < z
      PROVE  Cardinality(upto(x)) # Cardinality(upto(z))
  <2>0. x \in Int /\ z \in Int /\ \A y \in S : y \in Int
    OBVIOUS
  <2>1. (\A y \in upto(x) : y \in upto(z)) /\ z \in upto(z) /\ z \notin upto(x)
    BY <1>3, <2>0
  <2> HIDE DEF upto
  <2> QED
    BY <1>2, <2>1, FS_Subset
<1>4. f \in Injection(S, 1..Cardinality(S))
  <2>1. f \in [S -> 1..Cardinality(S)]
    BY <1>2
  <2>2. ASSUME NEW x \in S, NEW z \in S, f[x] = f[z] PROVE x = z
    <3>1. x < z \/ z < x \/ x = z
      OBVIOUS
    <3> QED
      BY <1>3, <2>2, <3>1
  <2> HIDE DEF f
  <2> QED
    BY <2>1, <2>2 DEF Injection, IsInjective
<1>5. IsFiniteSet(1..Cardinality(S)) /\ Cardinality(1..Cardinality(S)) = Cardinality(S)
  BY <1>1, FS_Interval
<1>6. f \in Surjection(S, 1..Cardinality(S))
  BY <1>4, <1>5, FS_Injection
<1>7. \E x \in S : f[x] = k
  BY <1>6 DEF Surjection
<1> QED
  BY <1>7

-----------------------------------------------------------------------------
(* aarch64: the calls that map and unmap                                    *)

CallOK(t) ==
    /\ DOMAIN t = {"op", "va", "pa", "keep", "path"}
    /\ t.op \in {"map", "unmap", "free"} /\ t.pa \in Nat /\ t.keep \in BOOLEAN
AreCalls(s) == \E T : s \in Seq(T) /\ \A t \in T : CallOK(t)

(* Some call of s is to map va to pa, for keeps.                            *)
Pending(s, va, pa) == \E i \in 1..Len(s) : s[i].op = "map" /\ s[i].keep /\ s[i].va = va /\ s[i].pa = pa

(* host_unmap_pages makes calls.                                            *)
LEMMA UnmapPagesCalls ==
    ASSUME NEW va, NEW pages \in Nat
    PROVE  AreCalls(UnmapPages(va, pages))
<1> DEFINE T == {Call("unmap", va + i - 1, 0, FALSE) : i \in 1..pages}
<1>1. UnmapPages(va, pages) \in Seq(T)
  <2>1. \A i \in 1..pages : Call("unmap", va + i - 1, 0, FALSE) \in T
    OBVIOUS
  <2> HIDE DEF T
  <2>2. [i \in 1..pages |-> Call("unmap", va + i - 1, 0, FALSE)] \in [1..pages -> T]
    BY <2>1
  <2>3. UnmapPages(va, pages) \in [1..pages -> T]
    BY <2>2 DEF UnmapPages
  <2> QED
    BY <2>3
<1>2. \A t \in T : CallOK(t)
  <2> SUFFICES ASSUME NEW i \in 1..pages PROVE CallOK(Call("unmap", va + i - 1, 0, FALSE))
    OBVIOUS
  <2> QED
    BY DEF Call, CallOK
<1> HIDE DEF T
<1> QED
  BY <1>1, <1>2 DEF AreCalls

(* host_map_pages makes calls, one for each page of the range.              *)
LEMMA MapPagesCalls ==
    ASSUME NEW va \in Int, NEW pa \in Nat, NEW pages \in Nat, NEW keep \in BOOLEAN
    PROVE  /\ AreCalls(MapPages(va, pa, pages, keep))
           /\ keep => \A i \in 0..(pages - 1) : Pending(MapPages(va, pa, pages, keep), va + i, pa + i)
<1>1. AreCalls(MapPages(va, pa, pages, keep))
  <2> DEFINE T == {Call("map", va + i - 1, pa + i - 1, keep) : i \in 1..pages}
  <2>1. MapPages(va, pa, pages, keep) \in Seq(T)
    <3>1. \A i \in 1..pages : Call("map", va + i - 1, pa + i - 1, keep) \in T
      OBVIOUS
    <3> HIDE DEF T
    <3>2. [i \in 1..pages |-> Call("map", va + i - 1, pa + i - 1, keep)] \in [1..pages -> T]
      BY <3>1
    <3>3. MapPages(va, pa, pages, keep) \in [1..pages -> T]
      BY <3>2 DEF MapPages
    <3> QED
      BY <3>3
  <2>2. \A t \in T : CallOK(t)
    <3> SUFFICES ASSUME NEW i \in 1..pages PROVE CallOK(Call("map", va + i - 1, pa + i - 1, keep))
      OBVIOUS
    <3>1. pa + i - 1 \in Nat
      OBVIOUS
    <3> QED
      BY <3>1 DEF Call, CallOK
  <2> HIDE DEF T
  <2> QED
    BY <2>1, <2>2 DEF AreCalls
<1>3. ASSUME keep, NEW i \in 0..(pages - 1) PROVE Pending(MapPages(va, pa, pages, keep), va + i, pa + i)
  <2> DEFINE s == MapPages(va, pa, pages, keep)
  <2>1. Len(s) = pages /\ i + 1 \in 1..pages
    BY DEF MapPages
  <2>2. s[i + 1] = Call("map", va + (i + 1) - 1, pa + (i + 1) - 1, keep)
    BY <2>1 DEF MapPages
  <2>3. va + (i + 1) - 1 = va + i /\ pa + (i + 1) - 1 = pa + i
    OBVIOUS
  <2> HIDE DEF s
  <2>4. s[i + 1].op = "map" /\ s[i + 1].keep /\ s[i + 1].va = va + i /\ s[i + 1].pa = pa + i
    BY <1>3, <2>2, <2>3 DEF Call
  <2>5. Pending(s, va + i, pa + i)
    BY <2>1, <2>4 DEF Pending
  <2> QED
    BY <2>5 DEF s
<1> QED
  BY <1>1, <1>3

(* Calls after calls: nothing that was to be mapped is forgotten.           *)
LEMMA CallsConcat ==
    ASSUME NEW s, NEW u, AreCalls(s), AreCalls(u)
    PROVE  /\ AreCalls(s \o u)
           /\ \A va, pa : Pending(s, va, pa) \/ Pending(u, va, pa) => Pending(s \o u, va, pa)
<1>1. PICK S : s \in Seq(S) /\ \A t \in S : CallOK(t)
  BY DEF AreCalls
<1>2. PICK U : u \in Seq(U) /\ \A t \in U : CallOK(t)
  BY DEF AreCalls
<1>3. s \in Seq(S \cup U) /\ u \in Seq(S \cup U)
  BY <1>1, <1>2
<1>4. AreCalls(s \o u)
  <2>1. s \o u \in Seq(S \cup U)
    BY <1>3
  <2>2. \A t \in S \cup U : CallOK(t)
    BY <1>1, <1>2
  <2> QED
    BY <2>1, <2>2 DEF AreCalls
<1>5. ASSUME NEW va, NEW pa, Pending(s, va, pa) PROVE Pending(s \o u, va, pa)
  <2>1. PICK i \in 1..Len(s) : s[i].op = "map" /\ s[i].keep /\ s[i].va = va /\ s[i].pa = pa
    BY <1>5 DEF Pending
  <2>2. i \in 1..Len(s \o u) /\ (s \o u)[i] = s[i]
    BY <1>3
  <2> QED
    BY <2>1, <2>2 DEF Pending
<1>6. ASSUME NEW va, NEW pa, Pending(u, va, pa) PROVE Pending(s \o u, va, pa)
  <2>1. PICK i \in 1..Len(u) : u[i].op = "map" /\ u[i].keep /\ u[i].va = va /\ u[i].pa = pa
    BY <1>6 DEF Pending
  <2>2. Len(s) + i \in 1..Len(s \o u) /\ (s \o u)[Len(s) + i] = u[i]
    BY <1>3
  <2> QED
    BY <2>1, <2>2 DEF Pending
<1> QED
  BY <1>4, <1>5, <1>6

(* One level of a call: it is over, or goes on as the same call.            *)
LEMMA RestIs ==
    ASSUME NEW m, NEW t, CallOK(t),
           NEW rest, \/ t.op = "map" /\ rest = MapLevel(m, t).rest
                     \/ t.op = "unmap" /\ rest = UnmapLevel(m, t).rest
                     \/ t.op = "free" /\ rest = FreeLevel(m, t).rest
    PROVE  \/ rest = <<>>
           \/ \E u : /\ rest = <<u>> /\ CallOK(u)
                     /\ u.va = t.va /\ u.pa = t.pa /\ u.keep = t.keep
                     /\ t.op = "map" => u.op = "map"
<1> DEFINE Goal == \/ rest = <<>>
                   \/ \E u : /\ rest = <<u>> /\ CallOK(u)
                             /\ u.va = t.va /\ u.pa = t.pa /\ u.keep = t.keep
                             /\ t.op = "map" => u.op = "map"
<1>1. ASSUME NEW next, rest = Down(t, next) PROVE Goal
  <2> DEFINE u == [t EXCEPT !.path = Append(@, next)]
  <2>1. rest = <<u>>
    BY <1>1 DEF Down
  <2>2. CallOK(u) /\ u.va = t.va /\ u.pa = t.pa /\ u.keep = t.keep /\ u.op = t.op
    BY DEF CallOK
  <2> HIDE DEF u
  <2> QED
    BY <2>1, <2>2
<1>2. ASSUME rest = <<[t EXCEPT !.op = "free"]>>, t.op = "unmap" PROVE Goal
  <2> DEFINE u == [t EXCEPT !.op = "free"]
  <2>2. CallOK(u) /\ u.va = t.va /\ u.pa = t.pa /\ u.keep = t.keep
    BY DEF CallOK
  <2>3. rest = <<u>>
    BY <1>2
  <2> HIDE DEF u
  <2> QED
    BY <1>2, <2>2, <2>3
<1>3. ASSUME rest = <<[t EXCEPT !.path = Front(@)]>> PROVE Goal
  <2> DEFINE u == [t EXCEPT !.path = Front(@)]
  <2>2. CallOK(u) /\ u.va = t.va /\ u.pa = t.pa /\ u.keep = t.keep /\ u.op = t.op
    BY DEF CallOK
  <2>3. rest = <<u>>
    BY <1>3
  <2> HIDE DEF u
  <2> QED
    BY <2>2, <2>3
<1>4. rest = <<>> => Goal
  OBVIOUS
<1> HIDE DEF Goal
<1>5. ASSUME t.op = "map" /\ rest = MapLevel(m, t).rest PROVE Goal
  <2>1. rest = <<>> \/ \E next : rest = Down(t, next)
    BY <1>5 DEF MapLevel
  <2> QED
    BY <1>1, <1>4, <2>1
<1>6. ASSUME t.op = "unmap" /\ rest = UnmapLevel(m, t).rest PROVE Goal
  <2>1. rest = <<>> \/ rest = <<[t EXCEPT !.op = "free"]>> \/ \E next : rest = Down(t, next)
    BY <1>6 DEF UnmapLevel
  <2> QED
    BY <1>1, <1>2, <1>4, <1>6, <2>1
<1>7. ASSUME t.op = "free" /\ rest = FreeLevel(m, t).rest PROVE Goal
  <2>1. rest = <<>> \/ rest = <<[t EXCEPT !.path = Front(@)]>>
    BY <1>7 DEF FreeLevel
  <2> QED
    BY <1>3, <1>4, <2>1
<1>8. Goal
  BY <1>5, <1>6, <1>7
<1> QED
  BY <1>8 DEF Goal

(* One level of the first call of todo.                                     *)
LEMMA PageStepCalls ==
    ASSUME AreCalls(todo), PageStep
    PROVE  /\ AreCalls(todo') /\ kept \subseteq kept'
           /\ \A va, pa : Pending(todo, va, pa) => <<va, pa>> \in kept' \/ Pending(todo', va, pa)
<1> DEFINE t == Head(todo)
           did == CASE t.op = "map" -> MapLevel(mem, t)
                    [] t.op = "unmap" -> UnmapLevel(mem, t)
                    [] t.op = "free" -> FreeLevel(mem, t)
<1>1. /\ todo # <<>> /\ todo' = did.rest \o Tail(todo)
      /\ kept' = IF t.keep /\ did.rest = <<>> THEN kept \cup {<<t.va, t.pa>>} ELSE kept
  BY DEF PageStep
<1>2. PICK T : todo \in Seq(T) /\ \A x \in T : CallOK(x)
  BY DEF AreCalls
<1>3. t \in T /\ Tail(todo) \in Seq(T) /\ CallOK(t)
  BY <1>1, <1>2
<1>4. \/ t.op = "map" /\ did.rest = MapLevel(mem, t).rest
      \/ t.op = "unmap" /\ did.rest = UnmapLevel(mem, t).rest
      \/ t.op = "free" /\ did.rest = FreeLevel(mem, t).rest
  <2>1. t.op \in {"map", "unmap", "free"}
    BY <1>3 DEF CallOK
  <2> HIDE DEF t
  <2> QED
    BY <2>1
<1> HIDE DEF did, t
<1>5. \/ did.rest = <<>>
      \/ \E u : /\ did.rest = <<u>> /\ CallOK(u)
                /\ u.va = t.va /\ u.pa = t.pa /\ u.keep = t.keep
                /\ t.op = "map" => u.op = "map"
  BY <1>3, <1>4, RestIs
<1>6. AreCalls(Tail(todo))
  BY <1>2, <1>3 DEF AreCalls
<1>7. AreCalls(did.rest)
  <2>1. CASE did.rest = <<>>
    <3>1. did.rest \in Seq({})
      BY <2>1
    <3> QED
      BY <3>1 DEF AreCalls
  <2>2. ASSUME NEW u, did.rest = <<u>>, CallOK(u) PROVE AreCalls(did.rest)
    <3>1. did.rest \in Seq({u})
      BY <2>2
    <3> QED
      BY <2>2, <3>1 DEF AreCalls
  <2> QED
    BY <1>5, <2>1, <2>2
<1>8. AreCalls(todo')
  BY <1>1, <1>6, <1>7, CallsConcat
<1>9. kept \subseteq kept'
  BY <1>1
<1>10. ASSUME NEW va, NEW pa, Pending(todo, va, pa) PROVE <<va, pa>> \in kept' \/ Pending(todo', va, pa)
  <2>1. PICK i \in 1..Len(todo) : todo[i].op = "map" /\ todo[i].keep /\ todo[i].va = va /\ todo[i].pa = pa
    BY <1>10 DEF Pending
  <2>2. CASE i = 1
    <3>1. t.op = "map" /\ t.keep /\ t.va = va /\ t.pa = pa
      BY <1>1, <1>2, <2>1, <2>2 DEF t
    <3>2. CASE did.rest = <<>>
      BY <1>1, <3>1, <3>2
    <3>3. ASSUME NEW u, did.rest = <<u>>, u.va = t.va, u.pa = t.pa, u.keep = t.keep, u.op = "map"
          PROVE  Pending(todo', va, pa)
      <4>1. Pending(did.rest, va, pa)
        <5>1. 1 \in 1..Len(did.rest) /\ did.rest[1] = u
          BY <3>3
        <5>2. u.op = "map" /\ u.keep /\ u.va = va /\ u.pa = pa
          BY <3>1, <3>3
        <5>3. did.rest[1].op = "map" /\ did.rest[1].keep /\ did.rest[1].va = va /\ did.rest[1].pa = pa
          BY <5>1, <5>2
        <5> QED
          BY <5>1, <5>3, Zenon DEF Pending
      <4>2. Pending(did.rest \o Tail(todo), va, pa)
        BY <1>6, <1>7, <4>1, CallsConcat
      <4> QED
        BY <1>1, <4>2
    <3> QED
      BY <1>5, <3>1, <3>2, <3>3
  <2>3. CASE i # 1
    <3>1. i - 1 \in 1..Len(Tail(todo)) /\ Tail(todo)[i - 1] = todo[i]
      BY <1>1, <1>2, <2>3
    <3>2. Pending(Tail(todo), va, pa)
      BY <2>1, <3>1 DEF Pending
    <3>3. Pending(did.rest \o Tail(todo), va, pa)
      BY <1>6, <1>7, <3>2, CallsConcat
    <3> QED
      BY <1>1, <3>3
  <2> QED
    BY <2>2, <2>3
<1> QED
  BY <1>8, <1>9, <1>10

-----------------------------------------------------------------------------
(* aarch64: the secondaries                                                 *)

(* parse_host_cpus lists MPIDRs.                                            *)
LEMMA HostCpusType ==
    ASSUME NEW tree, IsTree(tree)
    PROVE  HostCpus(tree) \in Seq(Nat)
<1> DEFINE node == CpusNode(tree)
           na == IF Prop(tree, node, "#address-cells") = <<>> THEN 2 ELSE Prop(tree, node, "#address-cells")[1]
           good == {n \in Children(tree, node) : /\ Prop(tree, n, "reg") # <<>> /\ Len(Prop(tree, n, "reg")) >= na
                                                 /\ Prop(tree, n, "enable-method") = <<"psci">>}
           Nth(i) == CHOOSE n \in good : Cardinality({k \in good : k <= n}) = i
           last == Min({Cardinality(good), SmpCpuNum})
           Cpu(i) == Aff(ReadCells(SubSeq(Prop(tree, Nth(i), "reg"), 1, na)))
<1>1. HostCpus(tree) = IF node = 0 THEN <<>> ELSE [i \in 1..last |-> Cpu(i)]
  BY DEF HostCpus
<1>2. node \in 0..Len(tree) /\ Len(tree) \in Nat
  <2> DEFINE found == {n \in Children(tree, 1) : tree[n].name = "cpus"}
  <2>1. found \subseteq 1..Len(tree) /\ Len(tree) \in Nat /\ found \in SUBSET Nat
    BY DEF Children, IsTree
  <2>2. node = IF found = {} THEN 0 ELSE Min(found)
    BY DEF CpusNode
  <2> HIDE DEF found, node
  <2>3. CASE found = {}
    BY <2>1, <2>2, <2>3
  <2>4. CASE found # {}
    <3>1. Min(found) \in found
      BY <2>1, <2>4, MinIs
    <3> QED
      BY <2>1, <2>2, <2>4, <3>1
  <2> QED
    BY <2>3, <2>4
<1> HIDE DEF node
<1>3. na \in Nat
  <2>1. Prop(tree, node, "#address-cells") \in Seq(Cells)
    BY <1>2, PropType DEF StringProps
  <2>2. CASE Prop(tree, node, "#address-cells") = <<>>
    BY <2>2
  <2>3. CASE Prop(tree, node, "#address-cells") # <<>>
    <3>1. Prop(tree, node, "#address-cells")[1] \in Cells
      BY <2>1, <2>3
    <3> QED
      BY <2>3, <3>1, CellsAre
  <2> QED
    BY <2>2, <2>3
<1> HIDE DEF na
<1>4. good \subseteq 1..Len(tree)
  BY DEF Children, IsTree
<1>5. IsFiniteSet(good) /\ Cardinality(good) \in Nat /\ good \in SUBSET Int
  <2>1. IsFiniteSet(1..Len(tree))
    BY <1>2, FS_Interval
  <2> HIDE DEF good
  <2>2. IsFiniteSet(good)
    BY <1>4, <2>1, FS_Subset
  <2> QED
    BY <1>2, <1>4, <2>2, FS_CardinalityType
<1>6. last \in Nat /\ last <= Cardinality(good)
  <2> DEFINE two == {Cardinality(good), SmpCpuNum}
  <2>1. two \in SUBSET Nat /\ two # {} /\ Cardinality(good) \in two
    BY <1>5, A64BootAssumption
  <2> HIDE DEF two
  <2>2. Min(two) \in two /\ Min(two) <= Cardinality(good)
    BY <2>1, MinIs
  <2> QED
    BY <2>1, <2>2 DEF two
<1>7. ASSUME NEW i \in 1..last PROVE Cpu(i) \in Nat
  <2>1. Nth(i) \in good
    <3>1. i \in 1..Cardinality(good)
      BY <1>5, <1>6
    <3> HIDE DEF good
    <3>2. \E n \in good : Cardinality({k \in good : k <= n}) = i
      BY <1>5, <3>1, NthIs
    <3> QED
      BY <3>2
  <2> DEFINE reg == Prop(tree, Nth(i), "reg")
             some == SubSeq(reg, 1, na)
  <2>2. reg \in Seq(Cells)
    <3>1. Nth(i) \in 0..Len(tree)
      <4> DEFINE x == Nth(i)
      <4>1. x \in 1..Len(tree)
        BY <1>4, <2>1, Zenon
      <4> HIDE DEF x
      <4>2. x \in 0..Len(tree)
        BY <1>2, <4>1
      <4> QED
        BY <4>2 DEF x
    <3> HIDE DEF Nth
    <3> QED
      BY <3>1, PropType DEF StringProps
  <2>3. Len(reg) >= na
    <3> HIDE DEF Nth
    <3> QED
      BY <2>1
  <2> HIDE DEF reg, Nth
  <2>4. \A k \in 1..Len(reg) : reg[k] \in Nat
    <3>1. \A k \in 1..Len(reg) : reg[k] \in Cells
      BY <2>2
    <3> QED
      BY <3>1, CellsAre
  <2>5. Len(some) \in Nat /\ \A k \in 1..Len(some) : some[k] \in Nat
    BY <1>3, <2>2, <2>3, <2>4
  <2> HIDE DEF some
  <2>6. ReadCells(some) \in Nat
    BY <2>5, ReadCellsType
  <2>7. Cpu(i) = ReadCells(some) % AffSpan
    BY DEF Aff, some, reg
  <2> HIDE DEF Cpu
  <2> QED
    BY <2>6, <2>7, BootCfgAssumption
<1> HIDE DEF Cpu, last
<1>8. [i \in 1..last |-> Cpu(i)] \in [1..last -> Nat]
  BY <1>7
<1> QED
  BY <1>1, <1>6, <1>8

(* The GIC's frames in the configuration are natural numbers.               *)
LEMMA GicNumbers ==
    ASSUME ConfigInv
    PROVE  /\ cfg.gic.gicr[1] \in Nat /\ cfg.gic.gicr[2] \in Nat /\ cfg.gic.gicd[1] \in Nat
           /\ cfg.gic.stride \in Nat /\ cfg.gic.virt \in Nat
<1>1. cfg.gic \in GicConfig
  BY DEF ConfigInv, CfgOK
<1>2. cfg.gic.gicr \in Nat \X Nat /\ cfg.gic.gicd \in Nat \X Nat /\ cfg.gic.stride \in Nat /\ cfg.gic.virt \in Nat
  BY <1>1 DEF GicConfig, Frame
<1> QED
  BY <1>2

SecStates == {"off", "entry", "start", "parked", "mmu", "gic", "tick", "online", "hung"}
S2On == {"percpu", "interrupt", "gic", "cpus", "boot_cpu", "wait"}
InLoop == {"boot_cpu", "wait"}

(* A secondary starts when the boot CPU has saved the tables for it.        *)
SmpInv ==
    /\ sec \in [Secondary -> SecStates] /\ cpus \in Seq(Nat)
    /\ turn \in 1..(Len(cpus) + 1) /\ online \subseteq DOMAIN cpus
    /\ stage \in NoCpus => turn = 1 /\ online = {} /\ \A m \in Secondary : sec[m] = "off"
    /\ stage \in InLoop => turn <= Len(cpus)
    /\ AreCalls(todo)
    /\ stage \in S2On \/ (\E m \in Secondary : sec[m] # "off") => {"vtcr", "vttbr"} \subseteq mmuBoot
    /\ \A r \in redist : RdistAff[r.frame + 1] = r.cpu

(* Boot begins in SmpInv.                                                   *)
LEMMA SmpInitially == BootInit => SmpInv
<1> SUFFICES ASSUME BootInit PROVE SmpInv
  OBVIOUS
<1>1. /\ stage = "reset" /\ todo = <<>> /\ cpus = <<>> /\ turn = 1 /\ online = {} /\ redist = {}
      /\ sec = [m \in Secondary |-> "off"]
  BY DEF BootInit
<1>2. AreCalls(todo)
  <2>1. todo \in Seq({})
    BY <1>1
  <2> QED
    BY <2>1 DEF AreCalls
<1> QED
  BY <1>1, <1>2 DEF SmpInv, SecStates, S2On, InLoop

(* A step of the boot CPU that neither starts nor lists a secondary.        *)
LEMMA SmpQuiet ==
    ASSUME SmpInv, UNCHANGED smpVars, AreCalls(todo'), mmuBoot \subseteq mmuBoot',
           stage' \in NoCpus => stage \in NoCpus, stage' \in InLoop => stage \in InLoop,
           stage' \in S2On => stage \in S2On \/ {"vtcr", "vttbr"} \subseteq mmuBoot'
    PROVE  SmpInv'
<1>1. UNCHANGED <<cpus, turn, online, sec, redist>>
  BY DEF smpVars
<1> QED
  BY <1>1 DEF SmpInv

(* A step of a secondary that has been started.                             *)
LEMMA SmpMoves ==
    ASSUME SmpInv, NEW m \in Secondary, NEW s \in SecStates, sec[m] # "off", sec' = [sec EXCEPT ![m] = s],
           UNCHANGED <<stage, cpus, turn, todo, mmuBoot>>, online' \subseteq DOMAIN cpus,
           \A r \in redist' : RdistAff[r.frame + 1] = r.cpu
    PROVE  SmpInv'
<1>1. stage \notin NoCpus
  BY DEF SmpInv
<1>2. sec' \in [Secondary -> SecStates]
  BY DEF SmpInv
<1>3. AreCalls(todo')
  BY DEF SmpInv, AreCalls
<1> QED
  BY <1>1, <1>2, <1>3 DEF SmpInv

(* Every step of boot and of the secondaries preserves SmpInv.              *)
LEMMA SmpStep == ConfigInv /\ SmpInv /\ [BootNext]_bootVars => SmpInv'
<1> SUFFICES ASSUME ConfigInv, SmpInv, [BootNext]_bootVars PROVE SmpInv'
  OBVIOUS
<1> USE DEF Unread, Unmapped, NoGic, NoCpus, S2On, InLoop
<1>0. AreCalls(todo) /\ (todo' = todo => AreCalls(todo'))
  BY DEF SmpInv, AreCalls
<1>a. cfg.gic.gicr[1] \in Nat /\ cfg.gic.gicr[2] \in Nat /\ cfg.gic.gicd[1] \in Nat /\ cfg.gic.stride \in Nat
  BY GicNumbers
<1>b. UartAt \in Nat
  BY HostMapAssumption DEF VaPages
<1>d. SmpCpuNum \in Nat /\ GiccPage \in Nat /\ FdtPage \in Nat /\ FdtPages \in Nat /\ SgiFixAt \in Nat
  BY A64BootAssumption
<1>c. /\ cfg.gic.gicr[1] \in Nat /\ cfg.gic.gicr[2] \in Nat /\ cfg.gic.gicd[1] \in Nat /\ cfg.gic.stride \in Nat
      /\ UartAt \in Nat /\ SmpCpuNum \in Nat /\ GiccPage \in Nat /\ FdtPage \in Nat /\ FdtPages \in Nat /\ SgiFixAt \in Nat
      /\ SgiFixAt - 1 \in Int /\ 1 \in Nat /\ TRUE \in BOOLEAN /\ FALSE \in BOOLEAN
  BY <1>a, <1>b, <1>d
<1>1. CASE UNCHANGED bootVars
  BY <1>0, <1>1, SmpQuiet DEF bootVars, smpVars
<1>2. CASE BootTick
  BY <1>0, <1>2, SmpQuiet DEF BootTick, cfgVars, mmVars
<1>3. CASE PageStep
  <2>1. AreCalls(todo')
    BY <1>0, <1>3, PageStepCalls
  <2>2. UNCHANGED smpVars /\ mmuBoot' = mmuBoot /\ (stage' = "fatal" \/ stage' = stage)
    BY <1>3 DEF PageStep, cfgVars
  <2> QED
    BY <2>1, <2>2, SmpQuiet
<1>4. CASE todo = <<>> /\ (InitHyperLowLevel \/ SwitchToEl2 \/ InitPlatform \/ CpuInit \/ InitMm \/ EnableStage2Fatal
                                \/ InitPercpuArea)
  <2>1. /\ UNCHANGED <<smpVars, todo>> /\ mmuBoot \subseteq mmuBoot' /\ stage \in NoCpus /\ stage' \notin InLoop
        /\ stage' \in S2On => stage \in S2On
    <3>1. CASE InitHyperLowLevel \/ SwitchToEl2
      BY <3>1 DEF InitHyperLowLevel, SwitchToEl2, cfgVars, mmVars
    <3>2. CASE InitPlatform
      <4>1. stage' \in {"cpu_init", "panic"}
        BY <3>2 DEF InitPlatform
      <4> QED
        BY <3>2, <4>1 DEF InitPlatform, mmVars
    <3>3. CASE CpuInit
      BY <3>3 DEF CpuInit, mmVars
    <3>4. CASE InitMm
      BY <3>4 DEF InitMm, cfgVars
    <3>5. CASE InitPercpuArea \/ EnableStage2Fatal
      BY <3>5 DEF InitPercpuArea, EnableStage2Fatal, cfgVars
    <3> QED
      BY <1>4, <3>1, <3>2, <3>3, <3>4, <3>5
  <2> QED
    BY <1>0, <2>1, SmpQuiet
<1>5. CASE todo = <<>> /\ TestPageAlloc
  <2> DEFINE Sgi(c) == cfg.gic.gicr[1] + (c - 1) * cfg.gic.stride + 1
             u == [c \in 1..SmpCpuNum |-> Call("map", SgiFixAt + c - 1, Sgi(c), TRUE)]
  <2>1. /\ UNCHANGED smpVars /\ mmuBoot' = mmuBoot /\ stage \in NoCpus /\ stage' \in {"fatal", "stage2", "stage2_42"}
        /\ todo' = MapPages(SgiFixAt - 1, UartAt, 1, TRUE) \o u
    BY <1>5 DEF TestPageAlloc, cfgVars
  <2>2. AreCalls(u)
    <3> DEFINE T == {Call("map", SgiFixAt + c - 1, Sgi(c), TRUE) : c \in 1..SmpCpuNum}
    <3>1. u \in Seq(T)
      <4>1. \A c \in 1..SmpCpuNum : Call("map", SgiFixAt + c - 1, Sgi(c), TRUE) \in T
        OBVIOUS
      <4> HIDE DEF T, Sgi
      <4>2. u \in [1..SmpCpuNum -> T]
        BY <4>1
      <4> HIDE DEF u
      <4> QED
        BY <1>c, <4>2
    <3>2. \A t \in T : CallOK(t)
      <4> SUFFICES ASSUME NEW c \in 1..SmpCpuNum PROVE CallOK(Call("map", SgiFixAt + c - 1, Sgi(c), TRUE))
        OBVIOUS
      <4>1. (c - 1) * cfg.gic.stride \in Nat
        BY <1>c
      <4>2. Sgi(c) \in Nat
        BY <1>c, <4>1
      <4> HIDE DEF Sgi
      <4> QED
        BY <4>2 DEF Call, CallOK
    <3> HIDE DEF T, u
    <3> QED
      BY <3>1, <3>2 DEF AreCalls
  <2>3. AreCalls(MapPages(SgiFixAt - 1, UartAt, 1, TRUE))
    BY <1>c, MapPagesCalls
  <2> HIDE DEF u
  <2>4. AreCalls(todo')
    BY <2>1, <2>2, <2>3, CallsConcat
  <2> QED
    BY <2>1, <2>4, SmpQuiet
<1>6. CASE todo = <<>> /\ EnableStage2
  <2> DEFINE at == IoremapAt(window, 1)
  <2>1. /\ UNCHANGED smpVars /\ mmuBoot' = mmuBoot \cup {"vtcr", "vttbr"} /\ stage \in NoCpus /\ stage' = "percpu"
        /\ todo' = MapPages(at, UartAt, 1, FALSE) \o UnmapPages(at, 1)
    BY <1>6 DEF EnableStage2
  <2>2. at \in Nat
    BY VmallocBitType
  <2> HIDE DEF at
  <2>3. AreCalls(MapPages(at, UartAt, 1, FALSE))
    <3>1. at \in Int
      BY <2>2
    <3> QED
      BY <1>c, <3>1, MapPagesCalls
  <2>5. AreCalls(UnmapPages(at, 1))
    BY <1>c, UnmapPagesCalls
  <2>4. AreCalls(todo')
    BY <2>1, <2>3, <2>5, CallsConcat
  <2> QED
    BY <2>1, <2>4, SmpQuiet
<1>7. CASE todo = <<>> /\ InitInterrupt
  <2>1. /\ UNCHANGED <<smpVars, mmuBoot>> /\ stage = "interrupt" /\ stage' = "gic"
        /\ \E a, b, c : /\ a \in Nat /\ b \in Nat /\ c \in Nat
                        /\ todo' = MapPages(a, cfg.gic.gicd[1], 1, FALSE) \o MapPages(b, GiccPage, 1, FALSE)
                                     \o MapPages(c, cfg.gic.gicr[1], cfg.gic.gicr[2], TRUE)
    <3>0. PICK w1, w2 : todo' = MapPages(IoremapAt(window, 1), cfg.gic.gicd[1], 1, FALSE)
                                  \o MapPages(IoremapAt(w1, 1), GiccPage, 1, FALSE)
                                  \o MapPages(IoremapAt(w2, cfg.gic.gicr[2]), cfg.gic.gicr[1], cfg.gic.gicr[2], TRUE)
      BY <1>7 DEF InitInterrupt
    <3>1. IoremapAt(window, 1) \in Nat /\ IoremapAt(w1, 1) \in Nat
      BY <1>c, VmallocBitType
    <3>2. IoremapAt(w2, cfg.gic.gicr[2]) \in Nat
      BY <1>c, VmallocBitType
    <3>3. UNCHANGED <<smpVars, mmuBoot>> /\ stage = "interrupt" /\ stage' = "gic"
      BY <1>7 DEF InitInterrupt
    <3> QED
      BY <3>0, <3>1, <3>2, <3>3
  <2>2. PICK a, b, c : /\ a \in Nat /\ b \in Nat /\ c \in Nat
                       /\ todo' = MapPages(a, cfg.gic.gicd[1], 1, FALSE) \o MapPages(b, GiccPage, 1, FALSE)
                                    \o MapPages(c, cfg.gic.gicr[1], cfg.gic.gicr[2], TRUE)
    BY <2>1
  <2>0. a \in Int /\ b \in Int /\ c \in Int
    BY <2>2
  <2>6. AreCalls(MapPages(a, cfg.gic.gicd[1], 1, FALSE))
    BY <1>c, <2>0, MapPagesCalls
  <2>7. AreCalls(MapPages(b, GiccPage, 1, FALSE))
    BY <1>c, <2>0, MapPagesCalls
  <2>8. AreCalls(MapPages(c, cfg.gic.gicr[1], cfg.gic.gicr[2], TRUE))
    BY <1>c, <2>0, MapPagesCalls
  <2>3. /\ AreCalls(MapPages(a, cfg.gic.gicd[1], 1, FALSE)) /\ AreCalls(MapPages(b, GiccPage, 1, FALSE))
        /\ AreCalls(MapPages(c, cfg.gic.gicr[1], cfg.gic.gicr[2], TRUE))
    BY <2>6, <2>7, <2>8
  <2>4. AreCalls(MapPages(a, cfg.gic.gicd[1], 1, FALSE) \o MapPages(b, GiccPage, 1, FALSE))
    BY <2>3, CallsConcat
  <2>5. AreCalls(todo')
    BY <2>2, <2>3, <2>4, CallsConcat
  <2> QED
    BY <2>1, <2>5, SmpQuiet
<1>8. CASE todo = <<>> /\ InitGicv3
  <2>1. /\ UNCHANGED <<cpus, turn, online, sec, mmuBoot>> /\ stage = "gic" /\ stage' = "cpus"
        /\ redist' = redist \cup {[frame |-> 0, cpu |-> 0]} /\ todo' = UnmapPages(fdtAt, 2)
    BY <1>8 DEF InitGicv3, RdInit, cfgVars
  <2>2. AreCalls(todo')
    BY <2>1, UnmapPagesCalls
  <2>3. \A r \in redist' : RdistAff[r.frame + 1] = r.cpu
    BY <2>1, A64BootAssumption DEF SmpInv
  <2> QED
    BY <2>1, <2>2, <2>3 DEF SmpInv
<1>9. CASE todo = <<>> /\ ParseHostCpus
  <2> DEFINE at == IoremapAt(window, FdtPages)
  <2>1. /\ UNCHANGED <<turn, online, sec, redist, mmuBoot>> /\ stage = "cpus" /\ cpus' = HostCpus(host)
        /\ stage' = IF Len(cpus') <= 1 THEN "unmap_fdt" ELSE "boot_cpu"
        /\ todo' = MapPages(at, FdtPage, FdtPages, FALSE)
    BY <1>9 DEF ParseHostCpus, cfgVars
  <2>2. cpus' \in Seq(Nat)
    <3>1. IsTree(host)
      BY <2>1, TreesAssumption DEF ConfigInv
    <3> QED
      BY <2>1, <3>1, HostCpusType
  <2>3. AreCalls(todo')
    <3>1. at \in Nat
      BY <1>c, VmallocBitType
    <3> HIDE DEF at
    <3>2. at \in Int
      BY <3>1
    <3>3. AreCalls(MapPages(at, FdtPage, FdtPages, FALSE))
      BY <1>c, <3>2, MapPagesCalls
    <3> QED
      BY <2>1, <3>3
  <2>4. turn = 1 /\ online = {} /\ \A m \in Secondary : sec[m] = "off"
    BY <2>1 DEF SmpInv
  <2>5. Len(cpus') \in Nat /\ (stage' = "boot_cpu" => 1 <= Len(cpus')) /\ stage' \in {"unmap_fdt", "boot_cpu"}
    BY <2>1, <2>2
  <2>6. turn' = 1 /\ 1 \in 1..(Len(cpus') + 1) /\ online' = {} /\ online' \subseteq DOMAIN cpus'
    BY <2>1, <2>4, <2>5
  <2>7. {"vtcr", "vttbr"} \subseteq mmuBoot'
    BY <2>1 DEF SmpInv
  <2>8. sec' \in [Secondary -> SecStates] /\ \A r \in redist' : RdistAff[r.frame + 1] = r.cpu
    BY <2>1 DEF SmpInv
  <2>9. stage' \notin NoCpus /\ (stage' \in InLoop => turn' <= Len(cpus'))
    BY <2>5, <2>6
  <2> QED
    BY <2>2, <2>3, <2>6, <2>7, <2>8, <2>9 DEF SmpInv
<1>10. CASE todo = <<>> /\ (CpuOn \/ WaitOnline)
  <2>0. /\ UNCHANGED <<cpus, online, redist, mmuBoot, todo>> /\ stage \in InLoop
        /\ Len(cpus) \in Nat /\ turn \in 1..Len(cpus)
    BY <1>10 DEF CpuOn, WaitOnline, cfgVars, mmVars, SmpInv
  <2>1. CASE NextCpu(turn) /\ UNCHANGED sec
    <3>1. turn' \in 1..Len(cpus) /\ stage' \in {"unmap_fdt", "boot_cpu"}
      BY <2>0, <2>1, NextCpuMoves
    <3> QED
      BY <1>0, <2>0, <2>1, <3>1 DEF SmpInv
  <2>2. CASE /\ stage' = "wait" /\ turn' = turn
             /\ \E m \in Secondary : sec' = [sec EXCEPT ![m] = "entry"]
    BY <1>0, <2>0, <2>2 DEF SmpInv, SecStates
  <2> QED
    BY <1>10, <2>1, <2>2 DEF CpuOn, WaitOnline
<1>11. CASE todo = <<>> /\ (UnmapFdt \/ InitSched \/ TimerInit \/ CreateTask \/ Insert)
  <2>1. /\ UNCHANGED smpVars /\ mmuBoot' = mmuBoot /\ stage' \notin NoCpus \cup InLoop \cup S2On
        /\ todo' = todo \/ todo' = UnmapPages(fdtAt, FdtPages)
    BY <1>11 DEF UnmapFdt, InitSched, TimerInit, CreateTask, Insert, cfgVars, mmVars
  <2>2. AreCalls(todo')
    BY <1>0, <1>c, <2>1, UnmapPagesCalls
  <2> QED
    BY <2>1, <2>2, SmpQuiet
<1>12. ASSUME NEW m \in Secondary, SecondaryStep(m) PROVE SmpInv'
  <2>1. CASE SecondaryEntry(m) \/ SecondaryMmu(m) \/ EnableTick(m)
    BY <2>1, SmpMoves DEF SecondaryEntry, SecondaryMmu, EnableTick, SecStep, SmpInv, SecStates, cfgVars, mmVars
  <2>2. CASE MarkOnline(m)
    <3>1. /\ sec[m] # "off" /\ sec' = [sec EXCEPT ![m] = "online"] /\ UNCHANGED <<stage, cpus, turn, todo, mmuBoot, redist>>
          /\ online' = online \cup CpuIndex(m)
      BY <2>2 DEF MarkOnline, SecStep, cfgVars, mmVars
    <3>2. online' \subseteq DOMAIN cpus /\ "online" \in SecStates
      BY <3>1 DEF CpuIndex, SmpInv, SecStates
    <3> QED
      BY <3>1, <3>2, SmpMoves DEF SmpInv
  <2>3. CASE EarlyTick(m)
    BY <2>3, SmpMoves DEF EarlyTick, Ticks, SmpInv, SecStates, cfgVars, mmVars
  <2>4. CASE PcpuInit(m)
    <3>1. PICK i \in CpuIndex(m) :
              \/ SecStep(m, "mmu", "hung") /\ UNCHANGED redist
              \/ /\ SecStep(m, "mmu", "gic")
                 /\ LET f == FrameOf(FramePage(i)[1])
                    IN  redist' = IF f < Len(RdistAff) /\ RdistAff[f + 1] = m THEN RdInit(f, m) ELSE redist
      BY <2>4 DEF PcpuInit
    <3>2. PICK s \in {"hung", "gic"} : sec[m] = "mmu" /\ sec' = [sec EXCEPT ![m] = s]
      BY <3>1 DEF SecStep
    <3>3. redist' = redist \/ \E f : RdistAff[f + 1] = m /\ redist' = redist \cup {[frame |-> f, cpu |-> m]}
      BY <3>1 DEF RdInit
    <3>4. \A r \in redist' : RdistAff[r.frame + 1] = r.cpu
      BY <3>3 DEF SmpInv
    <3>5. UNCHANGED <<stage, cpus, turn, online, todo, mmuBoot>>
      BY <2>4 DEF PcpuInit, cfgVars, mmVars
    <3>6. s \in SecStates /\ online' \subseteq DOMAIN cpus
      BY <3>5 DEF SecStates, SmpInv
    <3> QED
      BY <3>2, <3>4, <3>5, <3>6, SmpMoves
  <2> QED
    BY <1>12, <2>1, <2>2, <2>3, <2>4 DEF SecondaryStep
<1> QED
  BY <1>1, <1>2, <1>3, <1>4, <1>5, <1>6, <1>7, <1>8, <1>9, <1>10, <1>11, <1>12 DEF BootNext, BootStep

-----------------------------------------------------------------------------
(* aarch64: the redistributors' frames                                      *)

PageOf(off) == <<cfg.gic.virt + off, cfg.gic.gicr[1] + off>>
Offsets == 0..(cfg.gic.gicr[2] - 1)
Started == \E m \in Secondary : sec[m] # "off"

(* From init_interrupt on every page of the redistributors is mapped or in  *)
(* the calls to come, and when a secondary has started all are mapped.      *)
FramesInv ==
    /\ stage = "gic" => \A off \in Offsets :
                            PageOf(off) \in kept \/ Pending(todo, PageOf(off)[1], PageOf(off)[2])
    /\ stage \in {"cpus", "boot_cpu", "wait"} \/ Started => \A off \in Offsets : PageOf(off) \in kept

(* A step that starts nobody and leaves the frames as they are.             *)
LEMMA FramesQuiet ==
    ASSUME FramesInv, UNCHANGED <<cfg, sec>>, kept \subseteq kept',
           stage' \in {"cpus", "boot_cpu", "wait"} => stage \in {"cpus", "boot_cpu", "wait"},
           stage' # "gic"
    PROVE  FramesInv'
BY DEF FramesInv, PageOf, Offsets, Started

(* Every step of boot and of the secondaries preserves FramesInv.           *)
LEMMA FramesStep == ConfigInv /\ SmpInv /\ FramesInv /\ [BootNext]_bootVars => FramesInv'
<1> SUFFICES ASSUME ConfigInv, SmpInv, FramesInv, [BootNext]_bootVars PROVE FramesInv'
  OBVIOUS
<1> USE DEF Unread, Unmapped, NoGic, NoCpus
<1>0. stage \in NoCpus => \A m \in Secondary : sec[m] = "off"
  BY DEF SmpInv
<1>1. CASE UNCHANGED <<cfg, sec, kept, stage, todo>>
  BY <1>1 DEF FramesInv, PageOf, Offsets, Started, Pending
<1>2. CASE UNCHANGED bootVars
  BY <1>1, <1>2 DEF bootVars
<1>3. CASE BootTick
  BY <1>3, FramesQuiet DEF BootTick, cfgVars, mmVars, smpVars
<1>4. CASE PageStep
  <2>1. /\ kept \subseteq kept'
        /\ \A va, pa : Pending(todo, va, pa) => <<va, pa>> \in kept' \/ Pending(todo', va, pa)
    BY <1>4, PageStepCalls DEF SmpInv
  <2>2. UNCHANGED <<cfg, sec>> /\ (stage' = stage \/ stage' = "fatal")
    BY <1>4 DEF PageStep, cfgVars, smpVars
  <2>3. CASE stage' = "gic"
    <3>1. ASSUME NEW off \in Offsets PROVE PageOf(off) \in kept' \/ Pending(todo', PageOf(off)[1], PageOf(off)[2])
      <4>1. PageOf(off) \in kept \/ Pending(todo, PageOf(off)[1], PageOf(off)[2])
        BY <2>2, <2>3 DEF FramesInv
      <4>2. PageOf(off) = <<PageOf(off)[1], PageOf(off)[2]>>
        BY DEF PageOf
      <4> QED
        BY <2>1, <4>1, <4>2
    <3>2. ~Started
      BY <1>0, <2>2, <2>3 DEF Started
    <3> QED
      BY <2>2, <2>3, <3>1, <3>2 DEF FramesInv, PageOf, Offsets, Started
  <2>4. CASE stage' # "gic"
    BY <2>1, <2>2, <2>4, FramesQuiet
  <2> QED
    BY <2>3, <2>4
<1>5. CASE /\ todo = <<>>
           /\ InitHyperLowLevel \/ SwitchToEl2 \/ InitPlatform \/ CpuInit \/ InitMm \/ TestPageAlloc \/ EnableStage2
                \/ EnableStage2Fatal \/ InitPercpuArea
  <2>1. stage \in NoGic /\ sec' = sec /\ stage' \notin {"gic", "cpus", "boot_cpu", "wait"}
    <3>1. CASE InitHyperLowLevel \/ SwitchToEl2
      BY <3>1 DEF InitHyperLowLevel, SwitchToEl2, smpVars
    <3>2. CASE InitPlatform
      <4>1. stage' \in {"cpu_init", "panic"}
        BY <3>2 DEF InitPlatform
      <4> QED
        BY <3>2, <4>1 DEF InitPlatform, smpVars
    <3>3. CASE CpuInit
      BY <3>3 DEF CpuInit, smpVars
    <3>4. CASE InitMm
      BY <3>4 DEF InitMm, smpVars
    <3>5. CASE TestPageAlloc
      BY <3>5 DEF TestPageAlloc, smpVars
    <3>6. CASE EnableStage2 \/ EnableStage2Fatal \/ InitPercpuArea
      BY <3>6 DEF EnableStage2, EnableStage2Fatal, InitPercpuArea, smpVars
    <3> QED
      BY <1>5, <3>1, <3>2, <3>3, <3>4, <3>5, <3>6
  <2>2. ~Started'
    BY <1>0, <2>1 DEF Started
  <2> QED
    BY <2>1, <2>2 DEF FramesInv
<1>6. CASE todo = <<>> /\ InitInterrupt
  <2> DEFINE at == cfg'.gic.virt
             pa == cfg.gic.gicr[1]
             pages == cfg.gic.gicr[2]
  <2>1. PICK w, a, b, c, d :
           /\ a \in Nat /\ b \in Nat
           /\ cfg' = [cfg EXCEPT !.gic.virt = IoremapAt(w, pages)]
           /\ todo' = MapPages(a, c, 1, FALSE) \o MapPages(b, d, 1, FALSE)
                        \o MapPages(IoremapAt(w, pages), pa, pages, TRUE)
           /\ c = cfg.gic.gicd[1] /\ d = GiccPage
    <3>1. PICK w1, w2 :
             /\ cfg' = [cfg EXCEPT !.gic.virt = IoremapAt(w2, pages)]
             /\ todo' = MapPages(IoremapAt(window, 1), cfg.gic.gicd[1], 1, FALSE)
                          \o MapPages(IoremapAt(w1, 1), GiccPage, 1, FALSE)
                          \o MapPages(IoremapAt(w2, pages), pa, pages, TRUE)
      BY <1>6 DEF InitInterrupt
    <3>2. 1 \in Nat
      OBVIOUS
    <3>3. IoremapAt(window, 1) \in Nat /\ IoremapAt(w1, 1) \in Nat
      BY <3>2, VmallocBitType
    <3> QED
      BY <3>1, <3>3
  <2>2. pa \in Nat /\ pages \in Nat /\ c \in Nat
    BY <2>1, GicNumbers
  <2>3. d \in Nat
    BY <2>1, A64BootAssumption
  <2>4. IoremapAt(w, pages) \in Nat
    BY <2>2, VmallocBitType
  <2>5. at = IoremapAt(w, pages) /\ cfg'.gic.gicr = cfg.gic.gicr
    BY <2>1 DEF ConfigInv, CfgOK, Fields, GicConfig
  <2> HIDE DEF at
  <2>6. AreCalls(MapPages(a, c, 1, FALSE) \o MapPages(b, d, 1, FALSE))
    <3>1. a \in Int /\ b \in Int /\ 1 \in Nat /\ FALSE \in BOOLEAN
      BY <2>1
    <3>2. AreCalls(MapPages(a, c, 1, FALSE))
      BY <2>2, <3>1, MapPagesCalls
    <3>3. AreCalls(MapPages(b, d, 1, FALSE))
      BY <2>3, <3>1, MapPagesCalls
    <3> QED
      BY <3>2, <3>3, CallsConcat
  <2>7. /\ AreCalls(MapPages(at, pa, pages, TRUE))
        /\ \A i \in 0..(pages - 1) : Pending(MapPages(at, pa, pages, TRUE), at + i, pa + i)
    <3>1. at \in Int /\ TRUE \in BOOLEAN
      BY <2>4, <2>5
    <3> HIDE DEF pa, pages
    <3> QED
      BY <2>2, <3>1, MapPagesCalls
  <2>8. todo' = (MapPages(a, c, 1, FALSE) \o MapPages(b, d, 1, FALSE)) \o MapPages(at, pa, pages, TRUE)
    BY <2>1, <2>5
  <2>9. \A i \in 0..(pages - 1) : Pending(todo', at + i, pa + i)
    <3> HIDE DEF pa, pages
    <3> QED
      BY <2>6, <2>7, <2>8, CallsConcat
  <2>10. Offsets' = 0..(pages - 1) /\ \A i : PageOf(i)' = <<at + i, pa + i>>
    BY <2>5 DEF Offsets, PageOf, at
  <2>11. \A off \in Offsets' : Pending(todo', PageOf(off)'[1], PageOf(off)'[2])
    <3> HIDE DEF pa, pages
    <3> QED
      BY <2>9, <2>10
  <2>12. stage' = "gic" /\ ~Started'
    BY <1>0, <1>6 DEF InitInterrupt, smpVars, Started
  <2> QED
    BY <2>11, <2>12 DEF FramesInv
<1>7. CASE todo = <<>> /\ InitGicv3
  <2>1. stage = "gic" /\ stage' = "cpus" /\ UNCHANGED <<cfg, sec, kept>>
    BY <1>7 DEF InitGicv3, cfgVars
  <2>2. \A off \in Offsets : PageOf(off) \in kept
    BY <1>7, <2>1 DEF FramesInv, Pending
  <2> QED
    BY <2>1, <2>2 DEF FramesInv, Offsets, PageOf
<1>8. CASE todo = <<>> /\ (ParseHostCpus \/ CpuOn \/ WaitOnline)
  <2>1. /\ stage \in {"cpus", "boot_cpu", "wait"} /\ stage' # "gic" /\ UNCHANGED <<cfg, kept>>
    BY <1>8, NextCpuMoves DEF ParseHostCpus, CpuOn, WaitOnline, cfgVars, mmVars
  <2>2. \A off \in Offsets : PageOf(off) \in kept
    BY <2>1 DEF FramesInv
  <2> QED
    BY <2>1, <2>2 DEF FramesInv, Offsets, PageOf
<1>9. CASE todo = <<>> /\ (UnmapFdt \/ InitSched \/ TimerInit \/ CreateTask \/ Insert)
  <2>1. /\ UNCHANGED <<cfg, sec, kept>> /\ stage' \notin {"gic", "cpus", "boot_cpu", "wait"}
    BY <1>9 DEF UnmapFdt, InitSched, TimerInit, CreateTask, Insert, cfgVars, mmVars, smpVars
  <2> QED
    BY <2>1, FramesQuiet
<1>10. ASSUME NEW m \in Secondary, SecondaryStep(m) PROVE FramesInv'
  <2>1. UNCHANGED <<cfg, kept, stage, todo>> /\ sec[m] # "off"
    BY <1>10 DEF SecondaryStep, SecondaryEntry, SecondaryMmu, PcpuInit, EnableTick, MarkOnline, EarlyTick, Ticks,
                 SecStep, cfgVars, mmVars
  <2>2. stage # "gic" /\ Started
    BY <1>0, <2>1 DEF Started
  <2> QED
    BY <2>1, <2>2 DEF FramesInv, Offsets, PageOf
<1> QED
  BY <1>2, <1>3, <1>4, <1>5, <1>6, <1>7, <1>8, <1>9, <1>10 DEF BootNext, BootStep

BootInv == ConfigInv /\ SmpInv /\ FramesInv

(* The three invariants hold throughout.                                    *)
LEMMA BootInvAlways == Spec => []BootInv
<1>1. Init => BootInv
  <2> SUFFICES ASSUME BootInit PROVE BootInv
    BY DEF Init
  <2>1. FramesInv
    BY DEF BootInit, FramesInv, Started
  <2> QED
    BY <2>1, ConfigInitially, SmpInitially DEF BootInv
<1>2. BootInv /\ [Next]_allBootVars => BootInv'
  <2> SUFFICES ASSUME BootInv, [Next]_allBootVars PROVE BootInv'
    OBVIOUS
  <2>1. [BootNext]_bootVars
    BY DEF Next, A64Next, RiscvNext, allBootVars
  <2> QED
    BY <2>1, ConfigStep, SmpStep, FramesStep DEF BootInv
<1> QED
  BY <1>1, <1>2, PTL DEF Spec

(* A redistributor is set up by its own CPU only, and a secondary that has  *)
(* its MMU on finds its frame mapped, for every tree, every order of the    *)
(* CPUs in it and every time they take, provided the boot CPU's maps and    *)
(* unmaps leave standing what is mapped (MapsKept, which the run checks).   *)
THEOREM RedistOwned == Spec /\ []MapsKept => []OwnRedist
<1>1. BootInv /\ MapsKept => OwnRedist
  <2> SUFFICES ASSUME BootInv, MapsKept PROVE OwnRedist
    OBVIOUS
  <2>0. ConfigInv /\ SmpInv /\ FramesInv
    BY DEF BootInv
  <2>1. \A r \in redist : RdistAff[r.frame + 1] = r.cpu
    BY <2>0 DEF SmpInv
  <2>2. ASSUME NEW m \in Secondary, sec[m] = "mmu", NEW i \in CpuIndex(m), FrameOffset(i) < cfg.gic.gicr[2]
        PROVE  WalkPageTable(mem, cfg.gic.virt + FrameOffset(i)) = <<cfg.gic.gicr[1] + FrameOffset(i)>>
    <3>1. stage \notin NoCpus /\ Started
      BY <2>0, <2>2 DEF SmpInv, Started
    <3>2. \A k \in kept : WalkPageTable(mem, k[1]) = <<k[2]>>
      BY <3>1 DEF MapsKept, MapSound, NoCpus, NoGic, Unmapped, Unread
    <3>3. i \in Nat \ {0} /\ cfg.gic.stride \in Nat /\ cfg.gic.gicr[2] \in Nat
      BY <2>0, GicNumbers DEF CpuIndex, SmpInv
    <3>4. FrameOffset(i) \in Nat
      BY <3>3 DEF FrameOffset
    <3>5. FrameOffset(i) \in Offsets
      BY <2>2, <3>3, <3>4 DEF Offsets
    <3>6. PageOf(FrameOffset(i)) \in kept
      BY <2>0, <3>1, <3>5 DEF FramesInv
    <3> QED
      BY <3>2, <3>6 DEF PageOf
  <2>3. ASSUME NEW m \in Secondary, sec[m] = "mmu" PROVE {"vtcr", "vttbr"} \subseteq mmuBoot
    BY <2>0, <2>3 DEF SmpInv
  <2> QED
    BY <2>1, <2>2, <2>3 DEF OwnRedist
<1> QED
  BY <1>1, BootInvAlways, PTL

-----------------------------------------------------------------------------
(* aarch64: the types, and the page allocator's end                         *)

MemOK(m) == DOMAIN m = {"tbl", "used", "fatal"} /\ m.fatal \in BOOLEAN

(* A run of pages lies in the pool or begins right behind it.               *)
LEMMA RunIs ==
    ASSUME NEW used, NEW cnt \in Nat
    PROVE  \/ Run(AllocPagesCnt(used, cnt), cnt) \subseteq Pool
           \/ Fan + NPages \in Run(AllocPagesCnt(used, cnt), cnt)
<1> DEFINE fit == {p \in Pool : /\ (p - Fan) % 2 = 0 /\ p..(p + cnt - 1) \subseteq Pool \ used}
           at == AllocPagesCnt(used, cnt)
<1>1. at = IF fit = {} THEN Fan + NPages ELSE Min(fit)
  BY DEF AllocPagesCnt
<1>2. Fan \in Nat /\ NPages \in Nat
  BY HostMapAssumption
<1>3. fit \in SUBSET Nat
  BY <1>2 DEF Pool
<1>4. \A p \in fit : p..(p + cnt - 1) \subseteq Pool
  OBVIOUS
<1> HIDE DEF fit, at
<1>5. CASE fit = {}
  <2>1. at = Fan + NPages
    BY <1>1, <1>5
  <2>2. CASE cnt = 0
    BY <1>2, <2>1, <2>2 DEF Run, at
  <2>3. CASE cnt # 0
    BY <1>2, <2>1, <2>3 DEF Run, at
  <2> QED
    BY <2>2, <2>3
<1>6. CASE fit # {}
  <2>1. Min(fit) \in fit
    BY <1>3, <1>6, MinIs
  <2>2. at \in fit
    BY <1>1, <1>6, <2>1
  <2> QED
    BY <1>4, <2>2 DEF Run, at
<1> QED
  BY <1>5, <1>6

(* One page comes from the pool or is the one right behind it.              *)
LEMMA AllocOneIs ==
    ASSUME NEW used
    PROVE  AllocOnePage(used) \in Pool \/ AllocOnePage(used) = Fan + NPages
<1> DEFINE fit == {p \in Pool : /\ (p - Fan) % 2 = 0 /\ p..(p + 1 - 1) \subseteq Pool \ used}
<1>1. AllocOnePage(used) = IF fit = {} THEN Fan + NPages ELSE Min(fit)
  BY DEF AllocPagesCnt, AllocOnePage
<1>2. Fan \in Nat /\ NPages \in Nat
  BY HostMapAssumption
<1>3. fit \in SUBSET Nat /\ fit \subseteq Pool
  BY <1>2 DEF Pool
<1> HIDE DEF fit
<1>4. fit # {} => Min(fit) \in fit
  BY <1>3, MinIs
<1> QED
  BY <1>1, <1>3, <1>4

(* An entry written takes no page.                                          *)
LEMMA FillMem ==
    ASSUME NEW m, MemOK(m), NEW t, NEW entry
    PROVE  MemOK(Fill(m, t, entry)) /\ Fill(m, t, entry).used = m.used
BY DEF MemOK, Fill, Put

(* What one level of a call does to the pages taken.                        *)
LEMMA LevelMem ==
    ASSUME NEW m, MemOK(m), NEW t
    PROVE  /\ MemOK(MapLevel(m, t).mem) /\ MapLevel(m, t).mem.used \subseteq m.used \cup {AllocOnePage(m.used)}
           /\ MemOK(UnmapLevel(m, t).mem) /\ UnmapLevel(m, t).mem.used \subseteq m.used
           /\ MemOK(FreeLevel(m, t).mem) /\ FreeLevel(m, t).mem.used \subseteq m.used
<1>1. MemOK(Stop(m)) /\ Stop(m).used = m.used
  BY DEF MemOK, Stop
<1>2. MemOK(MapLevel(m, t).mem) /\ MapLevel(m, t).mem.used \subseteq m.used \cup {AllocOnePage(m.used)}
  <2> DEFINE e == Entry(m, t)
             new == AllocOnePage(m.used)
             f == Fill(m, t, MakeStage1Entry(new))
             g == [f EXCEPT !.used = @ \cup {new}, !.tbl[new] = ZeroTable]
  <2>1. MapLevel(m, t) =
          CASE Level(t) = 3 /\ e # Zero -> [mem |-> Stop(m), rest |-> <<>>]
            [] Level(t) = 3 /\ e = Zero -> [mem |-> Fill(m, t, MakeStage1Entry(t.pa)), rest |-> <<>>]
            [] Level(t) < 3 /\ Absent(e) -> [mem |-> g, rest |-> Down(t, new)]
            [] OTHER -> [mem |-> m, rest |-> Down(t, e.base)]
    BY DEF MapLevel
  <2>2. MemOK(f) /\ f.used = m.used
    BY FillMem
  <2> HIDE DEF f
  <2>3. MemOK(g) /\ g.used = m.used \cup {new}
    BY <2>2 DEF MemOK
  <2> HIDE DEF g, e
  <2>4. MemOK(Fill(m, t, MakeStage1Entry(t.pa))) /\ Fill(m, t, MakeStage1Entry(t.pa)).used = m.used
    BY FillMem
  <2>5. MapLevel(m, t).mem \in {Stop(m), Fill(m, t, MakeStage1Entry(t.pa)), g, m}
    <3>1. CASE Level(t) = 3 /\ e # Zero
      BY <2>1, <3>1
    <3>2. CASE Level(t) = 3 /\ e = Zero
      BY <2>1, <3>2
    <3>3. CASE Level(t) # 3 /\ Level(t) < 3 /\ Absent(e)
      BY <2>1, <3>3
    <3>4. CASE Level(t) # 3 /\ ~(Level(t) < 3 /\ Absent(e))
      BY <2>1, <3>4
    <3> QED
      BY <3>1, <3>2, <3>3, <3>4
  <2> QED
    BY <1>1, <2>3, <2>4, <2>5
<1>3. MemOK(UnmapLevel(m, t).mem) /\ UnmapLevel(m, t).mem.used \subseteq m.used
  <2>1. MemOK(Fill(m, t, Zero)) /\ Fill(m, t, Zero).used = m.used
    BY FillMem
  <2>2. UnmapLevel(m, t).mem \in {Stop(m), Fill(m, t, Zero), m}
    BY DEF UnmapLevel
  <2> QED
    BY <1>1, <2>1, <2>2
<1>4. MemOK(FreeLevel(m, t).mem) /\ FreeLevel(m, t).mem.used \subseteq m.used
  <2> DEFINE up == [t EXCEPT !.path = Front(@)]
             f == Fill(m, up, Zero)
             g == [f EXCEPT !.used = @ \ {Last(t.path)}]
  <2>1. FreeLevel(m, t).mem \in {m, g}
    BY DEF FreeLevel
  <2>2. MemOK(f) /\ f.used = m.used
    BY FillMem
  <2> HIDE DEF f
  <2>3. MemOK(g) /\ g.used \subseteq m.used
    BY <2>2 DEF MemOK
  <2> HIDE DEF g
  <2> QED
    BY <2>1, <2>3
<1> QED
  BY <1>2, <1>3, <1>4

(* The builders of static tables touch the tables only.                     *)
LEMMA BuildMem ==
    ASSUME NEW m, MemOK(m), NEW va, NEW pa, NEW cnt, NEW l0, NEW l1, NEW l2
    PROVE  /\ MemOK(BuildTwoLevel(m, va, pa, cnt, l0, l1, l2)) /\ MemOK(BuildThreeLevel(m, va, pa, cnt, l0, l1, l2))
           /\ MemOK(FixMap(m, va, pa, l0, l1, l2))
<1> DEFINE linked == BuildTable(BuildTable(m, l0, l1, va, 0), l1, l2, va, 1)
<1>1. MemOK(linked)
  BY DEF MemOK, BuildTable, Put
<1>2. ASSUME NEW l, MemOK(l), NEW rows PROVE MemOK([l EXCEPT !.tbl = rows])
  BY <1>2 DEF MemOK
<1>3. ASSUME NEW l, MemOK(l), NEW t, NEW from, NEW entries PROVE MemOK(FillRow(l, t, from, entries))
  <2> DEFINE row == [x \in 0..(Fan - 1) |-> IF x - from \in DOMAIN entries THEN entries[x - from] ELSE l.tbl[t][x]]
  <2>1. FillRow(l, t, from, entries) = [l EXCEPT !.tbl[t] = row]
    BY DEF FillRow
  <2> HIDE DEF row
  <2> QED
    BY <1>3, <2>1 DEF MemOK
<1>4. MemOK(BuildTwoLevel(m, va, pa, cnt, l0, l1, l2))
  <2> DEFINE entries == [i \in 0..(cnt - 1) |-> Block((pa \div Fan + i) * Fan)]
  <2>1. BuildTwoLevel(m, va, pa, cnt, l0, l1, l2) = FillRow(linked, l2, Index(va, 2), entries)
    BY DEF BuildTwoLevel
  <2> HIDE DEF entries, linked
  <2> QED
    BY <1>1, <1>3, <2>1
<1>5. MemOK(BuildThreeLevel(m, va, pa, cnt, l0, l1, l2))
  <2> DEFINE first  == (va \div Fan) * Fan
             thirds == (va + cnt - 1 - first) \div Fan + 1
             entries == [i \in 0..(thirds - 1) |-> MakeStage1Entry(BootThird(i))]
             second == FillRow(linked, l2, Index(va, 2), entries)
             Nth(t, x) == (t - BootThird(0)) * Fan + x - Index(va, 3)
             rows == [t \in DOMAIN second.tbl |-> [x \in 0..(Fan - 1) |->
                         IF Nth(t, x) \in 0..(cnt - 1) THEN MakeStage1Entry(pa + Nth(t, x)) ELSE second.tbl[t][x]]]
  <2>1. BuildThreeLevel(m, va, pa, cnt, l0, l1, l2) = [second EXCEPT !.tbl = rows]
    BY DEF BuildThreeLevel
  <2>2. MemOK(second)
    <3> HIDE DEF entries, linked
    <3> QED
      BY <1>1, <1>3
  <2> HIDE DEF rows, second
  <2> QED
    BY <1>2, <2>1, <2>2
<1>6. MemOK(FixMap(m, va, pa, l0, l1, l2))
  <2> HIDE DEF linked
  <2>1. MemOK(Put(linked, l2, Index(va, 2), Block((pa \div Fan) * Fan)))
    BY <1>1 DEF MemOK, Put
  <2> QED
    BY <2>1 DEF FixMap, linked
<1> QED
  BY <1>4, <1>5, <1>6

Tasks == {"none", "ready", "running"}

TypeInv ==
    /\ stage \in Stages /\ mmuBoot \subseteq {"tcr", "vtcr", "vttbr"}
    /\ MemOK(mem) /\ mem.used \subseteq Pool /\ window \subseteq Nat
    /\ listInit \in BOOLEAN /\ (\E m \in {0} \cup Secondary : lock \subseteq {m}) /\ task \in Tasks

(* The allocator has not given out what is behind its last page.            *)
PagesLast == Fan + NPages \notin mem.used

(* init_mm takes the heap's pages from the pool.                            *)
LEMMA InitMmMem ==
    ASSUME InitMm, PagesLast'
    PROVE  MemOK(mem') /\ mem'.used \subseteq Pool
<1> DEFINE image  == BuildThreeLevel(NoMemory, ImageAt, ImageAt, ImageSize, BootPgtable, BootFirst, BootSecond)
           uart   == FixMap(image, UartAt, UartAt, BootPgtable, BootFirst, BootFix)
           direct == InitDirectMapping(uart)
           own    == Run(AllocPagesCnt({}, HeapPages), HeapPages)
<1>1. mem' = [direct EXCEPT !.used = own]
  BY DEF InitMm
<1>2. MemOK(NoMemory)
  BY DEF MemOK, NoMemory
<1>3. MemOK(image)
  BY <1>2, BuildMem
<1> HIDE DEF image
<1>4. MemOK(uart)
  BY <1>3, BuildMem
<1> HIDE DEF uart
<1>5. MemOK(direct)
  BY <1>4, BuildMem DEF InitDirectMapping
<1> HIDE DEF direct
<1>6. MemOK(mem') /\ mem'.used = own
  BY <1>1, <1>5 DEF MemOK
<1>7. HeapPages \in Nat
  BY A64BootAssumption
<1>8. own \subseteq Pool \/ Fan + NPages \in own
  BY <1>7, RunIs
<1> HIDE DEF own
<1> QED
  BY <1>6, <1>8 DEF PagesLast

(* test_page_alloc takes its pages from the pool.                           *)
LEMMA TestMem ==
    ASSUME TypeInv, TestPageAlloc, PagesLast'
    PROVE  MemOK(mem') /\ mem'.used \subseteq Pool
<1> DEFINE four == AllocPagesCnt(mem.used, 4)
           two == AllocPagesCnt(mem.used \cup Run(four, 4), 2)
           again == AllocPagesCnt(mem.used \cup Run(two, 2), 2)
           u == mem.used \cup Run(two, 2) \cup Run(again, 2)
           l2 == Run(AllocPagesCnt(u, KmapL2), KmapL2)
           l3 == Run(AllocPagesCnt(u \cup l2, KmapL3), KmapL3)
<1>1. mem' = [mem EXCEPT !.used = u \cup l2 \cup l3]
  BY Zenon DEF TestPageAlloc
<1>2. KmapL2 \in Nat /\ KmapL3 \in Nat /\ 2 \in Nat
  BY A64BootAssumption
<1>3. MemOK(mem') /\ mem'.used = mem.used \cup Run(two, 2) \cup Run(again, 2) \cup l2 \cup l3
  BY <1>1 DEF TypeInv, MemOK
<1>4. Run(two, 2) \subseteq Pool \/ Fan + NPages \in Run(two, 2)
  BY <1>2, RunIs
<1>5. Run(again, 2) \subseteq Pool \/ Fan + NPages \in Run(again, 2)
  BY <1>2, RunIs
<1>6. l2 \subseteq Pool \/ Fan + NPages \in l2
  BY <1>2, RunIs
<1>7. l3 \subseteq Pool \/ Fan + NPages \in l3
  BY <1>2, RunIs
<1> HIDE DEF two, again, l2, l3
<1> QED
  BY <1>3, <1>4, <1>5, <1>6, <1>7 DEF PagesLast, TypeInv

(* The window's bits stay natural numbers.                                  *)
LEMMA VmallocType ==
    ASSUME NEW w, w \subseteq Nat, NEW pages \in Nat
    PROVE  Vmalloc(w, pages) \subseteq Nat
<1>1. VmallocBit(w, pages) \in Nat
  BY VmallocBitType
<1> DEFINE bit == VmallocBit(w, pages)
<1> HIDE DEF bit
<1>2. \A i \in 0..(pages - 1) : bit + i \in Nat
  BY <1>1 DEF bit
<1>3. Vmalloc(w, pages) = w \cup {bit + i : i \in 0..(pages - 1)}
  BY DEF Vmalloc, bit
<1> QED
  BY <1>2, <1>3

(* Every step preserves TypeInv while there are pages.                      *)
LEMMA TypeStep == ConfigInv /\ SmpInv /\ TypeInv /\ [BootNext]_bootVars /\ PagesLast' => TypeInv'
<1> SUFFICES ASSUME ConfigInv, SmpInv, TypeInv, [BootNext]_bootVars, PagesLast' PROVE TypeInv'
  OBVIOUS
<1> USE DEF Stages, Tasks
<1>0. cfg.gic.gicr[2] \in Nat /\ FdtPages \in Nat /\ 1 \in Nat
  BY GicNumbers, A64BootAssumption
<1>1. CASE UNCHANGED bootVars
  BY <1>1 DEF bootVars, TypeInv
<1>2. CASE BootTick
  BY <1>2 DEF BootTick, cfgVars, mmVars, TypeInv
<1>3. CASE PageStep
  <2> DEFINE t == Head(todo)
             did == CASE t.op = "map" -> MapLevel(mem, t)
                      [] t.op = "unmap" -> UnmapLevel(mem, t)
                      [] t.op = "free" -> FreeLevel(mem, t)
  <2>1. mem' = did.mem /\ UNCHANGED <<mmuBoot, window, listInit, lock, task>> /\ (stage' = stage \/ stage' = "fatal")
    BY <1>3 DEF PageStep, cfgVars, runVars
  <2>2. t.op \in {"map", "unmap", "free"}
    <3>1. PICK T : todo \in Seq(T) /\ \A x \in T : CallOK(x)
      BY DEF AreCalls, SmpInv
    <3>2. todo # <<>>
      BY <1>3 DEF PageStep
    <3>3. t \in T
      BY <3>1, <3>2
    <3> QED
      BY <3>1, <3>3 DEF CallOK
  <2> HIDE DEF t
  <2>3. did \in {MapLevel(mem, t), UnmapLevel(mem, t), FreeLevel(mem, t)}
    BY <2>2
  <2> HIDE DEF did
  <2>4. MemOK(did.mem) /\ did.mem.used \subseteq mem.used \cup {AllocOnePage(mem.used)}
    <3>1. MemOK(mem)
      BY DEF TypeInv
    <3> QED
      BY <2>3, <3>1, LevelMem
  <2>5. MemOK(mem') /\ mem'.used \subseteq Pool
    <3>1. AllocOnePage(mem.used) \in Pool \/ AllocOnePage(mem.used) = Fan + NPages
      BY AllocOneIs
    <3> QED
      BY <2>1, <2>4, <3>1 DEF PagesLast, TypeInv
  <2> QED
    BY <2>1, <2>5 DEF TypeInv
<1>4. CASE InitHyperLowLevel \/ SwitchToEl2
  BY <1>4 DEF InitHyperLowLevel, SwitchToEl2, cfgVars, mmVars, runVars, TypeInv
<1>5. CASE InitPlatform
  <2>1. stage' \in {"cpu_init", "panic"}
    BY <1>5 DEF InitPlatform
  <2> QED
    BY <1>5, <2>1 DEF InitPlatform, mmVars, runVars, TypeInv
<1>6. CASE CpuInit
  BY <1>6 DEF CpuInit, mmVars, runVars, TypeInv
<1>7. CASE InitMm
  <2>1. MemOK(mem') /\ mem'.used \subseteq Pool
    BY <1>7, InitMmMem
  <2>2. window' \subseteq Nat
    BY <1>7, A64BootAssumption DEF InitMm, CreateBitmap
  <2>3. stage' \in Stages /\ UNCHANGED <<mmuBoot, listInit, lock, task>>
    BY <1>7 DEF InitMm, cfgVars, runVars
  <2> QED
    BY <2>1, <2>2, <2>3 DEF TypeInv
<1>8. CASE TestPageAlloc
  <2>1. MemOK(mem') /\ mem'.used \subseteq Pool
    BY <1>8, TestMem
  <2>2. stage' \in Stages /\ UNCHANGED <<mmuBoot, window, listInit, lock, task>>
    BY <1>8 DEF TestPageAlloc, cfgVars, runVars
  <2> QED
    BY <2>1, <2>2 DEF TypeInv
<1>9. CASE EnableStage2
  <2> DEFINE s2 == Run(AllocPagesCnt(mem.used, S2Tables), S2Tables)
  <2>1. /\ mem' = [mem EXCEPT !.used = @ \cup s2] /\ window' = Vmalloc(window, 1)
        /\ mmuBoot' = mmuBoot \cup {"vtcr", "vttbr"} /\ stage' = "percpu" /\ UNCHANGED <<listInit, lock, task>>
    BY <1>9 DEF EnableStage2, runVars
  <2>2. S2Tables \in Nat
    BY A64BootAssumption
  <2>3. s2 \subseteq Pool \/ Fan + NPages \in s2
    BY <2>2, RunIs
  <2> HIDE DEF s2
  <2>4. MemOK(mem') /\ mem'.used = mem.used \cup s2
    BY <2>1 DEF TypeInv, MemOK
  <2>5. window' \subseteq Nat
    BY <1>0, <2>1, VmallocType DEF TypeInv
  <2> QED
    BY <2>1, <2>3, <2>4, <2>5 DEF TypeInv, PagesLast
<1>10. CASE InitPercpuArea
  <2>1. PICK pages : /\ pages \subseteq {Fan + 2 * i : i \in 0..(NPages \div 2 - 1)}
                     /\ \E taken : /\ taken \subseteq pages \cup {Fan + NPages}
                                    /\ mem' = [mem EXCEPT !.used = @ \cup taken]
    BY <1>10 DEF InitPercpuArea
  <2>2. PICK taken : /\ taken \subseteq pages \cup {Fan + NPages}
                     /\ mem' = [mem EXCEPT !.used = @ \cup taken]
    BY <2>1
  <2>3. pages \subseteq Pool
    <3>1. Fan \in Nat /\ NPages \in Nat
      BY HostMapAssumption
    <3>2. \A i \in 0..(NPages \div 2 - 1) : 2 * i <= NPages - 1 /\ 0 <= i /\ i \in Int
      BY <3>1
    <3> QED
      BY <2>1, <3>1, <3>2 DEF Pool
  <2>4. MemOK(mem') /\ mem'.used = mem.used \cup taken
    BY <2>2 DEF TypeInv, MemOK
  <2>5. stage' = "interrupt" /\ UNCHANGED <<mmuBoot, window, listInit, lock, task>>
    BY <1>10 DEF InitPercpuArea, cfgVars, runVars
  <2> QED
    BY <2>2, <2>3, <2>4, <2>5 DEF TypeInv, PagesLast
<1>18. CASE EnableStage2Fatal
  <2> DEFINE root == Run(AllocPagesCnt(mem.used, 8), 8)
  <2>1. /\ mem' = [mem EXCEPT !.used = @ \cup root] /\ stage' = "fatal"
        /\ UNCHANGED <<mmuBoot, window, listInit, lock, task>>
    BY <1>18 DEF EnableStage2Fatal, cfgVars, runVars
  <2>2. 8 \in Nat
    OBVIOUS
  <2>3. root \subseteq Pool \/ Fan + NPages \in root
    BY <2>2, RunIs
  <2> HIDE DEF root
  <2>4. MemOK(mem') /\ mem'.used = mem.used \cup root
    BY <2>1 DEF TypeInv, MemOK
  <2> QED
    BY <2>1, <2>3, <2>4 DEF TypeInv, PagesLast
<1>11. CASE InitInterrupt
  <2>1. /\ window' = Vmalloc(Vmalloc(Vmalloc(window, 1), 1), cfg.gic.gicr[2]) /\ stage' = "gic"
        /\ UNCHANGED <<mmuBoot, mem, listInit, lock, task>>
    BY <1>11 DEF InitInterrupt, runVars
  <2>2. window \subseteq Nat
    BY DEF TypeInv
  <2>3. Vmalloc(window, 1) \subseteq Nat
    BY <1>0, <2>2, VmallocType
  <2>4. Vmalloc(Vmalloc(window, 1), 1) \subseteq Nat
    BY <1>0, <2>3, VmallocType
  <2>5. window' \subseteq Nat
    BY <1>0, <2>1, <2>4, VmallocType
  <2> QED
    BY <2>1, <2>5 DEF TypeInv
<1>12. CASE ParseHostCpus
  <2>1. /\ window' = Vmalloc(window, FdtPages) /\ stage' \in {"unmap_fdt", "boot_cpu"}
        /\ UNCHANGED <<mmuBoot, mem, listInit, lock, task>>
    BY <1>12 DEF ParseHostCpus, cfgVars, runVars
  <2>2. window' \subseteq Nat
    BY <1>0, <2>1, VmallocType DEF TypeInv
  <2> QED
    BY <2>1, <2>2 DEF TypeInv
<1>13. CASE InitGicv3
  BY <1>13 DEF InitGicv3, cfgVars, runVars, TypeInv
<1>14. CASE CpuOn \/ WaitOnline
  <2>1. stage' \in {"unmap_fdt", "boot_cpu", "wait"} /\ UNCHANGED <<mmuBoot, mem, window, listInit, lock, task>>
    BY <1>14, NextCpuMoves DEF CpuOn, WaitOnline, cfgVars, mmVars, runVars
  <2> QED
    BY <2>1 DEF TypeInv
<1>15. CASE UnmapFdt \/ InitSched \/ TimerInit
  BY <1>15 DEF UnmapFdt, InitSched, TimerInit, cfgVars, mmVars, runVars, TypeInv
<1>16. CASE CreateTask \/ Insert
  BY <1>16 DEF CreateTask, Insert, cfgVars, mmVars, TypeInv
<1>17. ASSUME NEW m \in Secondary, SecondaryStep(m) PROVE TypeInv'
  <2>1. CASE EarlyTick(m)
    BY <2>1 DEF EarlyTick, cfgVars, mmVars, TypeInv
  <2>2. CASE SecondaryEntry(m) \/ SecondaryMmu(m) \/ PcpuInit(m) \/ EnableTick(m) \/ MarkOnline(m)
    <3>1. UNCHANGED <<stage, mmuBoot, mem, window, listInit, lock, task>>
      BY <2>2 DEF SecondaryEntry, SecondaryMmu, PcpuInit, EnableTick, MarkOnline, cfgVars, mmVars, runVars
    <3> QED
      BY <3>1 DEF TypeInv
  <2> QED
    BY <1>17, <2>1, <2>2 DEF SecondaryStep
<1> QED
  BY <1>1, <1>2, <1>3, <1>4, <1>5, <1>6, <1>7, <1>8, <1>9, <1>10, <1>11, <1>12, <1>13, <1>14, <1>15, <1>16, <1>17, <1>18
     DEF BootNext, BootStep

(* The boot CPU, the secondaries and the lock are always in one of the      *)
(* states the code has, the list of CPUs bounds the loop over it and the    *)
(* pages taken are the allocator's, for every tree, as long as alloc_pages  *)
(* has not answered with TOTAL_PAGES: that the pages run out is the one way *)
(* to a page that is not the allocator's.                                   *)
THEOREM BootTypes == Spec /\ []PagesLast => []BootTypeOK
<1>1. Init => TypeInv
  <2> SUFFICES ASSUME BootInit PROVE TypeInv
    BY DEF Init
  <2>1. MemOK(mem) /\ mem.used = {}
    BY DEF BootInit, MemOK, NoMemory
  <2>2. /\ stage = "reset" /\ mmuBoot = {} /\ window = {} /\ listInit = FALSE /\ lock = {} /\ task = "none"
    BY DEF BootInit
  <2> QED
    BY <2>1, <2>2 DEF TypeInv, Stages, Tasks
<1>2. BootInv /\ TypeInv /\ [Next]_allBootVars /\ PagesLast' => TypeInv'
  <2> SUFFICES ASSUME BootInv, TypeInv, [Next]_allBootVars, PagesLast' PROVE TypeInv'
    OBVIOUS
  <2>1. [BootNext]_bootVars
    BY DEF Next, A64Next, RiscvNext, allBootVars
  <2> QED
    BY <2>1, TypeStep DEF BootInv
<1>3. BootInv /\ TypeInv => BootTypeOK
  <2> SUFFICES ASSUME BootInv, TypeInv PROVE BootTypeOK
    OBVIOUS
  <2>1. ConfigInv /\ SmpInv
    BY DEF BootInv
  <2>2. Range(cpus) \subseteq Nat
    BY <2>1 DEF SmpInv, Range
  <2> QED
    BY <2>1, <2>2 DEF BootTypeOK, TypeInv, SmpInv, ConfigInv, MemOK, SecStates, Tasks
<1> QED
  BY <1>1, <1>2, <1>3, BootInvAlways, PTL DEF Spec

-----------------------------------------------------------------------------
(* RISC-V: the numbers of the harts                                         *)

Running == {h \in Harts : hsm[h] # "stopped"}

EarlyStages == {"init_mm", "init_kmalloc", "guest_dtb", "devices", "smp"}
LoopStages == {"start_hart", "count_hart"}
LateStages == {"init_timer", "create", "insert", "scheduler", "guest", "abandoned", "deadlock"}

(* Types, and where a tick may come.                                        *)
HartTypes ==
    /\ rstage \in {"reset"} \cup EarlyStages \cup LoopStages \cup LateStages
    /\ hsm \in [Harts -> {"stopped", "entry", "start", "online"}]
    /\ scratch \in [Harts -> Nat]
    /\ cpuCount \in Nat /\ hart \in Nat /\ nextVcpu \in Nat
    /\ DOMAIN toHart = 0..(RvCpuNum - 1)
    /\ timerOn \in BOOLEAN
    /\ timerOn => rstage \in {"create", "insert", "scheduler"}

(* g_cpu_to_hart and the scratch areas are each other's inverse, except     *)
(* that the hart just started is not entered yet; the harts that run are    *)
(* the boot hart and some that the loop has passed.                         *)
Numbered ==
    /\ cpuCount \in 1..RvCpuNum
    /\ \A h \in Running : \/ scratch[h] < cpuCount /\ toHart[scratch[h]] = h
                          \/ rstage = "count_hart" /\ h = hart /\ scratch[h] = cpuCount
    /\ \A c \in 0..(cpuCount - 1) : toHart[c] \in Running /\ scratch[toHart[c]] = c
    /\ \A h \in Running : h = bootHart \/ h < hart \/ (rstage = "count_hart" /\ h = hart)
    /\ rstage = "count_hart" => /\ cpuCount < RvCpuNum
                                /\ hart \in Running /\ scratch[hart] = cpuCount

HartInv ==
    /\ HartTypes
    /\ rstage = "reset" => Running = {}
    /\ rstage \in EarlyStages => bootHart \in Harts /\ Running = {bootHart}
    /\ rstage \in LoopStages \cup LateStages => bootHart \in Harts /\ Numbered
    /\ rstage \notin LateStages => created = {}
    /\ \A v \in created : v.pcpu \in 0..(cpuCount - 1)

(* RISC-V's boot begins in HartInv.                                         *)
LEMMA HartInitially == RvInit => HartInv
<1> SUFFICES ASSUME RvInit PROVE HartInv
  OBVIOUS
<1>1. /\ rstage = "reset" /\ hsm = [h \in Harts |-> "stopped"] /\ scratch = [h \in Harts |-> 0]
      /\ cpuCount = 0 /\ hart = 0 /\ nextVcpu = 0 /\ created = {} /\ timerOn = FALSE
      /\ toHart = [c \in 0..(RvCpuNum - 1) |-> 0]
  BY DEF RvInit
<1>2. Running = {}
  BY <1>1 DEF Running
<1>3. HartTypes
  BY <1>1 DEF HartTypes
<1> QED
  BY <1>1, <1>2, <1>3 DEF HartInv, EarlyStages, LoopStages, LateStages

(* What none of the numbering looks at may change.                          *)
LEMMA HartQuiet ==
    ASSUME HartInv, UNCHANGED <<bootHart, hartVars, nextVcpu, created, timerOn>>,
           rstage' = rstage \/ (rstage \in EarlyStages /\ rstage' \in EarlyStages)
    PROVE  HartInv'
<1>1. UNCHANGED <<bootHart, hart, cpuCount, toHart, hsm, scratch, nextVcpu, created, timerOn>> /\ Running' = Running
  BY DEF hartVars, Running
<1>2. CASE rstage' = rstage
  BY <1>1, <1>2 DEF HartInv, HartTypes, Numbered, EarlyStages, LoopStages, LateStages
<1>3. CASE rstage \in EarlyStages /\ rstage' \in EarlyStages
  BY <1>1, <1>3 DEF HartInv, HartTypes, Numbered, EarlyStages, LoopStages, LateStages
<1> QED
  BY <1>2, <1>3

(* Every step of RISC-V's boot and harts preserves HartInv.                 *)
LEMMA HartStep == HartInv /\ [RvNext]_rvVars => HartInv'
<1> SUFFICES ASSUME HartInv, [RvNext]_rvVars PROVE HartInv'
  OBVIOUS
<1> USE RvConfigAssumption, RvBootAssumption
<1>1. CASE UNCHANGED rvVars
  BY <1>1, HartQuiet DEF rvVars, hartVars
<1>2. CASE RvPageStep \/ RvInitMm \/ InitGuestMemory \/ GuestDtbInit \/ InitDevices
  BY <1>2, HartQuiet DEF RvPageStep, RvInitMm, InitGuestMemory, GuestDtbInit, InitDevices, taskVars, inVars, EarlyStages
<1>3. CASE Reset
  <2>1. PICK h \in Harts : bootHart' = h /\ hsm' = [hsm EXCEPT ![h] = "online"]
    BY <1>3 DEF Reset
  <2>2. Running' = {h}
    BY <1>3, <2>1 DEF Reset, HartInv, HartTypes, Running
  <2> QED
    BY <1>3, <2>1, <2>2 DEF Reset, HartInv, HartTypes, Numbered, EarlyStages, LoopStages, LateStages, taskVars
<1>4. CASE SmpBegin
  <2>1. Running' = Running /\ Running = {bootHart}
    BY <1>4 DEF SmpBegin, HartInv, HartTypes, EarlyStages, Running
  <2>2. /\ bootHart \in Harts /\ bootHart' = bootHart /\ cpuCount' = 1 /\ hart' = 0 /\ rstage' = "start_hart"
        /\ toHart' = [toHart EXCEPT ![0] = bootHart] /\ scratch' = [scratch EXCEPT ![bootHart] = 0]
        /\ UNCHANGED <<hsm, timerOn, nextVcpu, created>> /\ created = {}
    BY <1>4 DEF SmpBegin, HartInv, EarlyStages, LateStages, inVars, taskVars
  <2>3. toHart'[0] = bootHart /\ scratch'[bootHart] = 0
    BY <2>2 DEF HartInv, HartTypes
  <2>4. Numbered'
    BY <2>1, <2>2, <2>3 DEF Numbered
  <2> QED
    BY <2>1, <2>2, <2>4, <1>4 DEF HartInv, HartTypes, EarlyStages, LoopStages, LateStages, SmpBegin
<1>5. CASE StartHart
  <2>0. /\ rstage = "start_hart" /\ bootHart \in Harts /\ Numbered /\ created = {} /\ ~timerOn
        /\ UNCHANGED <<bootHart, cpuCount, toHart, timerOn, nextVcpu, created>>
    BY <1>5 DEF StartHart, HartInv, HartTypes, EarlyStages, LoopStages, LateStages, inVars, taskVars
  <2>1. CASE rstage' = "init_timer" /\ UNCHANGED <<hart, hsm, scratch>>
    <3>1. Running' = Running
      BY <2>1 DEF Running
    <3> QED
      BY <2>0, <2>1, <3>1 DEF HartInv, HartTypes, Numbered, EarlyStages, LoopStages, LateStages
  <2>2. CASE hart' = hart + 1 /\ UNCHANGED <<rstage, hsm, scratch>>
    <3>1. Running' = Running
      BY <2>2 DEF Running
    <3>2. \A h \in Running : h < hart => h < hart'
      BY <2>2 DEF HartInv, HartTypes, Running
    <3> QED
      BY <2>0, <2>2, <3>1, <3>2 DEF HartInv, HartTypes, Numbered, EarlyStages, LoopStages, LateStages
  <2>3. CASE /\ hart < RvCpuNum /\ hart # bootHart /\ cpuCount < RvCpuNum /\ hart \in Harts
             /\ scratch' = [scratch EXCEPT ![hart] = cpuCount]
             /\ hsm' = [hsm EXCEPT ![hart] = "entry"]
             /\ rstage' = "count_hart" /\ UNCHANGED hart
    <3>1. hart \notin Running
      BY <2>0, <2>3 DEF Numbered, HartInv, HartTypes
    <3>2. Running' = Running \cup {hart}
      BY <2>3 DEF Running, HartInv, HartTypes
    <3>3. scratch'[hart] = cpuCount /\ \A h \in Running : scratch'[h] = scratch[h]
      BY <2>3, <3>1 DEF HartInv, HartTypes, Running
    <3>4. Numbered'
      BY <2>0, <2>3, <3>1, <3>2, <3>3 DEF Numbered, HartInv, HartTypes
    <3> QED
      BY <2>0, <2>3, <3>4 DEF HartInv, HartTypes, EarlyStages, LoopStages, LateStages
  <2> QED
    BY <1>5, <2>1, <2>2, <2>3 DEF StartHart
<1>6. CASE CountHart
  <2>0. /\ rstage = "count_hart" /\ bootHart \in Harts /\ Numbered /\ created = {} /\ ~timerOn
        /\ UNCHANGED <<bootHart, timerOn, nextVcpu, created, hsm, scratch>>
        /\ toHart' = [toHart EXCEPT ![cpuCount] = hart] /\ cpuCount' = cpuCount + 1 /\ hart' = hart + 1
        /\ rstage' = "start_hart"
    BY <1>6 DEF CountHart, HartInv, HartTypes, EarlyStages, LoopStages, LateStages, inVars, taskVars
  <2>1. Running' = Running /\ hart \in Running /\ scratch[hart] = cpuCount /\ cpuCount \in 1..(RvCpuNum - 1)
    BY <2>0 DEF Running, Numbered
  <2>2. toHart'[cpuCount] = hart /\ \A c \in 0..(cpuCount - 1) : toHart'[c] = toHart[c]
    BY <2>0, <2>1 DEF HartInv, HartTypes
  <2>3. \A h \in Running : scratch[h] \in Nat /\ h \in Nat
    BY DEF HartInv, HartTypes, Running
  <2>4. Numbered'
    BY <2>0, <2>1, <2>2, <2>3 DEF Numbered, HartInv, HartTypes
  <2> QED
    BY <2>0, <2>4 DEF HartInv, HartTypes, EarlyStages, LoopStages, LateStages
<1>7. CASE InitTimer \/ CreateVcpu
  <2>1. /\ UNCHANGED <<bootHart, hart, cpuCount, toHart, hsm, scratch, nextVcpu, created>>
        /\ rstage \in LateStages /\ rstage' \in {"create", "insert", "scheduler"}
        /\ timerOn' \in BOOLEAN
    BY <1>7 DEF InitTimer, CreateVcpu, inVars, hartVars, LateStages, HartInv, HartTypes
  <2>2. Running' = Running
    BY <2>1 DEF Running
  <2> QED
    BY <2>1, <2>2 DEF HartInv, HartTypes, Numbered, EarlyStages, LoopStages, LateStages
<1>8. CASE InsertVcpu
  <2>1. /\ UNCHANGED <<bootHart, hart, cpuCount, toHart, hsm, scratch, timerOn>>
        /\ rstage = "insert" /\ rstage' = "create" /\ nextVcpu' = nextVcpu + 1
    BY <1>8 DEF InsertVcpu, inVars, hartVars
  <2>2. Running' = Running
    BY <2>1 DEF Running
  <2>3. cpuCount \in Nat \ {0} /\ nextVcpu \in Nat
    BY <2>1 DEF HartInv, HartTypes, Numbered, LateStages
  <2>4. nextVcpu % cpuCount \in 0..(cpuCount - 1)
    BY <2>3
  <2>5. \A v \in created' : v.pcpu \in 0..(cpuCount - 1)
    BY <1>8, <2>4 DEF InsertVcpu, HartInv
  <2> QED
    BY <2>1, <2>2, <2>5 DEF HartInv, HartTypes, Numbered, EarlyStages, LoopStages, LateStages
<1>9. CASE RvTick
  <2>1. /\ UNCHANGED <<bootHart, hart, cpuCount, toHart, hsm, scratch, nextVcpu, created>>
        /\ rstage \in {"create", "insert", "scheduler"} /\ rstage' \in {"guest", "abandoned", "deadlock"}
        /\ timerOn' = FALSE
    BY <1>9 DEF RvTick, inVars, hartVars, HartInv, HartTypes
  <2>2. Running' = Running
    BY <2>1 DEF Running
  <2> QED
    BY <2>1, <2>2 DEF HartInv, HartTypes, Numbered, EarlyStages, LoopStages, LateStages
<1>10. ASSUME NEW h \in Harts, StartSecondary(h) \/ SecondaryStart(h) PROVE HartInv'
  <2>1. /\ UNCHANGED <<rstage, bootHart, hart, cpuCount, toHart, scratch, timerOn, nextVcpu, created>>
        /\ hsm[h] # "stopped" /\ (hsm' = [hsm EXCEPT ![h] = "start"] \/ hsm' = [hsm EXCEPT ![h] = "online"])
    BY <1>10 DEF StartSecondary, SecondaryStart, inVars, taskVars
  <2>2. Running' = Running
    BY <2>1 DEF Running, HartInv, HartTypes
  <2>3. hsm' \in [Harts -> {"stopped", "entry", "start", "online"}]
    BY <2>1 DEF HartInv, HartTypes
  <2> QED
    BY <2>1, <2>2, <2>3 DEF HartInv, HartTypes, Numbered, EarlyStages, LoopStages, LateStages
<1> QED
  BY <1>1, <1>2, <1>3, <1>4, <1>5, <1>6, <1>7, <1>8, <1>9, <1>10 DEF RvNext, RvStep

(* HartInv gives every hart a number of its own.                            *)
LEMMA HartsNumbered == HartInv => RvHarts
<1> SUFFICES ASSUME HartInv PROVE RvHarts
  OBVIOUS
<1> USE RvConfigAssumption, RvBootAssumption
<1>1. \A h, g \in Running : scratch[h] = scratch[g] => h = g
  BY DEF HartInv, HartTypes, Numbered, EarlyStages, LoopStages, LateStages, Running
<1>2. ASSUME rstage \in LateStages
      PROVE  /\ cpuCount = Cardinality(Running)
             /\ \A h \in Running : scratch[h] < cpuCount /\ toHart[scratch[h]] = h
             /\ \A v \in created : toHart[v.pcpu] \in Running
  <2>1. Numbered /\ rstage # "count_hart" /\ cpuCount \in Nat
    BY <1>2 DEF HartInv, HartTypes, LateStages
  <2>2. \A h \in Running : scratch[h] \in Nat /\ scratch[h] < cpuCount /\ toHart[scratch[h]] = h
    BY <2>1 DEF Numbered, HartInv, HartTypes, Running
  <2>3. \A v \in created : toHart[v.pcpu] \in Running
    BY <2>1 DEF Numbered, HartInv
  <2>4. cpuCount = Cardinality(Running)
    <3> DEFINE f == [c \in 0..(cpuCount - 1) |-> toHart[c]]
    <3>1. f \in Bijection(0..(cpuCount - 1), Running)
      <4>1. f \in [0..(cpuCount - 1) -> Running]
        BY <2>1 DEF Numbered
      <4>2. \A a, b \in 0..(cpuCount - 1) : f[a] = f[b] => a = b
        BY <2>1 DEF Numbered
      <4>3. \A h \in Running : \E c \in 0..(cpuCount - 1) : f[c] = h
        BY <2>1, <2>2
      <4> QED
        BY <4>1, <4>2, <4>3 DEF Bijection, Injection, Surjection, IsInjective
    <3>2. IsFiniteSet(0..(cpuCount - 1)) /\ Cardinality(0..(cpuCount - 1)) = cpuCount
      BY <2>1, FS_Interval
    <3>3. ExistsBijection(0..(cpuCount - 1), Running)
      BY <3>1 DEF ExistsBijection
    <3> QED
      BY <3>2, <3>3, FS_Bijection
  <2> QED
    BY <2>2, <2>3, <2>4
<1> QED
  BY <1>1, <1>2 DEF RvHarts, Running, LateStages

(* Harts that run never share a number, and when the loop is over the       *)
(* tables of smp_boot_secondaries are right about each of them, for any     *)
(* number of harts, whichever boots and whichever the firmware refuses.     *)
THEOREM HartsHaveNumbers == Spec => []RvHarts
<1>1. Init => HartInv
  BY HartInitially DEF Init
<1>2. HartInv /\ [Next]_allBootVars => HartInv'
  <2> SUFFICES ASSUME HartInv, [Next]_allBootVars PROVE HartInv'
    OBVIOUS
  <2>1. [RvNext]_rvVars
    BY DEF Next, A64Next, RiscvNext, allBootVars
  <2> QED
    BY <2>1, HartStep
<1> QED
  BY <1>1, <1>2, HartsNumbered, PTL DEF Spec

-----------------------------------------------------------------------------
(* RISC-V: page tables.  A page is the number of its indices in base Fan.   *)

(* A quotient is known by its bounds.                                       *)
LEMMA DivIs ==
    ASSUME NEW a \in Nat, NEW D \in Nat \ {0}, NEW x \in Nat, x * D <= a, a < x * D + D
    PROVE  a \div D = x
<1> DEFINE y == a \div D
<1>1. y \in Nat /\ y * D <= a /\ a < y * D + D
  OBVIOUS
<1> HIDE DEF y
<1>2. ASSUME x < y PROVE FALSE
  <2>1. (x + 1) * D <= y * D
    BY <1>1, <1>2
  <2>2. (x + 1) * D = x * D + D
    OBVIOUS
  <2>3. x * D \in Nat /\ y * D \in Nat
    BY <1>1
  <2> QED
    BY <1>1, <2>1, <2>2, <2>3
<1>3. ASSUME y < x PROVE FALSE
  <2>1. (y + 1) * D <= x * D
    BY <1>1, <1>3
  <2>2. (y + 1) * D = y * D + D
    BY <1>1
  <2>3. x * D \in Nat /\ y * D \in Nat
    BY <1>1
  <2> QED
    BY <1>1, <2>1, <2>2, <2>3
<1>4. y = x
  BY <1>1, <1>2, <1>3
<1> QED
  BY <1>4 DEF y

(* A number in base F, shifted by one digit.                                *)
LEMMA DivDiv ==
    ASSUME NEW a \in Nat, NEW S \in Nat \ {0}, NEW F \in Nat \ {0}
    PROVE  a \div S = (a \div (F * S)) * F + ((a \div S) % F)
<1> DEFINE q == a \div S
           r == q \div F
<1>1. q \in Nat /\ q * S <= a /\ a < q * S + S /\ q * S \in Nat
  OBVIOUS
<1>2. r \in Nat /\ r * F <= q /\ q + 1 <= r * F + F /\ q = r * F + (q % F) /\ r * F \in Nat
  BY <1>1
<1> HIDE DEF q, r
<1>3. F * S \in Nat \ {0} /\ r * (F * S) = (r * F) * S /\ (r * F + F) * S = r * (F * S) + F * S
  BY <1>2
<1>4. (r * F) * S <= q * S
  BY <1>1, <1>2
<1>5. (q + 1) * S <= (r * F + F) * S /\ (q + 1) * S = q * S + S
  BY <1>1, <1>2
<1>6. r * (F * S) \in Nat /\ (r * F) * S \in Nat /\ (r * F + F) * S \in Nat
  BY <1>2, <1>3
<1> DEFINE D == F * S
<1>7. r * D <= a /\ a < r * D + D /\ D \in Nat \ {0}
  <2>1. r * D <= a
    BY <1>1, <1>3, <1>4, <1>6
  <2>2. a < r * D + D
    BY <1>1, <1>3, <1>5, <1>6
  <2> QED
    BY <1>3, <2>1, <2>2
<1> HIDE DEF D
<1>8. a \div D = r
  BY <1>2, <1>7, DivIs
<1> QED
  BY <1>2, <1>8 DEF D, q

(* The number of the entry of a level that a page is under, and of its      *)
(* table: the quotients by what an entry and a table span.                  *)
Nth(va, level) == va \div LevelSpan(level)
Pre(va, level) == IF level = 0 THEN 0 ELSE Nth(va, level - 1)

(* What an entry spans.                                                     *)
LEMMA LevelSpanIs ==
    /\ Fan \in Nat \ {0}
    /\ LevelSpan(0) \in Nat \ {0} /\ LevelSpan(1) \in Nat \ {0} /\ LevelSpan(2) = Fan /\ LevelSpan(3) = 1
    /\ LevelSpan(0) = Fan * LevelSpan(1) /\ LevelSpan(1) = Fan * LevelSpan(2) /\ LevelSpan(2) = Fan * LevelSpan(3)
    /\ VaPages \in SUBSET Nat
<1>1. Fan \in Nat \ {0}
  BY HostMapAssumption
<1>2. LevelSpan(0) = Fan * Fan * Fan /\ LevelSpan(1) = Fan * Fan /\ LevelSpan(2) = Fan /\ LevelSpan(3) = 1
  BY DEF LevelSpan
<1>3. Fan * Fan \in Nat \ {0}
  BY <1>1
<1> DEFINE sq == Fan * Fan
<1>4. sq \in Nat \ {0}
  BY <1>3
<1> HIDE DEF sq
<1>5. sq * Fan \in Nat \ {0} /\ sq * Fan = Fan * sq
  BY <1>1, <1>4
<1>6. VaPages \in SUBSET Nat
  BY DEF VaPages
<1> QED
  BY <1>1, <1>2, <1>4, <1>5, <1>6 DEF sq

(* A page's entry at a level is the one of its index in its table.          *)
LEMMA Digits ==
    ASSUME NEW va \in VaPages, NEW level \in 0..3
    PROVE  /\ Index(va, level) \in 0..(Fan - 1) /\ Pre(va, level) \in Nat /\ Nth(va, level) \in Nat
           /\ Nth(va, level) = Pre(va, level) * Fan + Index(va, level)
<1> DEFINE S == LevelSpan(level)
<1>1. S \in Nat \ {0} /\ Fan \in Nat \ {0} /\ va \in Nat
  <2>1. level \in {0, 1, 2, 3}
    OBVIOUS
  <2> QED
    BY <2>1, LevelSpanIs
<1>2. Nth(va, level) = va \div S /\ Index(va, level) = (va \div S) % Fan
  BY DEF Nth, Index
<1> HIDE DEF S
<1>3. va \div S \in Nat /\ (va \div S) % Fan \in 0..(Fan - 1)
  BY <1>1
<1>4. va \div S = (va \div (Fan * S)) * Fan + ((va \div S) % Fan)
  BY <1>1, DivDiv
<1>5. va \div (Fan * S) = Pre(va, level)
  <2>1. CASE level = 0
    <3>1. Fan * S \in Nat \ {0} /\ va < Fan * S
      <4>1. Fan * S \in Nat \ {0}
        BY <1>1
      <4> DEFINE D == Fan * S
      <4>2. VaPages = 0..(D - 1)
        BY <2>1 DEF VaPages, S
      <4> HIDE DEF D
      <4>3. D \in Nat \ {0}
        BY <4>1 DEF D
      <4>4. va < D
        BY <4>2, <4>3
      <4> QED
        BY <4>1, <4>4 DEF D
    <3> DEFINE D == Fan * S
    <3>2. D \in Nat \ {0} /\ va < D
      BY <3>1
    <3> HIDE DEF D
    <3>3. va \div D = 0
      BY <1>1, <3>2, DivIs
    <3> QED
      BY <2>1, <3>3 DEF D, Pre
  <2>2. CASE level # 0
    <3>1. level - 1 \in {0, 1, 2} /\ level = (level - 1) + 1
      BY <2>2
    <3>2. LevelSpan(level - 1) = Fan * LevelSpan(level)
      BY <3>1, LevelSpanIs
    <3> QED
      BY <2>2, <3>2 DEF Pre, Nth, S
  <2> QED
    BY <2>1, <2>2
<1>6. Pre(va, level) \in Nat
  <2>1. Fan * S \in Nat \ {0}
    BY <1>1
  <2> DEFINE D == Fan * S
  <2>2. D \in Nat \ {0}
    BY <2>1
  <2> HIDE DEF D
  <2>3. va \div D \in Nat
    BY <1>1, <2>2
  <2> QED
    BY <1>5, <2>3 DEF D
<1> QED
  BY <1>2, <1>3, <1>4, <1>5, <1>6

(* A number has one quotient and one rest.                                  *)
LEMMA OneDigit ==
    ASSUME NEW a \in Nat, NEW b \in Nat, NEW x \in 0..(Fan - 1), NEW y \in 0..(Fan - 1),
           a * Fan + x = b * Fan + y
    PROVE  a = b /\ x = y
<1>1. Fan \in Nat \ {0}
  BY LevelSpanIs
<1>2. a * Fan \in Nat /\ b * Fan \in Nat /\ x \in Nat /\ y \in Nat /\ x < Fan /\ y < Fan
  BY <1>1
<1> DEFINE n == a * Fan + x
<1>3. n \in Nat /\ a * Fan <= n /\ n < a * Fan + Fan /\ b * Fan <= n /\ n < b * Fan + Fan
  BY <1>1, <1>2
<1> HIDE DEF n
<1>4. n \div Fan = a /\ n \div Fan = b
  BY <1>1, <1>3, DivIs
<1>5. a = b
  BY <1>4
<1> QED
  BY <1>2, <1>5

(* The last level tells pages apart, the one above tells blocks apart.      *)
LEMMA LastDigits ==
    ASSUME NEW va \in VaPages
    PROVE  Nth(va, 3) = va /\ Nth(va, 2) = va \div Fan /\ va % LevelSpan(3) = 0
BY LevelSpanIs DEF Nth

-----------------------------------------------------------------------------
(* RISC-V: what the tables hold between two levels of a call                *)

Slots == 0..(Fan - 1)
Frames == Fan..BootThird(ImageSize)
Roots == {HostRoot, Stage2Root}
Leads(e) == e.valid /\ e.table
Leaf(e) == e.valid /\ ~e.table
Entries == [valid : BOOLEAN, table : BOOLEAN, base : Nat]
PgMem == [tbl : [Frames -> [Slots -> Entries]], used : SUBSET Nat, fatal : BOOLEAN]

(* What is to be mapped: no page and no block twice, but to the same frame, *)
(* and no page in a block.                                                  *)
Calls == [end : {2, 3}, va : VaPages, pa : Nat, path : Seq(Nat)]
Plan(laid) ==
    /\ laid \subseteq Calls /\ \A c \in laid : c.path[1] \in Roots
    /\ \A c, d \in laid : c.path[1] = d.path[1] =>
          /\ c.end = d.end /\ Nth(c.va, c.end) = Nth(d.va, c.end) => c.pa = d.pa
          /\ c.end = 3 /\ d.end = 2 => Nth(c.va, 2) # Nth(d.va, 2)

(* own: under which root a table is, at which level, and which it is there. *)
Keyed(T, own) ==
    /\ Roots \subseteq T /\ T \subseteq Frames
    /\ \A t \in T : own[t] \in Roots \X (0..3) \X Nat
    /\ \A s, t \in T : own[s] = own[t] => s = t
    /\ \A r \in Roots : own[r] = <<r, 0, 0>>
    /\ \A t \in T : own[t][2] = 0 => t \in Roots

(* An entry leads to the table of its place, and every table has one.       *)
Linked(m, T, own) ==
    /\ \A t \in T, x \in Slots : Leads(m.tbl[t][x]) =>
          /\ m.tbl[t][x].base \in T
          /\ own[m.tbl[t][x].base] = <<own[t][1], own[t][2] + 1, own[t][3] * Fan + x>>
    /\ \A t \in T : own[t][2] # 0 => \E s \in T, x \in Slots : Leads(m.tbl[s][x]) /\ m.tbl[s][x].base = t

(* Pages and blocks, and tables of the last level, are where they were      *)
(* asked for.                                                               *)
LaidAt(laid, r, l, n, b) == \E c \in laid : c.path[1] = r /\ c.end = l /\ Nth(c.va, l) = n /\ c.pa = b
Asked(m, T, own, laid) ==
    /\ \A t \in T, x \in Slots : Leaf(m.tbl[t][x]) =>
          LaidAt(laid, own[t][1], own[t][2], own[t][3] * Fan + x, m.tbl[t][x].base)
    /\ \A t \in T : own[t][2] = 3 => \E c \in laid : c.path[1] = own[t][1] /\ c.end = 3 /\ Nth(c.va, 2) = own[t][3]

Grove(m, T, own, laid) == m \in PgMem /\ Keyed(T, own) /\ Linked(m, T, own) /\ Asked(m, T, own, laid)

Written(m, T, own, c) ==
    \E t \in T : own[t] = <<c.path[1], c.end, Pre(c.va, c.end)>> /\ m.tbl[t][Index(c.va, c.end)] = WritePte(c.pa)

(* Where a call under way is.                                               *)
Orig(t) == PgCall(t.path[1], t.end, t.va, t.pa)
OnWay(T, own, t) ==
    /\ t \in Calls /\ t.path # <<>> /\ t.path[Len(t.path)] \in T /\ Level(t) \in 0..t.end
    /\ own[t.path[Len(t.path)]] = <<t.path[1], Level(t), Pre(t.va, Level(t))>>

(* A table is linked from where its number says.                            *)
LEMMA ParentIs ==
    ASSUME NEW m, NEW T, NEW own, Keyed(T, own), Linked(m, T, own),
           NEW s \in T, NEW r, NEW l \in 0..2, NEW va \in VaPages, own[s] = <<r, l + 1, Nth(va, l)>>
    PROVE  \E p \in T : /\ own[p] = <<r, l, Pre(va, l)>>
                        /\ Leads(m.tbl[p][Index(va, l)]) /\ m.tbl[p][Index(va, l)].base = s
<1>1. own[s][2] # 0
  OBVIOUS
<1>2. PICK p \in T, x \in Slots : Leads(m.tbl[p][x]) /\ m.tbl[p][x].base = s
  BY <1>1 DEF Linked
<1>3. own[s] = <<own[p][1], own[p][2] + 1, own[p][3] * Fan + x>>
  BY <1>2 DEF Linked
<1>4. own[p] \in Roots \X (0..3) \X Nat
  BY DEF Keyed
<1>5. PICK a \in Roots, b \in 0..3, n \in Nat : own[p] = <<a, b, n>>
  BY <1>4
<1>6. a = r /\ b + 1 = l + 1 /\ n * Fan + x = Nth(va, l)
  BY <1>3, <1>5
<1>7. /\ Index(va, l) \in 0..(Fan - 1) /\ Pre(va, l) \in Nat
      /\ Nth(va, l) = Pre(va, l) * Fan + Index(va, l)
  BY Digits
<1>8. n = Pre(va, l) /\ x = Index(va, l)
  BY <1>6, <1>7, OneDigit DEF Slots
<1>9. b = l
  BY <1>6
<1> QED
  BY <1>2, <1>5, <1>6, <1>8, <1>9

-----------------------------------------------------------------------------
(* RISC-V: a call, a level at a time                                        *)

(* alloc_one_page answers a free page of the pool, or the one behind it.    *)
LEMMA FreshPage ==
    ASSUME NEW used, AllocOnePage(used) # Fan + NPages
    PROVE  AllocOnePage(used) \in Pool \ used
<1> DEFINE fit == {p \in Pool : /\ (p - Fan) % 2 = 0 /\ p..(p + 1 - 1) \subseteq Pool \ used}
<1>1. AllocOnePage(used) = IF fit = {} THEN Fan + NPages ELSE Min(fit)
  BY DEF AllocPagesCnt, AllocOnePage
<1>2. Fan \in Nat /\ NPages \in Nat
  BY HostMapAssumption
<1>3. fit \in SUBSET Nat /\ fit \subseteq Pool \ used
  <2>1. \A p \in Pool : p \in Nat /\ p \in p..(p + 1 - 1)
    BY <1>2 DEF Pool
  <2> QED
    BY <2>1
<1> HIDE DEF fit
<1>4. fit # {} => Min(fit) \in fit
  BY <1>3, MinIs
<1> QED
  BY <1>1, <1>3, <1>4

(* make_pg_entry and write_pte                                              *)
LEMMA PteIs ==
    ASSUME NEW b \in Nat
    PROVE  /\ WritePte(b) \in Entries /\ Leaf(WritePte(b)) /\ ~Leads(WritePte(b)) /\ WritePte(b).base = b
           /\ MakePgEntry(b) \in Entries /\ Leads(MakePgEntry(b)) /\ ~Leaf(MakePgEntry(b)) /\ MakePgEntry(b).base = b
           /\ \A e \in Entries : Leaf(e) /\ e.base = b => e = WritePte(b)
           /\ Zero \in Entries /\ ~Leads(Zero) /\ ~Leaf(Zero)
<1>1. WritePte(b) = [valid |-> TRUE, table |-> FALSE, base |-> b]
  <2>1. MakePgEntry(b) \in Entries /\ MakePgEntry(b).valid /\ MakePgEntry(b).base = b
    BY DEF MakePgEntry, Entries
  <2>2. PICK e \in Entries : e = MakePgEntry(b) /\ e.valid /\ e.base = b
    BY <2>1
  <2>3. PICK w : w = [e EXCEPT !.table = FALSE]
    OBVIOUS
  <2>4. w \in Entries /\ w.valid /\ ~w.table /\ w.base = b
    BY <2>2, <2>3 DEF Entries
  <2>5. w = [valid |-> TRUE, table |-> FALSE, base |-> b]
    BY <2>4 DEF Entries
  <2> QED
    BY <2>2, <2>3, <2>5 DEF WritePte
<1>2. \A e \in Entries : Leaf(e) /\ e.base = b => e = [valid |-> TRUE, table |-> FALSE, base |-> b]
  BY DEF Entries, Leaf
<1>3. [valid |-> TRUE, table |-> FALSE, base |-> b] \in Entries
  BY DEF Entries
<1> QED
  BY <1>1, <1>2, <1>3 DEF MakePgEntry, Entries, Leads, Leaf, Zero

(* Where the roots and the pool are.                                        *)
LEMMA FramesAre ==
    /\ Roots \subseteq Frames /\ Pool \subseteq Frames /\ Frames \in SUBSET Nat /\ Roots \cap Pool = {}
    /\ Fan + NPages \notin Roots /\ HostRoot # Stage2Root
<1>1. Fan \in Nat /\ NPages \in Nat /\ ImageSize \in Nat
  BY HostMapAssumption
<1> QED
  BY <1>1 DEF Roots, Frames, Pool, HostRoot, Stage2Root, Static, BootThird

(* The entry that a call looks at.                                          *)
Looks(T, own, t, a, l, x, r) ==
    /\ a \in T /\ a \in Frames /\ l \in 0..3 /\ x \in Slots /\ r \in Roots
    /\ a = Last(t.path) /\ l = Level(t) /\ x = Index(t.va, l) /\ r = t.path[1]
    /\ own[a] = <<r, l, Pre(t.va, l)>> /\ Nth(t.va, l) = Pre(t.va, l) * Fan + x
    /\ Pre(t.va, l) \in Nat /\ Nth(t.va, l) \in Nat /\ l <= t.end

(* A call on its way looks at an entry of a table of its own path.          *)
LEMMA OnWayIs ==
    ASSUME NEW T, NEW own, Keyed(T, own), NEW t, OnWay(T, own, t)
    PROVE  \E a, l, x, r : Looks(T, own, t, a, l, x, r)
<1>1. PICK a \in T : a = Last(t.path) /\ a = t.path[Len(t.path)]
  BY DEF OnWay, Last
<1>2. t \in Calls /\ t.va \in VaPages /\ t.end \in {2, 3}
  BY DEF OnWay, Calls
<1>3. PICK l \in 0..3 : l = Level(t) /\ l <= t.end
  BY <1>2 DEF OnWay
<1>4. PICK x \in Slots : x = Index(t.va, l)
  BY <1>2, Digits DEF Slots
<1>5. own[a] = <<t.path[1], l, Pre(t.va, l)>> /\ own[a] \in Roots \X (0..3) \X Nat /\ a \in Frames
  BY <1>1, <1>3 DEF OnWay, Keyed
<1>6. t.path[1] \in Roots
  BY <1>5
<1>7. Nth(t.va, l) = Pre(t.va, l) * Fan + x /\ Pre(t.va, l) \in Nat /\ Nth(t.va, l) \in Nat
  BY <1>2, <1>4, Digits
<1>8. Looks(T, own, t, a, l, x, t.path[1])
  BY <1>1, <1>3, <1>4, <1>5, <1>6, <1>7 DEF Looks
<1> QED
  BY <1>8

(* A call goes one level down.                                              *)
LEMMA DownIs ==
    ASSUME NEW T, NEW own, NEW t, OnWay(T, own, t), NEW b \in T, b \in Nat, Level(t) < t.end,
           own[b] = <<t.path[1], Level(t) + 1, Nth(t.va, Level(t))>>
    PROVE  \E u : Down(t, b) = <<u>> /\ OnWay(T, own, u) /\ Orig(u) = Orig(t)
<1>1. t \in Calls /\ t.path \in Seq(Nat) /\ t.path # <<>> /\ Level(t) \in 0..t.end /\ t.end \in {2, 3}
  BY DEF OnWay, Calls
<1>2. PICK q \in Seq(Nat) : q = Append(t.path, b)
  <2>1. PICK p \in Seq(Nat) : p = t.path
    BY <1>1
  <2>2. Append(p, b) \in Seq(Nat)
    OBVIOUS
  <2> QED
    BY <2>1, <2>2
<1>3. Len(q) = Len(t.path) + 1 /\ q[Len(q)] = b /\ q[1] = t.path[1] /\ q # <<>> /\ Len(t.path) >= 1
  BY <1>1, <1>2
<1>4. PICK u : u = [t EXCEPT !.path = q]
  OBVIOUS
<1>5. u \in Calls /\ u.path = q /\ u.va = t.va /\ u.end = t.end /\ u.pa = t.pa
  BY <1>1, <1>2, <1>4 DEF Calls
<1>6. Level(u) = Level(t) + 1 /\ Level(t) \in Nat
  BY <1>1, <1>3, <1>5 DEF Level
<1>7. Pre(u.va, Level(u)) = Nth(t.va, Level(t))
  BY <1>5, <1>6 DEF Pre
<1>8. Level(u) \in 0..u.end
  BY <1>1, <1>5, <1>6
<1>9. OnWay(T, own, u)
  BY <1>3, <1>5, <1>6, <1>7, <1>8 DEF OnWay
<1>10. Orig(u) = Orig(t)
  BY <1>3, <1>5 DEF Orig
<1>11. Down(t, b) = <<u>>
  BY <1>2, <1>4 DEF Down
<1> QED
  BY <1>9, <1>10, <1>11

(* An entry written is the only change.                                     *)
LEMMA FillIs ==
    ASSUME NEW m \in PgMem, NEW t, NEW a \in Frames, NEW x \in Slots, NEW e \in Entries,
           a = Last(t.path), x = Index(t.va, Level(t))
    PROVE  /\ Fill(m, t, e) \in PgMem /\ Fill(m, t, e).used = m.used
           /\ \A s \in Frames, y \in Slots :
                 Fill(m, t, e).tbl[s][y] = IF s = a /\ y = x THEN e ELSE m.tbl[s][y]
<1>1. Fill(m, t, e) = [m EXCEPT !.tbl[a][x] = e]
  BY DEF Fill, Put
<1>2. PICK tb \in [Frames -> [Slots -> Entries]] : tb = m.tbl
  BY DEF PgMem
<1>3. PICK new : new = [tb EXCEPT ![a] = [tb[a] EXCEPT ![x] = e]]
  OBVIOUS
<1>4. [tb[a] EXCEPT ![x] = e] \in [Slots -> Entries]
  BY <1>2
<1>5. new \in [Frames -> [Slots -> Entries]]
  BY <1>2, <1>3, <1>4
<1>6. \A s \in Frames, y \in Slots : new[s][y] = IF s = a /\ y = x THEN e ELSE tb[s][y]
  BY <1>2, <1>3
<1>7. Fill(m, t, e) = [m EXCEPT !.tbl = new]
  BY <1>1, <1>2, <1>3 DEF PgMem
<1>8. [m EXCEPT !.tbl = new] \in PgMem /\ [m EXCEPT !.tbl = new].used = m.used /\ [m EXCEPT !.tbl = new].tbl = new
  BY <1>5 DEF PgMem
<1> QED
  BY <1>2, <1>6, <1>7, <1>8

Follows(m, T, own, laid, k, S, has) ==
    /\ Grove(k, S, has, laid) /\ T \subseteq S /\ \A t \in T : has[t] = own[t]
    /\ \A c \in laid : Written(m, T, own, c) => Written(k, S, has, c)

(* The entry that a call ends in leads nowhere and holds nothing else.      *)
LEMMA EndFree ==
    ASSUME NEW m, NEW T, NEW own, NEW laid, Plan(laid), Grove(m, T, own, laid), NEW a \in T, NEW x \in Slots,
           NEW c \in laid, own[a] = <<c.path[1], c.end, Pre(c.va, c.end)>>, x = Index(c.va, c.end)
    PROVE  ~Leads(m.tbl[a][x]) /\ (Leaf(m.tbl[a][x]) => m.tbl[a][x] = WritePte(c.pa))
<1>1. c \in Calls /\ c.va \in VaPages /\ c.end \in {2, 3} /\ c.end \in 0..3 /\ c.path[1] \in Roots
  BY DEF Plan, Calls
<1>2. Nth(c.va, c.end) = Pre(c.va, c.end) * Fan + x
  BY <1>1, Digits
<1>3. PICK r, n, l : r = own[a][1] /\ l = own[a][2] /\ n = own[a][3] /\ r = c.path[1] /\ l = c.end /\ n = Pre(c.va, c.end)
  OBVIOUS
<1>4. n * Fan + x = Nth(c.va, l)
  BY <1>2, <1>3
<1>5. a \in Frames /\ m.tbl[a][x] \in Entries
  BY DEF Grove, Keyed, PgMem
<1>6. ASSUME Leads(m.tbl[a][x]) PROVE FALSE
  <2>1. PICK b \in T : own[b] = <<r, l + 1, Nth(c.va, l)>>
    <3>1. /\ m.tbl[a][x].base \in T
          /\ own[m.tbl[a][x].base] = <<own[a][1], own[a][2] + 1, own[a][3] * Fan + x>>
      BY <1>6 DEF Grove, Linked
    <3> QED
      BY <1>3, <1>4, <3>1
  <2>2. own[b] \in Roots \X (0..3) \X Nat
    BY DEF Grove, Keyed
  <2>3. l + 1 \in 0..3
    BY <2>1, <2>2
  <2>4. l = 2
    BY <1>1, <1>3, <2>3
  <2>5. own[b][1] = r /\ own[b][2] = 3 /\ own[b][3] = Nth(c.va, 2)
    BY <2>1, <2>4
  <2>6. PICK d \in laid : d.path[1] = r /\ d.end = 3 /\ Nth(d.va, 2) = Nth(c.va, 2)
    BY <2>5 DEF Grove, Asked
  <2> QED
    BY <1>3, <2>4, <2>6 DEF Plan
<1>7. ASSUME Leaf(m.tbl[a][x]) PROVE m.tbl[a][x] = WritePte(c.pa)
  <2>1. LaidAt(laid, r, l, n * Fan + x, m.tbl[a][x].base)
    BY <1>3, <1>7 DEF Grove, Asked
  <2>2. PICK d \in laid : d.path[1] = r /\ d.end = l /\ Nth(d.va, l) = Nth(c.va, l) /\ d.pa = m.tbl[a][x].base
    BY <1>4, <2>1 DEF LaidAt
  <2>3. d.pa = c.pa
    BY <1>3, <2>2 DEF Plan
  <2>4. m.tbl[a][x].base = c.pa
    BY <2>2, <2>3
  <2> QED
    BY <1>1, <1>5, <1>7, <2>4, PteIs DEF Calls
<1> QED
  BY <1>6, <1>7

(* The last level of a call: the page or block is entered.                  *)
LEMMA WriteIs ==
    ASSUME NEW m, NEW T, NEW own, NEW laid, Plan(laid), Grove(m, T, own, laid), NEW t, OnWay(T, own, t),
           NEW c \in laid, c = Orig(t), Level(t) = t.end
    PROVE  /\ Follows(m, T, own, laid, Fill(m, t, WritePte(t.pa)), T, own)
           /\ Written(Fill(m, t, WritePte(t.pa)), T, own, c)
           /\ Fill(m, t, WritePte(t.pa)).used = m.used
<1>1. m \in PgMem /\ Keyed(T, own) /\ Linked(m, T, own) /\ Asked(m, T, own, laid)
  BY DEF Grove
<1>0. PICK a, l, x, r : Looks(T, own, t, a, l, x, r)
  BY <1>1, OnWayIs
<1>2. /\ a \in T /\ a \in Frames /\ l \in 0..3 /\ x \in Slots /\ r \in Roots
      /\ a = Last(t.path) /\ l = Level(t) /\ x = Index(t.va, l) /\ r = t.path[1]
      /\ own[a] = <<r, l, Pre(t.va, l)>> /\ Nth(t.va, l) = Pre(t.va, l) * Fan + x
      /\ Pre(t.va, l) \in Nat /\ Nth(t.va, l) \in Nat
  BY <1>0 DEF Looks
<1>3. c.path[1] = r /\ c.end = l /\ c.va = t.va /\ c.pa = t.pa /\ c.pa \in Nat
  <2>1. c.path[1] = t.path[1] /\ c.end = t.end /\ c.va = t.va /\ c.pa = t.pa
    BY DEF Orig, PgCall
  <2>2. c.pa \in Nat
    BY DEF Plan, Calls
  <2> QED
    BY <1>2, <2>1, <2>2
<1>4. PICK e \in Entries : e = WritePte(t.pa) /\ e.base = c.pa /\ ~Leads(e)
  BY <1>3, PteIs
<1>5. PICK k : k = Fill(m, t, WritePte(t.pa))
  OBVIOUS
<1>6. /\ k \in PgMem /\ k.used = m.used
      /\ \A s \in Frames, y \in Slots : k.tbl[s][y] = IF s = a /\ y = x THEN e ELSE m.tbl[s][y]
  BY <1>1, <1>2, <1>4, <1>5, FillIs
<1>7. ~Leads(m.tbl[a][x]) /\ (Leaf(m.tbl[a][x]) => m.tbl[a][x] = e)
  BY <1>2, <1>3, <1>4, EndFree
<1>8. T \subseteq Frames
  BY <1>1 DEF Keyed
<1>9. \A s \in T, y \in Slots : /\ Leads(k.tbl[s][y]) <=> Leads(m.tbl[s][y])
                                /\ Leads(m.tbl[s][y]) => k.tbl[s][y] = m.tbl[s][y]
  <2>1. ASSUME NEW s \in T, NEW y \in Slots, s = a /\ y = x
        PROVE  ~Leads(k.tbl[s][y]) /\ ~Leads(m.tbl[s][y])
    BY <1>4, <1>6, <1>7, <1>8, <2>1
  <2>2. ASSUME NEW s \in T, NEW y \in Slots, ~(s = a /\ y = x) PROVE k.tbl[s][y] = m.tbl[s][y]
    BY <1>6, <1>8, <2>2
  <2> QED
    BY <2>1, <2>2
<1>10. Linked(k, T, own)
  <2>1. ASSUME NEW s \in T, NEW y \in Slots, Leads(k.tbl[s][y])
        PROVE  /\ k.tbl[s][y].base \in T
               /\ own[k.tbl[s][y].base] = <<own[s][1], own[s][2] + 1, own[s][3] * Fan + y>>
    <3>1. k.tbl[s][y] = m.tbl[s][y] /\ Leads(m.tbl[s][y])
      BY <1>9, <2>1
    <3> QED
      BY <1>1, <3>1 DEF Linked
  <2>2. ASSUME NEW b \in T, own[b][2] # 0
        PROVE  \E s \in T, y \in Slots : Leads(k.tbl[s][y]) /\ k.tbl[s][y].base = b
    <3>1. PICK s \in T, y \in Slots : Leads(m.tbl[s][y]) /\ m.tbl[s][y].base = b
      BY <1>1, <2>2 DEF Linked
    <3> QED
      BY <1>9, <3>1
  <2> QED
    BY <2>1, <2>2 DEF Linked
<1>11. k.tbl[a][x] = e
  BY <1>2, <1>6
<1>12. Asked(k, T, own, laid)
  <2>1. own[a][1] = r /\ own[a][2] = l /\ own[a][3] = Pre(t.va, l)
    BY <1>2
  <2>2. LaidAt(laid, own[a][1], own[a][2], own[a][3] * Fan + x, e.base)
    BY <1>2, <1>3, <1>4, <2>1 DEF LaidAt
  <2>3. ASSUME NEW s \in T, NEW y \in Slots, Leaf(k.tbl[s][y])
        PROVE  LaidAt(laid, own[s][1], own[s][2], own[s][3] * Fan + y, k.tbl[s][y].base)
    <3>1. CASE s = a /\ y = x
      BY <1>11, <2>2, <3>1
    <3>2. CASE ~(s = a /\ y = x)
      <4>1. k.tbl[s][y] = m.tbl[s][y]
        BY <1>6, <1>8, <3>2
      <4> QED
        BY <1>1, <2>3, <4>1 DEF Asked
    <3> QED
      BY <3>1, <3>2
  <2> QED
    BY <1>1, <2>3 DEF Asked
<1>13. ASSUME NEW d \in laid, Written(m, T, own, d) PROVE Written(k, T, own, d)
  <2>1. PICK s \in T : own[s] = <<d.path[1], d.end, Pre(d.va, d.end)>> /\ m.tbl[s][Index(d.va, d.end)] = WritePte(d.pa)
    BY <1>13 DEF Written
  <2>2. PICK y \in Slots : y = Index(d.va, d.end)
    <3>1. d.va \in VaPages /\ d.end \in 0..3
      BY DEF Plan, Calls
    <3> QED
      BY <3>1, Digits DEF Slots
  <2>3. CASE s = a /\ y = x
    <3>1. Leaf(m.tbl[a][x])
      <4>1. d.pa \in Nat
        BY DEF Plan, Calls
      <4> QED
        BY <2>1, <2>2, <2>3, <4>1, PteIs
    <3> QED
      BY <1>7, <1>11, <2>1, <2>2, <2>3, <3>1 DEF Written
  <2>4. CASE ~(s = a /\ y = x)
    <3>1. k.tbl[s][y] = m.tbl[s][y]
      BY <1>6, <1>8, <2>4
    <3> QED
      BY <2>1, <2>2, <3>1 DEF Written
  <2> QED
    BY <2>3, <2>4
<1>14. Written(k, T, own, c)
  BY <1>2, <1>3, <1>4, <1>11 DEF Written
<1>15. Grove(k, T, own, laid)
  BY <1>1, <1>6, <1>10, <1>12 DEF Grove
<1> QED
  BY <1>5, <1>6, <1>13, <1>14, <1>15 DEF Follows

Entered(m, t, new) == [Fill(m, t, MakePgEntry(new)) EXCEPT !.used = @ \cup {new}, !.tbl[new] = ZeroTable]

(* pg_next_level: a table is taken, cleared and entered.                    *)
LEMMA EnteredIs ==
    ASSUME NEW m \in PgMem, NEW t, NEW a \in Frames, NEW x \in Slots, NEW b \in Frames, b # a,
           a = Last(t.path), x = Index(t.va, Level(t))
    PROVE  /\ Entered(m, t, b) \in PgMem /\ Entered(m, t, b).used = m.used \cup {b}
           /\ \A y \in Slots : Entered(m, t, b).tbl[b][y] = Zero
           /\ Entered(m, t, b).tbl[a][x] = MakePgEntry(b)
           /\ \A s \in Frames, y \in Slots : s # b /\ ~(s = a /\ y = x) => Entered(m, t, b).tbl[s][y] = m.tbl[s][y]
<1>1. b \in Nat
  BY FramesAre
<1>2. PICK e \in Entries : e = MakePgEntry(b)
  BY <1>1, PteIs
<1>3. PICK f : f = Fill(m, t, MakePgEntry(b))
  OBVIOUS
<1>4. /\ f \in PgMem /\ f.used = m.used
      /\ \A s \in Frames, y \in Slots : f.tbl[s][y] = IF s = a /\ y = x THEN e ELSE m.tbl[s][y]
  BY <1>2, <1>3, FillIs
<1>5. PICK tb \in [Frames -> [Slots -> Entries]] : tb = f.tbl
  BY <1>4 DEF PgMem
<1>6. ZeroTable \in [Slots -> Entries] /\ \A y \in Slots : ZeroTable[y] = Zero
  BY <1>1, PteIs DEF ZeroTable, Slots
<1>7. PICK tc \in [Frames -> [Slots -> Entries]] : /\ tc = [tb EXCEPT ![b] = ZeroTable] /\ tc[b] = ZeroTable
                                                   /\ \A s \in Frames : s # b => tc[s] = tb[s]
  <2>1. PICK tc : tc = [tb EXCEPT ![b] = ZeroTable]
    OBVIOUS
  <2>2. tc \in [Frames -> [Slots -> Entries]]
    BY <1>5, <1>6, <2>1
  <2>3. tc[b] = ZeroTable /\ \A s \in Frames : s # b => tc[s] = tb[s]
    BY <1>5, <2>1
  <2> QED
    BY <2>1, <2>2, <2>3
<1>8. PICK k : k = [f EXCEPT !.used = @ \cup {b}, !.tbl[b] = ZeroTable]
  OBVIOUS
<1>9. k \in PgMem /\ k.used = m.used \cup {b} /\ k.tbl = tc
  BY <1>1, <1>4, <1>5, <1>7, <1>8 DEF PgMem
<1>10. k = Entered(m, t, b)
  BY <1>3, <1>8 DEF Entered
<1> QED
  BY <1>2, <1>4, <1>5, <1>6, <1>7, <1>9, <1>10

(* The new table has a place of its own.                                    *)
LEMMA GrowIs ==
    ASSUME NEW m, NEW T, NEW own, NEW laid, Plan(laid), Grove(m, T, own, laid), NEW t, OnWay(T, own, t),
           NEW c \in laid, c = Orig(t), Level(t) < t.end, ~Entry(m, t).valid,
           NEW b \in Pool, b \notin T
    PROVE  \E has : /\ Follows(m, T, own, laid, Entered(m, t, b), T \cup {b}, has)
                    /\ OnWay(T \cup {b}, has, t)
                    /\ has[b] = <<t.path[1], Level(t) + 1, Nth(t.va, Level(t))>>
<1>1. m \in PgMem /\ Keyed(T, own) /\ Linked(m, T, own) /\ Asked(m, T, own, laid) /\ T \subseteq Frames /\ Roots \subseteq T
  BY DEF Grove, Keyed
<1>0. PICK a, l, x, r : Looks(T, own, t, a, l, x, r)
  BY <1>1, OnWayIs
<1>2. /\ a \in T /\ a \in Frames /\ l \in 0..3 /\ x \in Slots /\ r \in Roots
      /\ a = Last(t.path) /\ l = Level(t) /\ x = Index(t.va, l) /\ r = t.path[1]
      /\ own[a] = <<r, l, Pre(t.va, l)>> /\ Nth(t.va, l) = Pre(t.va, l) * Fan + x
      /\ Pre(t.va, l) \in Nat /\ Nth(t.va, l) \in Nat
  BY <1>0 DEF Looks
<1>3. t.va \in VaPages /\ t.end \in {2, 3} /\ l \in 0..2 /\ (l = 2 => t.end = 3)
  BY <1>2 DEF OnWay, Calls
<1>4. ~m.tbl[a][x].valid
  BY <1>2 DEF Entry
<1>5. b \in Frames /\ b # a /\ b \in Nat /\ b \notin Roots
  BY <1>1, <1>2, FramesAre
<1>6. PICK k : k = Entered(m, t, b)
  OBVIOUS
<1>7. /\ k \in PgMem /\ \A y \in Slots : k.tbl[b][y] = Zero
      /\ k.tbl[a][x] = MakePgEntry(b)
      /\ \A s \in Frames, y \in Slots : s # b /\ ~(s = a /\ y = x) => k.tbl[s][y] = m.tbl[s][y]
  <2>1. m \in PgMem /\ a \in Frames /\ x \in Slots /\ a = Last(t.path) /\ x = Index(t.va, Level(t))
    BY <1>1, <1>2
  <2>2. /\ Entered(m, t, b) \in PgMem /\ Entered(m, t, b).used = m.used \cup {b}
        /\ \A y \in Slots : Entered(m, t, b).tbl[b][y] = Zero
        /\ Entered(m, t, b).tbl[a][x] = MakePgEntry(b)
        /\ \A s \in Frames, y \in Slots : s # b /\ ~(s = a /\ y = x) => Entered(m, t, b).tbl[s][y] = m.tbl[s][y]
    BY ONLY <1>5, <2>1, EnteredIs
  <2> QED
    BY <1>6, <2>2
<1>8. PICK key : key = <<r, l + 1, Nth(t.va, l)>>
  OBVIOUS
<1>9. PICK has : has = [s \in T \cup {b} |-> IF s = b THEN key ELSE own[s]]
  OBVIOUS
<1>10. has[b] = key /\ \A s \in T : has[s] = own[s]
  BY <1>9
<1>11. \A s \in T : own[s] # key
  <2> SUFFICES ASSUME NEW s \in T, own[s] = key PROVE FALSE
    OBVIOUS
  <2>1. PICK p \in T : own[p] = <<r, l, Pre(t.va, l)>> /\ Leads(m.tbl[p][Index(t.va, l)])
    BY <1>1, <1>3, <1>8, ParentIs
  <2>2. p = a
    BY <1>1, <1>2, <2>1 DEF Keyed
  <2> QED
    BY <1>2, <1>4, <2>1, <2>2 DEF Leads
<1>12. key \in Roots \X (0..3) \X Nat /\ key[1] = r /\ key[2] = l + 1 /\ key[2] # 0 /\ key[3] = Nth(t.va, l)
  BY <1>2, <1>3, <1>8
<1>13. Keyed(T \cup {b}, has)
  <2>1. \A s \in T \cup {b} : has[s] \in Roots \X (0..3) \X Nat
    BY <1>1, <1>10, <1>12 DEF Keyed
  <2>2. \A s, u \in T \cup {b} : has[s] = has[u] => s = u
    BY <1>1, <1>10, <1>11 DEF Keyed
  <2>3. \A q \in Roots : has[q] = <<q, 0, 0>>
    BY <1>1, <1>10 DEF Keyed
  <2>4. \A s \in T \cup {b} : has[s][2] = 0 => s \in Roots
    BY <1>1, <1>10, <1>12 DEF Keyed
  <2> QED
    BY <1>1, <1>5, <2>1, <2>2, <2>3, <2>4 DEF Keyed
<1>14. Leads(k.tbl[a][x]) /\ k.tbl[a][x].base = b /\ ~Leaf(k.tbl[a][x])
  BY <1>5, <1>7, PteIs
<1>15. \A y \in Slots : ~Leads(k.tbl[b][y]) /\ ~Leaf(k.tbl[b][y])
  BY <1>5, <1>7, PteIs
<1>16. \A s \in T, y \in Slots : ~(s = a /\ y = x) => k.tbl[s][y] = m.tbl[s][y]
  BY <1>1, <1>7
<1>17. Linked(k, T \cup {b}, has)
  <2>1. ASSUME NEW s \in T \cup {b}, NEW y \in Slots, Leads(k.tbl[s][y])
        PROVE  /\ k.tbl[s][y].base \in T \cup {b}
               /\ has[k.tbl[s][y].base] = <<has[s][1], has[s][2] + 1, has[s][3] * Fan + y>>
    <3>1. CASE s = b
      BY <1>15, <2>1, <3>1
    <3>2. CASE s = a /\ y = x
      <4>1. has[a] = <<r, l, Pre(t.va, l)>>
        BY <1>2, <1>10
      <4>2. has[a][1] = r /\ has[a][2] = l /\ has[a][3] = Pre(t.va, l)
        BY <4>1
      <4>3. has[b] = <<r, l + 1, Pre(t.va, l) * Fan + x>>
        BY <1>2, <1>8, <1>10
      <4>4. has[b] = <<has[a][1], has[a][2] + 1, has[a][3] * Fan + x>>
        BY <4>2, <4>3
      <4> QED
        BY <1>14, <3>2, <4>4
    <3>3. CASE s # b /\ ~(s = a /\ y = x)
      <4>1. s \in T /\ k.tbl[s][y] = m.tbl[s][y]
        BY <1>16, <3>3
      <4>2. /\ m.tbl[s][y].base \in T
            /\ own[m.tbl[s][y].base] = <<own[s][1], own[s][2] + 1, own[s][3] * Fan + y>>
        BY <1>1, <2>1, <4>1 DEF Linked
      <4>3. has[m.tbl[s][y].base] = own[m.tbl[s][y].base] /\ has[s] = own[s]
        BY <1>10, <4>1, <4>2
      <4> QED
        BY <4>1, <4>2, <4>3
    <3> QED
      BY <3>1, <3>2, <3>3
  <2>2. ASSUME NEW u \in T \cup {b}, has[u][2] # 0
        PROVE  \E s \in T \cup {b}, y \in Slots : Leads(k.tbl[s][y]) /\ k.tbl[s][y].base = u
    <3>1. CASE u = b
      BY <1>2, <1>14, <3>1
    <3>2. CASE u # b
      <4>1. PICK s \in T, y \in Slots : Leads(m.tbl[s][y]) /\ m.tbl[s][y].base = u
        BY <1>1, <1>10, <2>2, <3>2 DEF Linked
      <4>2. ~(s = a /\ y = x)
        BY <1>4, <4>1 DEF Leads
      <4> QED
        BY <1>16, <4>1, <4>2
    <3> QED
      BY <3>1, <3>2
  <2> QED
    BY <2>1, <2>2 DEF Linked
<1>18. Asked(k, T \cup {b}, has, laid)
  <2>1. ASSUME NEW s \in T \cup {b}, NEW y \in Slots, Leaf(k.tbl[s][y])
        PROVE  LaidAt(laid, has[s][1], has[s][2], has[s][3] * Fan + y, k.tbl[s][y].base)
    <3>1. s # b /\ ~(s = a /\ y = x)
      BY <1>14, <1>15, <2>1
    <3>2. s \in T /\ k.tbl[s][y] = m.tbl[s][y] /\ has[s] = own[s]
      BY <1>10, <1>16, <3>1
    <3>3. LaidAt(laid, own[s][1], own[s][2], own[s][3] * Fan + y, m.tbl[s][y].base)
      BY <1>1, <2>1, <3>2 DEF Asked
    <3> QED
      BY <3>2, <3>3
  <2>2. ASSUME NEW s \in T \cup {b}, has[s][2] = 3
        PROVE  \E d \in laid : d.path[1] = has[s][1] /\ d.end = 3 /\ Nth(d.va, 2) = has[s][3]
    <3>1. CASE s = b
      <4>1. l = 2
        BY <1>3, <1>10, <1>12, <2>2, <3>1
      <4>2. c.path[1] = r /\ c.end = 3 /\ c.va = t.va
        <5>1. c.path[1] = t.path[1] /\ c.end = t.end /\ c.va = t.va
          BY DEF Orig, PgCall
        <5> QED
          BY <1>2, <1>3, <4>1, <5>1
      <4> QED
        BY <1>10, <1>12, <3>1, <4>1, <4>2
    <3>2. CASE s # b
      BY <1>1, <1>10, <2>2, <3>2 DEF Asked
    <3> QED
      BY <3>1, <3>2
  <2> QED
    BY <2>1, <2>2 DEF Asked
<1>19. ASSUME NEW d \in laid, Written(m, T, own, d) PROVE Written(k, T \cup {b}, has, d)
  <2>1. PICK s \in T : own[s] = <<d.path[1], d.end, Pre(d.va, d.end)>> /\ m.tbl[s][Index(d.va, d.end)] = WritePte(d.pa)
    BY <1>19 DEF Written
  <2>2. d.va \in VaPages /\ d.end \in 0..3 /\ d.pa \in Nat
    BY DEF Plan, Calls
  <2>3. PICK y \in Slots : y = Index(d.va, d.end)
    BY <2>2, Digits DEF Slots
  <2>4. m.tbl[s][y].valid
    BY <2>1, <2>2, <2>3, PteIs DEF Leaf
  <2>5. k.tbl[s][y] = m.tbl[s][y]
    BY <1>4, <1>16, <2>4
  <2> QED
    BY <1>10, <2>1, <2>3, <2>5 DEF Written
<1>20. Follows(m, T, own, laid, k, T \cup {b}, has)
  BY <1>7, <1>10, <1>13, <1>17, <1>18, <1>19 DEF Follows, Grove
<1>21. OnWay(T \cup {b}, has, t)
  <2>1. t \in Calls /\ t.path # <<>> /\ t.path[Len(t.path)] \in T /\ Level(t) \in 0..t.end
        /\ own[t.path[Len(t.path)]] = <<t.path[1], Level(t), Pre(t.va, Level(t))>>
    BY DEF OnWay
  <2> QED
    BY <1>10, <2>1 DEF OnWay
<1>22. has[b] = <<t.path[1], Level(t) + 1, Nth(t.va, Level(t))>>
  BY <1>2, <1>8, <1>10
<1> QED
  BY <1>6, <1>20, <1>21, <1>22

(* One level of __pg_map.                                                   *)
Goes(m, T, own, laid, hp, c, did) ==
    \E S, has :
       /\ Follows(m, T, own, laid, did.mem, S, has) /\ S = Roots \cup (did.mem.used \ hp)
       /\ m.used \subseteq did.mem.used /\ did.mem.used \subseteq m.used \cup Pool
       /\ \/ did.rest = <<>> /\ Written(did.mem, S, has, c)
          \/ \E u : did.rest = <<u>> /\ OnWay(S, has, u) /\ Orig(u) = c

(* One level of __pg_map keeps the tables in order and takes the call to    *)
(* its entry, or writes that.                                               *)
LEMMA LevelStep ==
    ASSUME NEW m, NEW T, NEW own, NEW laid, Plan(laid), Grove(m, T, own, laid), NEW t, OnWay(T, own, t),
           NEW c \in laid, c = Orig(t), NEW hp, T = Roots \cup (m.used \ hp), hp \subseteq m.used,
           Fan + NPages \notin PgMapLevel(m, t).mem.used
    PROVE  Goes(m, T, own, laid, hp, c, PgMapLevel(m, t))
<1>1. m \in PgMem /\ Keyed(T, own) /\ Linked(m, T, own) /\ Asked(m, T, own, laid) /\ T \subseteq Frames /\ Roots \subseteq T
  BY DEF Grove, Keyed
<1>0. PICK a, l, x, r : Looks(T, own, t, a, l, x, r)
  BY <1>1, OnWayIs
<1>2. /\ a \in T /\ a \in Frames /\ l \in 0..3 /\ x \in Slots /\ r \in Roots
      /\ a = Last(t.path) /\ l = Level(t) /\ x = Index(t.va, l) /\ r = t.path[1]
      /\ own[a] = <<r, l, Pre(t.va, l)>> /\ Nth(t.va, l) = Pre(t.va, l) * Fan + x
      /\ Pre(t.va, l) \in Nat /\ Nth(t.va, l) \in Nat /\ l <= t.end
  BY <1>0 DEF Looks
<1>3. t.va \in VaPages /\ t.end \in {2, 3} /\ c.path[1] = r /\ c.end = t.end /\ c.va = t.va /\ c.pa = t.pa
  <2>1. c.path[1] = t.path[1] /\ c.end = t.end /\ c.va = t.va /\ c.pa = t.pa
    BY DEF Orig, PgCall
  <2> QED
    BY <1>2, <2>1 DEF OnWay, Calls
<1>4. PICK e : e = Entry(m, t) /\ e = m.tbl[a][x]
  BY <1>2 DEF Entry
<1>5. PICK new : new = AllocOnePage(m.used)
  OBVIOUS
<1>6. Follows(m, T, own, laid, m, T, own)
  BY DEF Follows
<1>7. CASE Level(t) = t.end
  <2>0. ~(Level(t) < t.end)
    BY <1>3, <1>7
  <2>1. PgMapLevel(m, t) = [mem |-> Fill(m, t, WritePte(t.pa)), rest |-> <<>>]
    BY <1>7, <2>0 DEF PgMapLevel
  <2>2. PICK k : k = Fill(m, t, WritePte(t.pa))
    OBVIOUS
  <2>3. Follows(m, T, own, laid, k, T, own) /\ Written(k, T, own, c) /\ k.used = m.used
    BY <1>7, <2>2, WriteIs
  <2>4. PgMapLevel(m, t).mem = k /\ PgMapLevel(m, t).rest = <<>>
    BY <2>1, <2>2
  <2> QED
    BY <2>3, <2>4 DEF Goes
<1>8. CASE Level(t) # t.end /\ ~e.valid
  <2>1. Level(t) < t.end /\ l < t.end
    BY <1>2, <1>3, <1>8
  <2>2. PgMapLevel(m, t) = [mem |-> Entered(m, t, new), rest |-> Down(t, new)]
    BY <1>4, <1>5, <1>8, <2>1 DEF PgMapLevel, Entered
  <2>3. PICK k : k = Entered(m, t, new)
    OBVIOUS
  <2>4. PgMapLevel(m, t).mem = k /\ PgMapLevel(m, t).rest = Down(t, new)
    BY <2>2, <2>3
  <2>5. new \in Pool \ m.used
    <3>1. CASE new # Fan + NPages
      BY <1>5, <3>1, FreshPage
    <3>2. CASE new = Fan + NPages
      <4>1. new \in k.used
        <5>1. PICK f : f = Fill(m, t, MakePgEntry(new))
          OBVIOUS
        <5>2. new \in Nat
          BY <3>2, HostMapAssumption
        <5>3. PICK pte \in Entries : pte = MakePgEntry(new)
          BY <5>2, PteIs
        <5>4. f \in PgMem
          BY <1>1, <1>2, <5>1, <5>3, FillIs
        <5>5. k = [f EXCEPT !.used = @ \cup {new}, !.tbl[new] = ZeroTable]
          BY <2>3, <5>1 DEF Entered
        <5>6. k.used = f.used \cup {new}
          BY <5>4, <5>5 DEF PgMem
        <5> QED
          BY <5>6
      <4> QED
        BY <2>4, <3>2, <4>1
    <3> QED
      BY <3>1, <3>2
  <2>6. new \in Pool /\ new \notin T /\ new \notin hp /\ new \in Frames /\ new \in Nat /\ new # a
    BY <1>2, <2>5, FramesAre
  <2>7. PICK has : /\ Follows(m, T, own, laid, k, T \cup {new}, has)
                   /\ OnWay(T \cup {new}, has, t)
                   /\ has[new] = <<t.path[1], Level(t) + 1, Nth(t.va, Level(t))>>
    <3>1. ~Entry(m, t).valid
      BY <1>4, <1>8
    <3>2. \E has : /\ Follows(m, T, own, laid, Entered(m, t, new), T \cup {new}, has)
                   /\ OnWay(T \cup {new}, has, t)
                   /\ has[new] = <<t.path[1], Level(t) + 1, Nth(t.va, Level(t))>>
      BY <2>1, <2>6, <3>1, GrowIs
    <3> QED
      BY <2>3, <3>2
  <2>8. k.used = m.used \cup {new}
    BY <1>1, <1>2, <2>3, <2>6, EnteredIs
  <2>9. T \cup {new} = Roots \cup (k.used \ hp)
    BY <2>6, <2>8
  <2>10. PICK u : Down(t, new) = <<u>> /\ OnWay(T \cup {new}, has, u) /\ Orig(u) = Orig(t)
    BY <2>1, <2>6, <2>7, DownIs
  <2> QED
    BY <2>4, <2>5, <2>7, <2>8, <2>9, <2>10 DEF Goes
<1>9. CASE Level(t) # t.end /\ e.valid /\ ~e.table
  <2>1. l < t.end
    BY <1>2, <1>3, <1>9
  <2>2. own[a][1] = r /\ own[a][2] = l /\ own[a][3] = Pre(t.va, l)
    BY <1>2
  <2>3. LaidAt(laid, r, l, Nth(t.va, l), e.base)
    <3>1. LaidAt(laid, own[a][1], own[a][2], own[a][3] * Fan + x, m.tbl[a][x].base)
      BY <1>1, <1>2, <1>4, <1>9 DEF Asked, Leaf
    <3> QED
      BY <1>2, <1>4, <2>2, <3>1
  <2>4. PICK d \in laid : d.path[1] = r /\ d.end = l /\ Nth(d.va, l) = Nth(t.va, l)
    BY <2>3 DEF LaidAt
  <2>5. l = 2 /\ t.end = 3
    <3>1. d.end \in {2, 3}
      BY DEF Plan, Calls
    <3> QED
      BY <1>3, <2>1, <2>4, <3>1
  <2> QED
    BY <1>3, <2>4, <2>5 DEF Plan
<1>10. CASE Level(t) # t.end /\ e.valid /\ e.table
  <2>1. Level(t) < t.end /\ l < t.end
    BY <1>2, <1>3, <1>10
  <2>2. PgMapLevel(m, t) = [mem |-> m, rest |-> Down(t, e.base)]
    BY <1>4, <1>10, <2>1 DEF PgMapLevel
  <2>3. /\ m.tbl[a][x].base \in T
        /\ own[m.tbl[a][x].base] = <<own[a][1], own[a][2] + 1, own[a][3] * Fan + x>>
    <3>1. Leads(m.tbl[a][x]) /\ a \in T /\ x \in Slots
      BY <1>2, <1>4, <1>10 DEF Leads
    <3> QED
      BY <1>1, <3>1 DEF Linked
  <2>4. own[a][1] = r /\ own[a][2] = l /\ own[a][3] = Pre(t.va, l)
    BY <1>2
  <2>5. e.base \in T /\ own[e.base] = <<t.path[1], Level(t) + 1, Nth(t.va, Level(t))>>
    BY <1>2, <1>4, <2>3, <2>4
  <2>6. e.base \in Nat
    BY <1>1, <2>5, FramesAre
  <2>7. PICK u : Down(t, e.base) = <<u>> /\ OnWay(T, own, u) /\ Orig(u) = Orig(t)
    BY <2>1, <2>5, <2>6, DownIs
  <2>8. PgMapLevel(m, t).mem = m /\ PgMapLevel(m, t).rest = Down(t, e.base)
    BY <2>2
  <2> QED
    BY <1>6, <2>7, <2>8 DEF Goes
<1> QED
  BY <1>7, <1>8, <1>9, <1>10

-----------------------------------------------------------------------------
(* RISC-V: the calls that are left                                          *)

(* What is laid is written, or a call for it is still to be made.           *)
Serves(m, T, own, laid, left) ==
    /\ left \in Seq(Calls)
    /\ \A i \in 1..Len(left) : OnWay(T, own, left[i]) /\ Orig(left[i]) \in laid
    /\ \A c \in laid : Written(m, T, own, c) \/ \E i \in 1..Len(left) : Orig(left[i]) = c
Mapping(m, hp, left, laid) ==
    /\ hp \subseteq m.used /\ m.used \subseteq Pool
    /\ \E own : /\ Grove(m, Roots \cup (m.used \ hp), own, laid)
                /\ Serves(m, Roots \cup (m.used \ hp), own, laid, left)

(* A call is on its way when more tables are there.                         *)
LEMMA OnWayMore ==
    ASSUME NEW T, NEW own, NEW S, NEW has, T \subseteq S, \A t \in T : has[t] = own[t], NEW t, OnWay(T, own, t)
    PROVE  OnWay(S, has, t)
BY DEF OnWay

(* Sequences: without the first element, and with another before it.        *)
LEMMA TailIs ==
    ASSUME NEW D, NEW s \in Seq(D), s # <<>>
    PROVE  /\ Tail(s) \in Seq(D) /\ Len(Tail(s)) = Len(s) - 1 /\ Len(s) \in Nat \ {0} /\ Head(s) = s[1]
           /\ \A i \in 1..Len(Tail(s)) : Tail(s)[i] = s[i + 1]
OBVIOUS

(* A sequence with one more element in front.                               *)
LEMMA ConsIs ==
    ASSUME NEW D, NEW s \in Seq(D), NEW u \in D
    PROVE  /\ <<u>> \o s \in Seq(D) /\ Len(<<u>> \o s) = Len(s) + 1 /\ (<<u>> \o s)[1] = u
           /\ \A i \in 2..Len(<<u>> \o s) : (<<u>> \o s)[i] = s[i - 1]
           /\ <<>> \o s = s
<1>1. <<u>> \in Seq(D) /\ Len(<<u>>) = 1 /\ <<u>>[1] = u
  OBVIOUS
<1>2. PICK o \in Seq(D) : o = <<u>> /\ Len(o) = 1 /\ o[1] = u
  BY <1>1
<1>3. /\ o \o s \in Seq(D) /\ Len(o \o s) = Len(s) + 1 /\ (o \o s)[1] = u
      /\ \A i \in 2..Len(o \o s) : (o \o s)[i] = s[i - 1]
  BY <1>2
<1>4. <<>> \o s = s
  OBVIOUS
<1> QED
  BY <1>2, <1>3, <1>4

(* A level of the first call, and what is left of the calls.                *)
LEMMA MappingStep ==
    ASSUME NEW m, NEW hp, NEW left, NEW laid, Plan(laid), Mapping(m, hp, left, laid), left # <<>>,
           NEW did, did = PgMapLevel(m, Head(left)), Fan + NPages \notin did.mem.used
    PROVE  Mapping(did.mem, hp, did.rest \o Tail(left), laid)
<1>1. PICK T : T = Roots \cup (m.used \ hp)
  OBVIOUS
<1>2. PICK own : Grove(m, T, own, laid) /\ Serves(m, T, own, laid, left)
  BY <1>1 DEF Mapping
<1>3. PICK t : t = Head(left)
  OBVIOUS
<1>4. left \in Seq(Calls) /\ Len(left) \in Nat \ {0} /\ t = left[1] /\ 1 \in 1..Len(left)
  BY <1>2, <1>3 DEF Serves
<1>5. OnWay(T, own, t) /\ Orig(t) \in laid
  BY <1>2, <1>4 DEF Serves
<1>6. PICK c \in laid : c = Orig(t)
  BY <1>5
<1>7. hp \subseteq m.used /\ m.used \subseteq Pool
  BY DEF Mapping
<1>8. Goes(m, T, own, laid, hp, c, did)
  BY <1>1, <1>2, <1>3, <1>5, <1>6, <1>7, LevelStep
<1>9. PICK S, has :
       /\ Follows(m, T, own, laid, did.mem, S, has) /\ S = Roots \cup (did.mem.used \ hp)
       /\ m.used \subseteq did.mem.used /\ did.mem.used \subseteq m.used \cup Pool
       /\ \/ did.rest = <<>> /\ Written(did.mem, S, has, c)
          \/ \E u : did.rest = <<u>> /\ OnWay(S, has, u) /\ Orig(u) = c
  BY <1>8 DEF Goes
<1>10. /\ Grove(did.mem, S, has, laid) /\ T \subseteq S /\ \A s \in T : has[s] = own[s]
       /\ \A d \in laid : Written(m, T, own, d) => Written(did.mem, S, has, d)
  BY <1>9 DEF Follows
<1>11. PICK tl \in Seq(Calls) : /\ tl = Tail(left) /\ Len(tl) = Len(left) - 1
                                /\ \A i \in 1..Len(tl) : tl[i] = left[i + 1]
  BY <1>4, TailIs
<1>12. \A i \in 1..Len(tl) : OnWay(S, has, tl[i]) /\ Orig(tl[i]) \in laid
  <2> SUFFICES ASSUME NEW i \in 1..Len(tl) PROVE OnWay(S, has, tl[i]) /\ Orig(tl[i]) \in laid
    OBVIOUS
  <2>1. i + 1 \in 1..Len(left) /\ tl[i] = left[i + 1]
    BY <1>4, <1>11
  <2>2. OnWay(T, own, tl[i]) /\ Orig(tl[i]) \in laid
    BY <1>2, <2>1 DEF Serves
  <2> QED
    BY <1>10, <2>2, OnWayMore
<1>13. \A d \in laid : Written(did.mem, S, has, d) \/ d = c \/ \E i \in 1..Len(tl) : Orig(tl[i]) = d
  <2> SUFFICES ASSUME NEW d \in laid, ~Written(did.mem, S, has, d), d # c PROVE \E i \in 1..Len(tl) : Orig(tl[i]) = d
    OBVIOUS
  <2>1. PICK j \in 1..Len(left) : Orig(left[j]) = d
    BY <1>2, <1>10 DEF Serves
  <2>2. j # 1
    BY <1>4, <1>6, <2>1
  <2>3. j - 1 \in 1..Len(tl) /\ tl[j - 1] = left[j]
    BY <1>4, <1>11, <2>2
  <2> QED
    BY <2>1, <2>3
<1>14. CASE did.rest = <<>> /\ Written(did.mem, S, has, c)
  <2>1. did.rest \o Tail(left) = tl
    BY <1>11, <1>14, <1>5, ConsIs DEF OnWay
  <2>2. Serves(did.mem, S, has, laid, tl)
    BY <1>11, <1>12, <1>13, <1>14 DEF Serves
  <2> QED
    BY <1>7, <1>9, <1>10, <2>1, <2>2 DEF Mapping
<1>15. ASSUME NEW u, did.rest = <<u>>, OnWay(S, has, u), Orig(u) = c PROVE Mapping(did.mem, hp, did.rest \o Tail(left), laid)
  <2>1. u \in Calls
    BY <1>15 DEF OnWay
  <2>2. PICK q \in Seq(Calls) : q = <<u>> \o tl /\ Len(q) = Len(tl) + 1 /\ q[1] = u /\ \A i \in 2..Len(q) : q[i] = tl[i - 1]
    <3>1. /\ <<u>> \o tl \in Seq(Calls) /\ Len(<<u>> \o tl) = Len(tl) + 1 /\ (<<u>> \o tl)[1] = u
          /\ \A i \in 2..Len(<<u>> \o tl) : (<<u>> \o tl)[i] = tl[i - 1]
      BY <2>1, ConsIs
    <3>2. PICK q : q = <<u>> \o tl
      OBVIOUS
    <3> QED
      BY <3>1, <3>2
  <2>3. \A i \in 1..Len(q) : OnWay(S, has, q[i]) /\ Orig(q[i]) \in laid
    <3> SUFFICES ASSUME NEW i \in 1..Len(q) PROVE OnWay(S, has, q[i]) /\ Orig(q[i]) \in laid
      OBVIOUS
    <3>1. CASE i = 1
      BY <1>15, <2>2, <3>1
    <3>2. CASE i # 1
      <4>1. i \in 2..Len(q) /\ i - 1 \in 1..Len(tl)
        BY <2>2, <3>2
      <4> QED
        BY <1>12, <2>2, <4>1
    <3> QED
      BY <3>1, <3>2
  <2>4. \A d \in laid : Written(did.mem, S, has, d) \/ \E i \in 1..Len(q) : Orig(q[i]) = d
    <3> SUFFICES ASSUME NEW d \in laid, ~Written(did.mem, S, has, d) PROVE \E i \in 1..Len(q) : Orig(q[i]) = d
      OBVIOUS
    <3>1. CASE d = c
      BY <1>15, <2>2, <3>1
    <3>2. CASE d # c
      <4>1. PICK j \in 1..Len(tl) : Orig(tl[j]) = d
        BY <1>13, <3>2
      <4>2. j + 1 \in 1..Len(q) /\ q[j + 1] = tl[j]
        BY <2>2
      <4> QED
        BY <4>1, <4>2
    <3> QED
      BY <3>1, <3>2
  <2>5. Serves(did.mem, S, has, laid, q)
    BY <2>3, <2>4 DEF Serves
  <2>6. did.rest \o Tail(left) = q
    BY <1>11, <1>15, <2>2
  <2> QED
    BY <1>7, <1>9, <1>10, <2>5, <2>6 DEF Mapping
<1> QED
  BY <1>9, <1>14, <1>15

(* More is asked for, by calls that begin at a root.                        *)
LEMMA MappingMore ==
    ASSUME NEW m, NEW hp, NEW laid, Mapping(m, hp, <<>>, laid), NEW left \in Seq(Calls),
           NEW more, more = laid \cup {Orig(left[i]) : i \in 1..Len(left)},
           \A i \in 1..Len(left) : \E r \in Roots : left[i].path = <<r>>
    PROVE  Mapping(m, hp, left, more)
<1>1. PICK T : T = Roots \cup (m.used \ hp)
  OBVIOUS
<1>2. PICK own : Grove(m, T, own, laid) /\ Serves(m, T, own, laid, <<>>)
  BY <1>1 DEF Mapping
<1>3. laid \subseteq more
  OBVIOUS
<1>4. Asked(m, T, own, more)
  <2>1. Asked(m, T, own, laid)
    BY <1>2 DEF Grove
  <2>2. \A r, l, n, b : LaidAt(laid, r, l, n, b) => LaidAt(more, r, l, n, b)
    BY <1>3 DEF LaidAt
  <2> QED
    BY <1>3, <2>1, <2>2 DEF Asked
<1>5. Grove(m, T, own, more)
  BY <1>2, <1>4 DEF Grove
<1>6. \A i \in 1..Len(left) : OnWay(T, own, left[i])
  <2> SUFFICES ASSUME NEW i \in 1..Len(left) PROVE OnWay(T, own, left[i])
    OBVIOUS
  <2>1. PICK r \in Roots : left[i].path = <<r>>
    OBVIOUS
  <2>2. own[r] = <<r, 0, 0>> /\ r \in T
    BY <1>1, <1>2 DEF Grove, Keyed
  <2>3. PICK t \in Calls : t = left[i]
    OBVIOUS
  <2>4. t.path = <<r>> /\ Level(t) = 0 /\ t.path[1] = r /\ t.path[Len(t.path)] = r /\ t.path # <<>>
    <3>1. PICK q : q = <<r>>
      OBVIOUS
    <3>2. q[1] = r /\ Len(q) = 1 /\ q # <<>>
      BY <3>1
    <3>3. t.path = q
      BY <2>1, <2>3, <3>1
    <3> QED
      BY <3>1, <3>2, <3>3 DEF Level
  <2>5. 0 \in 0..t.end /\ Pre(t.va, 0) = 0
    BY DEF Calls, Pre
  <2> QED
    BY <2>2, <2>3, <2>4, <2>5 DEF OnWay
<1>7. \A c \in laid : Written(m, T, own, c)
  BY <1>2 DEF Serves
<1>8. Serves(m, T, own, more, left)
  BY <1>6, <1>7 DEF Serves
<1> QED
  BY <1>1, <1>5, <1>8 DEF Mapping

(* Pages taken for the heap are no tables.                                  *)
LEMMA MappingHeap ==
    ASSUME NEW m, NEW laid, Mapping(m, {}, <<>>, laid), NEW hp \in SUBSET Pool, hp \cap m.used = {},
           NEW k, k = [m EXCEPT !.used = @ \cup hp]
    PROVE  Mapping(k, hp, <<>>, laid)
<1>1. PICK T : T = Roots \cup (m.used \ {})
  OBVIOUS
<1>2. PICK own : Grove(m, T, own, laid) /\ Serves(m, T, own, laid, <<>>)
  BY <1>1 DEF Mapping
<1>3. m \in PgMem /\ Keyed(T, own) /\ Linked(m, T, own) /\ Asked(m, T, own, laid)
  BY <1>2 DEF Grove
<1>4. hp \subseteq Nat
  BY FramesAre
<1>5. k \in PgMem /\ k.tbl = m.tbl /\ k.used = m.used \cup hp
  BY <1>3, <1>4 DEF PgMem
<1>6. T = Roots \cup (k.used \ hp)
  BY <1>1, <1>5
<1>7. Linked(k, T, own) /\ Asked(k, T, own, laid)
  BY <1>3, <1>5 DEF Linked, Asked
<1>8. \A c \in laid : Written(m, T, own, c) => Written(k, T, own, c)
  BY <1>5 DEF Written
<1>9. Serves(k, T, own, laid, <<>>)
  BY <1>2, <1>8 DEF Serves
<1>10. m.used \subseteq Pool
  BY DEF Mapping
<1> QED
  BY <1>3, <1>5, <1>6, <1>7, <1>9, <1>10 DEF Mapping, Grove

(* At reset there is nothing.                                               *)
LEMMA MappingNone == Mapping(NoMemory, {}, <<>>, {})
<1>1. NoMemory.used = {} /\ NoMemory.tbl = [p \in Frames |-> ZeroTable]
  BY DEF NoMemory, Frames
<1>2. ZeroTable \in [Slots -> Entries] /\ \A y \in Slots : ZeroTable[y] = Zero
  <2>1. Zero \in Entries
    BY DEF Zero, Entries
  <2> QED
    BY <2>1 DEF ZeroTable, Slots
<1>3. NoMemory \in PgMem
  <2>1. [p \in Frames |-> ZeroTable] \in [Frames -> [Slots -> Entries]]
    BY <1>2
  <2> QED
    BY <2>1 DEF NoMemory, PgMem, Frames
<1>4. PICK own : own = [r \in Roots |-> <<r, 0, 0>>]
  OBVIOUS
<1>5. Keyed(Roots, own)
  BY <1>4, FramesAre DEF Keyed
<1>6. \A t \in Roots, x \in Slots : NoMemory.tbl[t][x] = Zero
  BY <1>1, <1>2, FramesAre
<1>7. ~Leads(Zero) /\ ~Leaf(Zero)
  BY DEF Zero, Leads, Leaf
<1>8. \A t \in Roots : own[t][2] = 0
  BY <1>4
<1>9. Linked(NoMemory, Roots, own) /\ Asked(NoMemory, Roots, own, {})
  BY <1>6, <1>7, <1>8 DEF Linked, Asked
<1>10. Serves(NoMemory, Roots, own, {}, <<>>)
  BY DEF Serves
<1>11. Roots = Roots \cup (NoMemory.used \ {})
  BY <1>1
<1> QED
  BY <1>1, <1>3, <1>5, <1>9, <1>10, <1>11 DEF Mapping, Grove

-----------------------------------------------------------------------------
(* RISC-V: what the boot lays                                               *)

(* The pages that pg_map goes through, and the calls it makes.              *)
Touched(range) ==
    (range[1] \div PageBytes)..(range[1] \div PageBytes + (range[2] + PageBytes - 1) \div PageBytes - 1)
PagesLaid(root, range) == {PgCall(root, 3, p, p) : p \in Touched(range)}
BlockCall(b) == PgCall(HostRoot, 2, b * Fan, (RvDirect[2] \div BlockBytes + (b - RvDirect[1] \div BlockBytes)) * Fan)
BlocksLaid == {BlockCall(b) : b \in DirectBlocks}
HostLaid == PagesLaid(HostRoot, RvImage) \cup PagesLaid(HostRoot, RvUart) \cup PagesLaid(HostRoot, RvPlic) \cup BlocksLaid
GuestLaid(ram) == PagesLaid(Stage2Root, ram)
Fits(range) == range \in Nat \X Nat /\ Touched(range) \subseteq VaPages

(* What a quotient is of.                                                   *)
LEMMA DivAdd ==
    ASSUME NEW q \in Nat, NEW D \in Nat \ {0}, NEW j \in Nat
    PROVE  (q * D + j) \div D = q + (j \div D)
<1> DEFINE y == j \div D
<1>1. y \in Nat /\ y * D <= j /\ j < y * D + D /\ y * D \in Nat
  OBVIOUS
<1> HIDE DEF y
<1>2. q * D \in Nat /\ (q + y) * D = q * D + y * D /\ q + y \in Nat
  BY <1>1
<1>3. q * D + j \in Nat /\ (q + y) * D <= q * D + j /\ q * D + j < (q + y) * D + D
  BY <1>1, <1>2
<1> DEFINE n == q * D + j
<1>4. n \in Nat /\ (q + y) * D <= n /\ n < (q + y) * D + D
  BY <1>3
<1> HIDE DEF n
<1>5. n \div D = q + y
  BY <1>2, <1>4, DivIs
<1> QED
  BY <1>5 DEF n, y

(* A size in pages, rounded up.                                             *)
LEMMA RoundUp ==
    ASSUME NEW s \in Nat, NEW D \in Nat \ {0}
    PROVE  /\ (s + D - 1) \div D \in Nat
           /\ \A j \in Nat : j < s => j \div D < (s + D - 1) \div D
           /\ \A i \in Nat : i < (s + D - 1) \div D => i * D \in Nat /\ i * D < s /\ (i * D) \div D = i
<1> DEFINE n == (s + D - 1) \div D
<1>1. n \in Nat /\ n * D <= s + D - 1 /\ s + D - 1 < n * D + D /\ n * D \in Nat
  <2>1. PICK a \in Nat : a = s + D - 1
    OBVIOUS
  <2>2. a \div D \in Nat /\ (a \div D) * D <= a /\ a < (a \div D) * D + D /\ (a \div D) * D \in Nat
    OBVIOUS
  <2> QED
    BY <2>1, <2>2
<1> HIDE DEF n
<1>2. ASSUME NEW j \in Nat, j < s PROVE j \div D < n
  <2>1. PICK y \in Nat : y = j \div D /\ y * D <= j /\ y * D \in Nat
    OBVIOUS
  <2>2. y * D < n * D
    BY <1>1, <1>2, <2>1
  <2>3. ASSUME n <= y PROVE FALSE
    <3>1. n * D <= y * D
      BY <1>1, <2>3
    <3> QED
      BY <1>1, <2>1, <2>2, <3>1
  <2> QED
    BY <1>1, <2>1, <2>3
<1>3. ASSUME NEW i \in Nat, i < n PROVE i * D \in Nat /\ i * D < s /\ (i * D) \div D = i
  <2>1. (i + 1) * D <= n * D /\ (i + 1) * D = i * D + D /\ i * D \in Nat
    BY <1>1, <1>3
  <2>2. i * D < s
    BY <1>1, <2>1
  <2> DEFINE k == i * D
  <2>3. k \in Nat /\ i * D <= k /\ k < i * D + D
    BY <2>1
  <2> HIDE DEF k
  <2>4. k \div D = i
    BY <2>3, DivIs
  <2> QED
    BY <2>1, <2>2, <2>4 DEF k
<1> QED
  BY <1>1, <1>2, <1>3 DEF n

(* From a page boundary on, pg_map goes through the pages that have a byte. *)
LEMMA TouchedIs ==
    ASSUME NEW range \in Nat \X Nat, range[1] % PageBytes = 0
    PROVE  Touched(range) = PagesOf(range)
<1> DEFINE D == PageBytes
<1>1. D \in Nat \ {0}
  BY RvMmuAssumption
<1>2. PICK at \in Nat, s \in Nat : at = range[1] /\ s = range[2]
  OBVIOUS
<1> HIDE DEF D
<1>3. PICK q \in Nat : q = at \div D /\ at = q * D
  BY <1>1, <1>2 DEF D
<1>4. PICK n \in Nat : n = (s + D - 1) \div D
  BY <1>1, RoundUp
<1>5. Touched(range) = q..(q + n - 1)
  BY <1>2, <1>3, <1>4 DEF Touched, D
<1>6. PagesOf(range) = {(at + i) \div D : i \in 0..(s - 1)}
  BY <1>2 DEF PagesOf, D
<1>7. ASSUME NEW p \in PagesOf(range) PROVE p \in Touched(range)
  <2>1. PICK i \in 0..(s - 1) : p = (at + i) \div D
    BY <1>6
  <2>2. i \in Nat /\ i < s
    BY <1>2
  <2>0. (q * D + i) \div D = q + (i \div D)
    BY <1>1, <2>2, DivAdd
  <2>3. p = q + (i \div D)
    BY ONLY <1>3, <2>1, <2>0
  <2>4. i \div D < n /\ i \div D \in Nat
    BY <1>1, <1>4, <2>2, RoundUp
  <2> QED
    BY <1>5, <2>3, <2>4
<1>8. ASSUME NEW p \in Touched(range) PROVE p \in PagesOf(range)
  <2>1. PICK i \in Nat : i = p - q /\ i < n
    BY <1>5
  <2>2. i * D \in Nat /\ i * D < s /\ (i * D) \div D = i
    BY <1>1, <1>4, <2>1, RoundUp
  <2>3. PICK j \in 0..(s - 1) : j = i * D /\ j \div D = i /\ j \in Nat
    BY <2>2
  <2>0. (q * D + j) \div D = q + (j \div D)
    BY <1>1, <2>3, DivAdd
  <2>4. (at + j) \div D = q + (j \div D)
    BY ONLY <1>3, <2>0
  <2>5. (at + j) \div D = p
    BY <1>5, <2>1, <2>3, <2>4
  <2> QED
    BY <1>6, <2>5
<1> QED
  BY <1>7, <1>8

(* A sequence of one.                                                       *)
LEMMA OneIs ==
    ASSUME NEW D, NEW u \in D
    PROVE  \E q \in Seq(D) : q = <<u>> /\ q[1] = u /\ Len(q) = 1
<1>1. <<u>> \in Seq(D) /\ Len(<<u>>) = 1 /\ <<u>>[1] = u
  OBVIOUS
<1> QED
  BY <1>1

(* A call of pg_map, and one of pg_map_huge.                                *)
LEMMA PageCallIs ==
    ASSUME NEW root \in Roots, NEW p \in VaPages, NEW c, c = PgCall(root, 3, p, p)
    PROVE  /\ c \in Calls /\ c.path = <<root>> /\ c.path[1] = root /\ c.end = 3 /\ c.va = p /\ c.pa = p
           /\ Nth(c.va, 3) = p /\ Nth(c.va, 2) = p \div Fan /\ Orig(c) = c
<1>1. root \in Nat /\ p \in Nat
  BY FramesAre, LevelSpanIs
<1>2. PICK q \in Seq(Nat) : q = <<root>> /\ q[1] = root
  BY <1>1, OneIs
<1>3. c = [end |-> 3, va |-> p, pa |-> p, path |-> q]
  BY <1>2 DEF PgCall
<1>4. c \in Calls /\ c.path = q /\ c.end = 3 /\ c.va = p /\ c.pa = p
  BY <1>1, <1>3 DEF Calls
<1>5. Orig(c) = c
  BY <1>2, <1>3, <1>4 DEF Orig, PgCall
<1> QED
  BY <1>2, <1>4, <1>5, LastDigits

(* The numbers of the direct mapping: its blocks are whole, and within the  *)
(* tables.                                                                  *)
LEMMA BlocksAre ==
    /\ BlockBytes \in Nat \ {0} /\ RvDirect[1] \div BlockBytes \in Nat /\ RvDirect[2] \div BlockBytes \in Nat
    /\ \A b \in DirectBlocks : /\ b \in Nat /\ b - RvDirect[1] \div BlockBytes \in Nat
                               /\ b * Fan \in VaPages /\ (b * Fan) \div Fan = b
<1>1. Fan \in Nat \ {0} /\ PageBytes \in Nat \ {0}
  BY LevelSpanIs, RvMmuAssumption
<1>2. BlockBytes \in Nat \ {0}
  BY <1>1 DEF BlockBytes
<1>3. RvDirect[1] \in Nat /\ RvDirect[2] \in Nat /\ RvDirect[3] \in Nat
  BY RvLayoutAssumption
<1>4. PICK f \in Nat : f = RvDirect[1] \div BlockBytes
  BY <1>2, <1>3
<1>5. PICK g \in Nat : g = RvDirect[2] \div BlockBytes
  BY <1>2, <1>3
<1>6. PICK n \in Nat : n = (RvDirect[3] + BlockBytes - 1) \div BlockBytes
  BY <1>2, <1>3, RoundUp
<1>7. DirectBlocks = f..(f + n - 1)
  BY <1>4, <1>6 DEF DirectBlocks
<1>8. ASSUME NEW b \in DirectBlocks PROVE b \in Nat /\ b - f \in Nat /\ b * Fan \in VaPages /\ (b * Fan) \div Fan = b
  <2>1. b \in Nat /\ b - f \in Nat
    BY <1>7
  <2>2. b * Fan + Fan - 1 \in VaPages
    BY RvLayoutAssumption
  <2>3. PICK k \in Nat : k = b * Fan
    BY <1>1, <2>1
  <2>4. k + Fan - 1 \in VaPages
    BY <2>2, <2>3
  <2>5. k \in VaPages
    <3> DEFINE D == Fan * LevelSpan(0)
    <3>1. D \in Nat \ {0}
      BY LevelSpanIs
    <3>2. VaPages = 0..(D - 1)
      BY DEF VaPages
    <3> HIDE DEF D
    <3> QED
      BY <1>1, <2>4, <3>1, <3>2
  <2>6. b * Fan <= k /\ k < b * Fan + Fan
    BY <1>1, <2>3
  <2>7. k \div Fan = b
    BY <1>1, <2>1, <2>6, DivIs
  <2> QED
    BY <2>1, <2>3, <2>5, <2>7
<1> QED
  BY <1>2, <1>4, <1>5, <1>8

(* A call of pg_map_huge.                                                   *)
LEMMA BlockCallIs ==
    ASSUME NEW b \in DirectBlocks, NEW c, c = BlockCall(b)
    PROVE  /\ c \in Calls /\ c.path = <<HostRoot>> /\ c.path[1] = HostRoot /\ c.end = 2 /\ c.va = b * Fan
           /\ c.pa = (RvDirect[2] \div BlockBytes + (b - RvDirect[1] \div BlockBytes)) * Fan
           /\ Nth(c.va, 2) = b /\ Orig(c) = c
<1>1. HostRoot \in Nat /\ Fan \in Nat
  BY FramesAre, LevelSpanIs DEF Roots
<1>2. PICK v \in VaPages : v = b * Fan /\ v \div Fan = b
  BY BlocksAre
<1>3. PICK h \in Nat : h = RvDirect[2] \div BlockBytes + (b - RvDirect[1] \div BlockBytes)
  BY BlocksAre
<1>4. PICK pa \in Nat : pa = h * Fan
  BY <1>1
<1>5. PICK q \in Seq(Nat) : q = <<HostRoot>> /\ q[1] = HostRoot
  BY <1>1, OneIs
<1>6. c = [end |-> 2, va |-> v, pa |-> pa, path |-> q]
  BY <1>2, <1>3, <1>4, <1>5 DEF PgCall, BlockCall
<1>7. c \in Calls /\ c.path = q /\ c.end = 2 /\ c.va = v /\ c.pa = pa
  BY <1>6 DEF Calls
<1>8. Orig(c) = c
  BY <1>5, <1>6, <1>7 DEF Orig, PgCall
<1>9. Nth(c.va, 2) = b
  BY <1>2, <1>7, LastDigits
<1> QED
  BY <1>2, <1>3, <1>4, <1>5, <1>7, <1>8, <1>9

(* Everything the boot lays.                                                *)
AllLaid(ram) == HostLaid \cup GuestLaid(ram)
HostRanges == {RvImage, RvUart, RvPlic}

(* The host's pages are within the tables and outside the direct mapping.   *)
LEMMA HostTouched ==
    ASSUME NEW range \in HostRanges, NEW p \in Touched(range)
    PROVE  p \in VaPages /\ p \div Fan \notin DirectBlocks /\ p \in PagesOf(range)
<1>1. range \in Nat \X Nat /\ range[1] % PageBytes = 0
  BY RvLayoutAssumption DEF HostRanges
<1>2. p \in PagesOf(range)
  BY <1>1, TouchedIs
<1> QED
  BY <1>2, RvLayoutAssumption DEF HostRanges

(* A call is for a page of the guest, a page of the host or a block.        *)
LEMMA LaidIs ==
    ASSUME NEW ram, Fits(ram), NEW c \in AllLaid(ram)
    PROVE  \/ \E p \in VaPages : c = PgCall(Stage2Root, 3, p, p) /\ p \in Touched(ram)
           \/ \E p \in VaPages : c = PgCall(HostRoot, 3, p, p) /\ p \div Fan \notin DirectBlocks
           \/ \E b \in DirectBlocks : c = BlockCall(b)
<1>1. CASE c \in GuestLaid(ram)
  BY <1>1 DEF GuestLaid, PagesLaid, Fits
<1>2. CASE c \in BlocksLaid
  BY <1>2 DEF BlocksLaid
<1>3. ASSUME NEW range \in HostRanges, c \in PagesLaid(HostRoot, range)
      PROVE  \E p \in VaPages : c = PgCall(HostRoot, 3, p, p) /\ p \div Fan \notin DirectBlocks
  <2>1. PICK p \in Touched(range) : c = PgCall(HostRoot, 3, p, p)
    BY <1>3 DEF PagesLaid
  <2> QED
    BY <2>1, HostTouched
<1> QED
  BY <1>1, <1>2, <1>3 DEF AllLaid, HostLaid, HostRanges

(* No two of the boot's calls contradict each other.                        *)
LEMMA PlanIs ==
    ASSUME NEW ram, Fits(ram)
    PROVE  Plan(AllLaid(ram))
<1> DEFINE Guest(c) == \E p \in VaPages : c = PgCall(Stage2Root, 3, p, p)
           Host(c)  == \E p \in VaPages : c = PgCall(HostRoot, 3, p, p) /\ p \div Fan \notin DirectBlocks
           Blk(c)   == \E b \in DirectBlocks : c = BlockCall(b)
<1>1. \A c \in AllLaid(ram) : Guest(c) \/ Host(c) \/ Blk(c)
  BY LaidIs
<1>2. HostRoot \in Roots /\ Stage2Root \in Roots /\ HostRoot # Stage2Root
  BY FramesAre DEF Roots
<1>3. \A c : Guest(c) => /\ c \in Calls /\ c.path[1] = Stage2Root /\ c.end = 3 /\ c.va = c.pa /\ Nth(c.va, 3) = c.va
  BY <1>2, PageCallIs
<1>4. \A c : Host(c) => /\ c \in Calls /\ c.path[1] = HostRoot /\ c.end = 3 /\ c.va = c.pa /\ Nth(c.va, 3) = c.va
                        /\ Nth(c.va, 2) \notin DirectBlocks
  BY <1>2, PageCallIs
<1>5. \A c : Blk(c) => /\ c \in Calls /\ c.path[1] = HostRoot /\ c.end = 2 /\ Nth(c.va, 2) \in DirectBlocks
                       /\ c = BlockCall(Nth(c.va, 2))
  BY BlockCallIs
<1> HIDE DEF Guest, Host, Blk
<1>6. AllLaid(ram) \subseteq Calls /\ \A c \in AllLaid(ram) : c.path[1] \in Roots
  BY <1>1, <1>2, <1>3, <1>4, <1>5
<1>7. ASSUME NEW c \in AllLaid(ram), NEW d \in AllLaid(ram), c.path[1] = d.path[1], c.end = d.end, Nth(c.va, c.end) = Nth(d.va, c.end)
      PROVE  c.pa = d.pa
  <2>0. 2 # 3
    OBVIOUS
  <2>1. CASE c.end = 3
    <3>1. (Guest(c) \/ Host(c)) /\ (Guest(d) \/ Host(d))
      BY ONLY <1>1, <1>5, <1>7, <2>0, <2>1
    <3>2. Nth(c.va, 3) = c.va /\ Nth(d.va, 3) = d.va /\ c.va = c.pa /\ d.va = d.pa
      BY ONLY <1>3, <1>4, <3>1
    <3> QED
      BY ONLY <1>7, <2>1, <3>2
  <2>2. CASE c.end = 2
    <3>1. Blk(c) /\ Blk(d)
      BY ONLY <1>1, <1>3, <1>4, <1>7, <2>0, <2>2
    <3>2. c = d
      BY <1>5, <1>7, <2>2, <3>1
    <3> QED
      BY <3>2
  <2> QED
    BY <1>1, <1>3, <1>4, <1>5, <2>1, <2>2
<1>8. ASSUME NEW c \in AllLaid(ram), NEW d \in AllLaid(ram), c.path[1] = d.path[1], c.end = 3, d.end = 2
      PROVE  Nth(c.va, 2) # Nth(d.va, 2)
  <2>1. Blk(d)
    BY <1>1, <1>3, <1>4, <1>8
  <2>2. Host(c)
    BY <1>1, <1>2, <1>3, <1>5, <1>8, <2>1
  <2> QED
    BY <1>4, <1>5, <2>1, <2>2
<1> QED
  BY <1>6, <1>7, <1>8 DEF Plan

(* What is planned is planned in part too.                                  *)
LEMMA PlanPart ==
    ASSUME NEW laid, Plan(laid), NEW part \in SUBSET laid
    PROVE  Plan(part)
BY DEF Plan

(* Calls that begin at a root, and what they ask for.                       *)
Starts(s, A) ==
    /\ s \in Seq(Calls) /\ \A i \in 1..Len(s) : s[i] \in A /\ Orig(s[i]) = s[i] /\ \E r \in Roots : s[i].path = <<r>>
    /\ \A c \in A : \E i \in 1..Len(s) : s[i] = c

(* A call that has just begun asks for itself.                              *)
LEMMA StartsAsked ==
    ASSUME NEW s, NEW A, Starts(s, A)
    PROVE  A = {Orig(s[i]) : i \in 1..Len(s)}
BY DEF Starts

(* A function on 1..n is a sequence.                                        *)
LEMMA ListIs ==
    ASSUME NEW D, NEW n \in Nat, NEW s \in [1..n -> D]
    PROVE  s \in Seq(D) /\ Len(s) = n
OBVIOUS

(* Two sequences, one after the other.                                      *)
LEMMA ConcatIs ==
    ASSUME NEW D, NEW s \in Seq(D), NEW t \in Seq(D)
    PROVE  /\ s \o t \in Seq(D) /\ Len(s \o t) = Len(s) + Len(t) /\ Len(s) \in Nat /\ Len(t) \in Nat
           /\ \A i \in 1..Len(s \o t) : (s \o t)[i] = IF i <= Len(s) THEN s[i] ELSE t[i - Len(s)]
OBVIOUS

(* Calls after calls ask for what both ask for.                             *)
LEMMA StartsConcat ==
    ASSUME NEW s, NEW t, NEW A, NEW B, Starts(s, A), Starts(t, B)
    PROVE  Starts(s \o t, A \cup B)
<1>1. s \in Seq(Calls) /\ t \in Seq(Calls)
  BY DEF Starts
<1>2. PICK k \in Nat, l \in Nat, q \in Seq(Calls) :
       /\ q = s \o t /\ k = Len(s) /\ l = Len(t) /\ Len(q) = k + l
       /\ \A i \in 1..Len(q) : q[i] = IF i <= k THEN s[i] ELSE t[i - k]
  <2>1. /\ s \o t \in Seq(Calls) /\ Len(s \o t) = Len(s) + Len(t) /\ Len(s) \in Nat /\ Len(t) \in Nat
        /\ \A i \in 1..Len(s \o t) : (s \o t)[i] = IF i <= Len(s) THEN s[i] ELSE t[i - Len(s)]
    BY <1>1, ConcatIs
  <2>2. PICK k, l, q : k = Len(s) /\ l = Len(t) /\ q = s \o t
    OBVIOUS
  <2> QED
    BY ONLY <2>1, <2>2
<1>3. ASSUME NEW i \in 1..Len(q) PROVE q[i] \in A \cup B /\ Orig(q[i]) = q[i] /\ \E r \in Roots : q[i].path = <<r>>
  <2>1. CASE i <= k
    <3>1. i \in 1..Len(s) /\ q[i] = s[i]
      BY <1>2, <2>1
    <3> QED
      BY <3>1 DEF Starts
  <2>2. CASE ~(i <= k)
    <3>1. i - k \in 1..Len(t) /\ q[i] = t[i - k]
      BY <1>2, <2>2
    <3> QED
      BY <3>1 DEF Starts
  <2> QED
    BY <2>1, <2>2
<1>4. ASSUME NEW c \in A \cup B PROVE \E i \in 1..Len(q) : q[i] = c
  <2>1. CASE c \in A
    <3>1. PICK i \in 1..Len(s) : s[i] = c
      BY <2>1 DEF Starts
    <3>2. i \in 1..Len(q) /\ i <= k
      BY <1>2
    <3> QED
      BY <1>2, <3>1, <3>2
  <2>2. CASE c \in B
    <3>1. PICK i \in 1..Len(t) : t[i] = c
      BY <2>2 DEF Starts
    <3>2. i + k \in 1..Len(q) /\ ~(i + k <= k) /\ (i + k) - k = i
      BY <1>2
    <3>3. q[i + k] = t[i]
      BY <1>2, <3>2
    <3> QED
      BY <3>1, <3>2, <3>3
  <2> QED
    BY <2>1, <2>2
<1> QED
  BY <1>2, <1>3, <1>4 DEF Starts

(* pg_map goes through the pages of a range.                                *)
LEMMA PgMapStarts ==
    ASSUME NEW root \in Roots, NEW range, Fits(range)
    PROVE  Starts(PgMap(root, range[1], range[1], range[2]), PagesLaid(root, range))
<1>1. PICK at \in Nat, size \in Nat : at = range[1] /\ size = range[2]
  BY DEF Fits
<1>2. PageBytes \in Nat \ {0}
  BY RvMmuAssumption
<1>3. PICK f \in Nat : f = at \div PageBytes
  BY <1>2
<1>4. PICK n \in Nat : n = (size + PageBytes - 1) \div PageBytes
  BY <1>2, RoundUp
<1>5. Touched(range) = f..(f + n - 1) /\ Touched(range) \subseteq VaPages
  BY <1>1, <1>3, <1>4 DEF Touched, Fits
<1>6. PICK s : s = [i \in 1..n |-> PgCall(root, 3, f + i - 1, f + i - 1)]
  OBVIOUS
<1>7. s = PgMap(root, range[1], range[1], range[2])
  BY <1>1, <1>3, <1>4, <1>6 DEF PgMap
<1>8. ASSUME NEW i \in 1..n
      PROVE  /\ s[i] \in Calls /\ Orig(s[i]) = s[i] /\ s[i].path = <<root>> /\ s[i] \in PagesLaid(root, range)
  <2>1. PICK p \in VaPages : p = f + i - 1 /\ p \in Touched(range)
    BY <1>5
  <2>2. s[i] = PgCall(root, 3, p, p)
    BY <1>6, <2>1
  <2>3. s[i] \in PagesLaid(root, range)
    BY <2>1, <2>2 DEF PagesLaid
  <2> QED
    BY <2>2, <2>3, PageCallIs
<1>9. s \in Seq(Calls) /\ Len(s) = n
  <2>1. s \in [1..n -> Calls]
    BY <1>6, <1>8
  <2> QED
    BY <2>1, ListIs
<1>10. ASSUME NEW c \in PagesLaid(root, range) PROVE \E i \in 1..n : s[i] = c
  <2>1. PICK p \in Touched(range) : c = PgCall(root, 3, p, p)
    BY DEF PagesLaid
  <2>2. PICK i \in 1..n : p = f + i - 1
    <3>1. p - f + 1 \in 1..n /\ p = f + (p - f + 1) - 1
      BY <1>5
    <3> QED
      BY <3>1
  <2> QED
    BY <1>6, <2>1, <2>2
<1> QED
  BY <1>7, <1>8, <1>9, <1>10 DEF Starts

(* pg_map_huge goes through the blocks of the direct mapping.               *)
LEMMA PgMapHugeStarts == Starts(PgMapHuge(HostRoot, RvDirect[1], RvDirect[2], RvDirect[3]), BlocksLaid)
<1>1. PICK f \in Nat, g \in Nat : f = RvDirect[1] \div BlockBytes /\ g = RvDirect[2] \div BlockBytes
  BY BlocksAre
<1>2. PICK n \in Nat : n = (RvDirect[3] + BlockBytes - 1) \div BlockBytes
  <2>1. RvDirect[3] \in Nat
    BY RvLayoutAssumption
  <2> QED
    BY <2>1, BlocksAre, RoundUp
<1>3. DirectBlocks = f..(f + n - 1)
  BY <1>1, <1>2 DEF DirectBlocks
<1>4. PICK s : s = [i \in 1..n |-> PgCall(HostRoot, 2, (f + i - 1) * Fan, (g + i - 1) * Fan)]
  OBVIOUS
<1>5. s = PgMapHuge(HostRoot, RvDirect[1], RvDirect[2], RvDirect[3])
  BY <1>1, <1>2, <1>4 DEF PgMapHuge
<1>6. ASSUME NEW i \in 1..n PROVE f + i - 1 \in DirectBlocks /\ s[i] = BlockCall(f + i - 1)
  <2>1. f + i - 1 \in DirectBlocks
    BY <1>3
  <2>2. g + ((f + i - 1) - f) = g + i - 1
    OBVIOUS
  <2> QED
    BY <1>1, <1>4, <2>1, <2>2 DEF BlockCall
<1>7. ASSUME NEW i \in 1..n PROVE s[i] \in Calls /\ Orig(s[i]) = s[i] /\ s[i].path = <<HostRoot>> /\ s[i] \in BlocksLaid
  <2>1. PICK b \in DirectBlocks : s[i] = BlockCall(b)
    BY <1>6
  <2>2. s[i] \in BlocksLaid
    BY <2>1 DEF BlocksLaid
  <2> QED
    BY <2>1, <2>2, BlockCallIs
<1>8. s \in Seq(Calls) /\ Len(s) = n
  <2>1. s \in [1..n -> Calls]
    BY <1>4, <1>7
  <2> QED
    BY <2>1, ListIs
<1>9. ASSUME NEW c \in BlocksLaid PROVE \E i \in 1..n : s[i] = c
  <2>1. PICK b \in DirectBlocks : c = BlockCall(b)
    BY DEF BlocksLaid
  <2>2. PICK i \in 1..n : b = f + i - 1
    <3>1. b - f + 1 \in 1..n /\ b = f + (b - f + 1) - 1
      BY <1>3
    <3> QED
      BY <3>1
  <2> QED
    BY <1>6, <2>1, <2>2
<1>10. HostRoot \in Roots
  BY DEF Roots
<1> QED
  BY <1>5, <1>7, <1>8, <1>9, <1>10 DEF Starts

(* init_mm makes the host's calls.                                          *)
LEMMA HostStarts ==
    Starts(PgMap(HostRoot, RvImage[1], RvImage[1], RvImage[2])
             \o PgMap(HostRoot, RvUart[1], RvUart[1], RvUart[2])
             \o PgMap(HostRoot, RvPlic[1], RvPlic[1], RvPlic[2])
             \o PgMapHuge(HostRoot, RvDirect[1], RvDirect[2], RvDirect[3]), HostLaid)
<1>1. HostRoot \in Roots
  BY DEF Roots
<1>2. \A range \in HostRanges : Fits(range)
  BY HostTouched, RvLayoutAssumption DEF Fits, HostRanges
<1>3. \A range \in HostRanges : Starts(PgMap(HostRoot, range[1], range[1], range[2]), PagesLaid(HostRoot, range))
  BY <1>1, <1>2, PgMapStarts
<1>4. PICK a, b, c, d :
       /\ a = PgMap(HostRoot, RvImage[1], RvImage[1], RvImage[2]) /\ b = PgMap(HostRoot, RvUart[1], RvUart[1], RvUart[2])
       /\ c = PgMap(HostRoot, RvPlic[1], RvPlic[1], RvPlic[2])
       /\ d = PgMapHuge(HostRoot, RvDirect[1], RvDirect[2], RvDirect[3])
  OBVIOUS
<1>5. PICK A, B, C, D : /\ A = PagesLaid(HostRoot, RvImage) /\ B = PagesLaid(HostRoot, RvUart)
                        /\ C = PagesLaid(HostRoot, RvPlic) /\ D = BlocksLaid
  OBVIOUS
<1>6. Starts(a, A) /\ Starts(b, B) /\ Starts(c, C) /\ Starts(d, D)
  BY <1>3, <1>4, <1>5, PgMapHugeStarts DEF HostRanges
<1>7. Starts(a \o b, A \cup B)
  BY <1>6, StartsConcat
<1>8. Starts((a \o b) \o c, (A \cup B) \cup C)
  BY <1>6, <1>7, StartsConcat
<1>9. Starts(((a \o b) \o c) \o d, ((A \cup B) \cup C) \cup D)
  BY <1>6, <1>8, StartsConcat
<1> QED
  BY <1>4, <1>5, <1>9 DEF HostLaid

-----------------------------------------------------------------------------
(* RISC-V: what the walk finds                                              *)

(* The walk has read the entry of a level.                                  *)
AtLevel(m, T, own, r, va, s, l) ==
    \E t \in T : own[t] = <<r, l, Pre(va, l)>> /\ s = [e |-> m.tbl[t][Index(va, l)], span |-> LevelSpan(l)]

(* A table of a level on the way to a page, and what its entry may be.      *)
Place(T, own, r, va, l, t) == t \in T /\ l \in 0..3 /\ own[t] = <<r, l, Pre(va, l)>>
Found(T, own, laid, r, va, l, e) ==
    /\ e \in Entries
    /\ Leads(e) => l < 3 /\ e.base \in T /\ own[e.base] = <<r, l + 1, Nth(va, l)>>
    /\ Leaf(e) => LaidAt(laid, r, l, Nth(va, l), e.base)

(* An entry on the way to a page leads to the next table of that way, or is *)
(* what was asked for there.                                                *)
LEMMA AtLevelIs ==
    ASSUME NEW m, NEW T, NEW own, NEW laid, Grove(m, T, own, laid), NEW r, NEW va \in VaPages, NEW l, NEW t,
           Place(T, own, r, va, l, t)
    PROVE  Found(T, own, laid, r, va, l, m.tbl[t][Index(va, l)])
<1>a. t \in T /\ l \in 0..3 /\ own[t] = <<r, l, Pre(va, l)>>
  BY DEF Place
<1>b. PICK e : e = m.tbl[t][Index(va, l)]
  OBVIOUS
<1>1. m \in PgMem /\ Keyed(T, own) /\ Linked(m, T, own) /\ Asked(m, T, own, laid)
  BY DEF Grove
<1>2. PICK x \in Slots : x = Index(va, l)
  BY <1>a, Digits DEF Slots
<1>3. Nth(va, l) = Pre(va, l) * Fan + x /\ Pre(va, l) \in Nat
  BY <1>a, <1>2, Digits
<1>4. own[t][1] = r /\ own[t][2] = l /\ own[t][3] = Pre(va, l)
  BY <1>a
<1>5. t \in Frames
  BY <1>a, <1>1 DEF Keyed
<1>6. e \in Entries
  BY <1>b, <1>1, <1>2, <1>5 DEF PgMem
<1>7. ASSUME Leads(e) PROVE l < 3 /\ e.base \in T /\ own[e.base] = <<r, l + 1, Nth(va, l)>>
  <2>1. e.base \in T /\ own[e.base] = <<own[t][1], own[t][2] + 1, own[t][3] * Fan + x>>
    BY <1>a, <1>b, <1>1, <1>2, <1>7 DEF Linked
  <2>2. own[e.base] = <<r, l + 1, Nth(va, l)>>
    BY <1>3, <1>4, <2>1
  <2>3. own[e.base] \in Roots \X (0..3) \X Nat
    BY <1>1, <2>1 DEF Keyed
  <2>4. l + 1 \in 0..3
    BY <1>a, <2>2, <2>3
  <2> QED
    BY <1>a, <2>1, <2>2, <2>4
<1>8. ASSUME Leaf(e) PROVE LaidAt(laid, r, l, Nth(va, l), e.base)
  <2>1. LaidAt(laid, own[t][1], own[t][2], own[t][3] * Fan + x, e.base)
    BY <1>a, <1>b, <1>1, <1>2, <1>8 DEF Asked
  <2> QED
    BY <1>3, <1>4, <2>1
<1> QED
  BY <1>b, <1>6, <1>7, <1>8 DEF Found

(* A level of the walk.                                                     *)
LEMMA WalkDown ==
    ASSUME NEW m, NEW T, NEW own, NEW laid, Grove(m, T, own, laid), NEW r, NEW va \in VaPages, NEW l \in 0..2,
           NEW s, AtLevel(m, T, own, r, va, s, l), NEW k, k = PtwStep(m, va, s, l + 1)
    PROVE  \/ Leads(s.e) /\ AtLevel(m, T, own, r, va, k, l + 1)
           \/ ~Leads(s.e) /\ k = s
<1>1. PICK t \in T : own[t] = <<r, l, Pre(va, l)>> /\ s = [e |-> m.tbl[t][Index(va, l)], span |-> LevelSpan(l)]
  BY DEF AtLevel
<1>2. s.e = m.tbl[t][Index(va, l)]
  BY <1>1
<1>3. Leads(s.e) => s.e.base \in T /\ own[s.e.base] = <<r, l + 1, Nth(va, l)>>
  <2>1. Place(T, own, r, va, l, t)
    BY <1>1 DEF Place
  <2>2. Found(T, own, laid, r, va, l, m.tbl[t][Index(va, l)])
    BY <2>1, AtLevelIs
  <2> QED
    BY <1>2, <2>2 DEF Found
<1>4. Pre(va, l + 1) = Nth(va, l)
  BY DEF Pre
<1>5. CASE Leads(s.e)
  <2>1. k = [e |-> m.tbl[s.e.base][Index(va, l + 1)], span |-> LevelSpan(l + 1)]
    BY <1>5 DEF PtwStep, Leads
  <2> QED
    BY <1>3, <1>4, <1>5, <2>1 DEF AtLevel
<1>6. CASE ~Leads(s.e)
  BY <1>6 DEF PtwStep, Leads
<1> QED
  BY <1>5, <1>6

(* Once it does not lead on, the walk stays.                                *)
LEMMA WalkStays ==
    ASSUME NEW m, NEW va, NEW l, NEW s, ~Leads(s.e)
    PROVE  PtwStep(m, va, s, l) = s
BY DEF PtwStep, Leads

(* Where the walk ends.                                                     *)
WalksTo(m, T, own, r, va, t, l, e) ==
    /\ t \in T /\ l \in 0..3 /\ own[t] = <<r, l, Pre(va, l)>> /\ e = m.tbl[t][Index(va, l)] /\ ~Leads(e)
    /\ PtwWalk(m, r, va) = IF Leaf(e) THEN <<e.base + (va % LevelSpan(l))>> ELSE <<>>

(* The walk ends at an entry that leads nowhere.                            *)
LEMMA WalkEnd ==
    ASSUME NEW m, NEW T, NEW own, NEW laid, Grove(m, T, own, laid), NEW r \in Roots, NEW va \in VaPages
    PROVE  \E t, l, e : WalksTo(m, T, own, r, va, t, l, e)
<1>0. Keyed(T, own) /\ r \in Nat
  BY FramesAre DEF Grove
<1>1. own[r] = <<r, 0, Pre(va, 0)>> /\ r \in T
  BY <1>0 DEF Keyed, Pre
<1>2. PICK a : a = PtwStep(m, va, [e |-> MakePgEntry(r), span |-> 0], 0)
  OBVIOUS
<1>3. AtLevel(m, T, own, r, va, a, 0)
  <2>1. PICK z : z = [e |-> MakePgEntry(r), span |-> 0]
    OBVIOUS
  <2>2. z.e = MakePgEntry(r) /\ z.e.valid /\ z.e.table /\ z.e.base = r
    BY <2>1 DEF MakePgEntry
  <2>3. a = [e |-> m.tbl[r][Index(va, 0)], span |-> LevelSpan(0)]
    BY <1>2, <2>1, <2>2 DEF PtwStep
  <2> QED
    BY <1>1, <2>3 DEF AtLevel
<1>4. PICK b : b = PtwStep(m, va, a, 1)
  OBVIOUS
<1>5. PICK c : c = PtwStep(m, va, b, 2)
  OBVIOUS
<1>6. PICK d : d = PtwStep(m, va, c, 3)
  OBVIOUS
<1>7. PtwWalk(m, r, va) = IF d.e.valid /\ ~d.e.table THEN <<d.e.base + (va % d.span)>> ELSE <<>>
  BY <1>2, <1>4, <1>5, <1>6 DEF PtwWalk
<1>8. \E l \in 0..3 : AtLevel(m, T, own, r, va, d, l) /\ ~Leads(d.e)
  <2>1. CASE ~Leads(a.e)
    BY <1>3, <1>4, <1>5, <1>6, <2>1, WalkStays
  <2>2. CASE Leads(a.e)
    <3>1. AtLevel(m, T, own, r, va, b, 1)
      <4>1. b = PtwStep(m, va, a, 0 + 1)
        BY <1>4
      <4> QED
        BY <1>3, <2>2, <4>1, WalkDown
    <3>2. CASE ~Leads(b.e)
      BY <1>5, <1>6, <3>1, <3>2, WalkStays
    <3>3. CASE Leads(b.e)
      <4>1. AtLevel(m, T, own, r, va, c, 2)
        <5>1. c = PtwStep(m, va, b, 1 + 1)
          BY <1>5
        <5> QED
          BY <3>1, <3>3, <5>1, WalkDown
      <4>2. CASE ~Leads(c.e)
        BY <1>6, <4>1, <4>2, WalkStays
      <4>3. CASE Leads(c.e)
        <5>1. AtLevel(m, T, own, r, va, d, 3)
          <6>1. d = PtwStep(m, va, c, 2 + 1)
            BY <1>6
          <6> QED
            BY <4>1, <4>3, <6>1, WalkDown
        <5>2. PICK t \in T : own[t] = <<r, 3, Pre(va, 3)>> /\ d.e = m.tbl[t][Index(va, 3)]
          BY <5>1 DEF AtLevel
        <5>3. ~Leads(d.e)
          <6>1. Place(T, own, r, va, 3, t)
            BY <5>2 DEF Place
          <6>2. Found(T, own, laid, r, va, 3, m.tbl[t][Index(va, 3)])
            BY <6>1, AtLevelIs
          <6> QED
            BY <5>2, <6>2 DEF Found
        <5> QED
          BY <5>1, <5>3
      <4> QED
        BY <4>2, <4>3
    <3> QED
      BY <3>2, <3>3
  <2> QED
    BY <2>1, <2>2
<1>9. PICK l \in 0..3 : AtLevel(m, T, own, r, va, d, l) /\ ~Leads(d.e)
  BY <1>8
<1>10. PICK t \in T : own[t] = <<r, l, Pre(va, l)>> /\ d = [e |-> m.tbl[t][Index(va, l)], span |-> LevelSpan(l)]
  BY <1>9 DEF AtLevel
<1>11. d.e = m.tbl[t][Index(va, l)] /\ d.span = LevelSpan(l)
  BY <1>10
<1>12. PtwWalk(m, r, va) = IF Leaf(d.e) THEN <<d.e.base + (va % LevelSpan(l))>> ELSE <<>>
  BY <1>7, <1>11 DEF Leaf
<1>13. WalksTo(m, T, own, r, va, t, l, d.e)
  BY <1>9, <1>10, <1>11, <1>12 DEF WalksTo
<1> QED
  BY <1>13

(* A walk that does not fault ends at something that was asked for.         *)
LEMMA WalkSound ==
    ASSUME NEW m, NEW T, NEW own, NEW laid, Grove(m, T, own, laid), NEW r \in Roots, NEW va \in VaPages,
           PtwWalk(m, r, va) # <<>>
    PROVE  \E c \in laid : c.path[1] = r /\ Nth(c.va, c.end) = Nth(va, c.end)
<1>1. PICK t, l, e :
        /\ t \in T /\ l \in 0..3
        /\ own[t] = <<r, l, Pre(va, l)>> /\ e = m.tbl[t][Index(va, l)] /\ ~Leads(e)
        /\ PtwWalk(m, r, va) = IF Leaf(e) THEN <<e.base + (va % LevelSpan(l))>> ELSE <<>>
  <2>1. PICK t, l, e : WalksTo(m, T, own, r, va, t, l, e)
    BY WalkEnd
  <2>2. /\ t \in T /\ l \in 0..3 /\ own[t] = <<r, l, Pre(va, l)>> /\ e = m.tbl[t][Index(va, l)] /\ ~Leads(e)
        /\ PtwWalk(m, r, va) = IF Leaf(e) THEN <<e.base + (va % LevelSpan(l))>> ELSE <<>>
    BY <2>1 DEF WalksTo
  <2> QED
    BY ONLY <2>2, Zenon
<1>2. Leaf(e)
  BY <1>1
<1>3. LaidAt(laid, r, l, Nth(va, l), e.base)
  <2>1. Place(T, own, r, va, l, t)
    BY <1>1 DEF Place
  <2>2. Found(T, own, laid, r, va, l, m.tbl[t][Index(va, l)])
    BY <2>1, AtLevelIs
  <2> QED
    BY <1>1, <1>2, <2>2 DEF Found
<1> QED
  BY <1>3 DEF LaidAt

(* The table above a table.                                                 *)
LEMMA ParentAt ==
    ASSUME NEW m, NEW T, NEW own, Keyed(T, own), Linked(m, T, own), NEW r, NEW va \in VaPages,
           NEW l \in 0..2, NEW s, Place(T, own, r, va, l + 1, s)
    PROVE  \E p : Place(T, own, r, va, l, p) /\ Leads(m.tbl[p][Index(va, l)])
<1>1. Pre(va, l + 1) = Nth(va, l)
  BY DEF Pre
<1>2. s \in T /\ own[s] = <<r, l + 1, Nth(va, l)>>
  BY <1>1 DEF Place
<1>3. own[s][2] # 0
  BY <1>2
<1>4. PICK p \in T, x \in Slots : Leads(m.tbl[p][x]) /\ m.tbl[p][x].base = s
  BY <1>2, <1>3 DEF Linked
<1>5. own[s] = <<own[p][1], own[p][2] + 1, own[p][3] * Fan + x>>
  BY <1>4 DEF Linked
<1>6. own[p] \in Roots \X (0..3) \X Nat
  BY DEF Keyed
<1>7. PICK a \in Roots, b \in 0..3, n \in Nat : own[p] = <<a, b, n>>
  BY <1>6
<1>8. a = r /\ b = l /\ n * Fan + x = Nth(va, l)
  BY <1>2, <1>5, <1>7
<1>9. /\ Index(va, l) \in 0..(Fan - 1) /\ Pre(va, l) \in Nat
      /\ Nth(va, l) = Pre(va, l) * Fan + Index(va, l)
  BY Digits
<1>10. n = Pre(va, l) /\ x = Index(va, l)
  BY <1>8, <1>9, OneDigit DEF Slots
<1>11. Place(T, own, r, va, l, p)
  BY <1>7, <1>8, <1>10 DEF Place
<1> QED
  BY <1>4, <1>10, <1>11

(* Above a table there is one at every level, and it leads on.              *)
LEMMA Climb ==
    ASSUME NEW m, NEW T, NEW own, Keyed(T, own), Linked(m, T, own), NEW r, NEW va \in VaPages,
           NEW k, NEW s, Place(T, own, r, va, k, s), NEW l \in 0..3, l < k
    PROVE  \E p : Place(T, own, r, va, l, p) /\ Leads(m.tbl[p][Index(va, l)])
<1>0. s \in T /\ k \in 0..3 /\ own[s] = <<r, k, Pre(va, k)>>
  BY DEF Place
<1> DEFINE Up(j) == \E p : Place(T, own, r, va, j, p) /\ Leads(m.tbl[p][Index(va, j)])
<1>1. ASSUME NEW j \in 0..2, NEW q, Place(T, own, r, va, j + 1, q) PROVE Up(j)
  BY <1>1, ParentAt
<1>2. ASSUME NEW j \in 0..2, Up(j + 1) PROVE Up(j)
  BY <1>1, <1>2
<1>3. k # 0 /\ k - 1 \in 0..2 /\ k = (k - 1) + 1
  BY <1>0
<1>4. Up(k - 1)
  <2>1. PICK j \in 0..2 : j = k - 1 /\ k = j + 1
    BY <1>3
  <2>2. Up(j)
    BY <1>0, <1>1, <2>1
  <2> QED
    BY <2>1, <2>2
<1> HIDE DEF Up
<1>5. Up(2) => Up(1)
  <2>1. Up(1 + 1) => Up(1)
    BY <1>2
  <2> QED
    BY <2>1
<1>6. Up(1) => Up(0)
  <2>1. Up(0 + 1) => Up(0)
    BY <1>2
  <2> QED
    BY <2>1
<1>7. Up(l)
  <2>1. k \in {1, 2, 3} /\ l \in {0, 1, 2}
    BY <1>0
  <2> QED
    BY <1>4, <1>5, <1>6, <2>1
<1> QED
  BY <1>7 DEF Up

(* What was written is what the walk finds, in all of a block.              *)
LEMMA WalkLeaf ==
    ASSUME NEW m, NEW T, NEW own, NEW laid, Grove(m, T, own, laid), NEW c \in Calls, NEW r \in Roots, c.path[1] = r,
           Written(m, T, own, c), NEW va \in VaPages, Nth(va, c.end) = Nth(c.va, c.end)
    PROVE  PtwWalk(m, r, va) = <<c.pa + (va % LevelSpan(c.end))>>
<1>1. Keyed(T, own) /\ Linked(m, T, own)
  BY DEF Grove
<1>2. PICK t, l, e :
        /\ t \in T /\ l \in 0..3
        /\ own[t] = <<r, l, Pre(va, l)>> /\ e = m.tbl[t][Index(va, l)] /\ ~Leads(e)
        /\ PtwWalk(m, r, va) = IF Leaf(e) THEN <<e.base + (va % LevelSpan(l))>> ELSE <<>>
  <2>1. PICK t, l, e : WalksTo(m, T, own, r, va, t, l, e)
    BY WalkEnd
  <2>2. /\ t \in T /\ l \in 0..3 /\ own[t] = <<r, l, Pre(va, l)>> /\ e = m.tbl[t][Index(va, l)] /\ ~Leads(e)
        /\ PtwWalk(m, r, va) = IF Leaf(e) THEN <<e.base + (va % LevelSpan(l))>> ELSE <<>>
    BY <2>1 DEF WalksTo
  <2> QED
    BY ONLY <2>2, Zenon
<1>3. c.va \in VaPages /\ c.end \in 0..3 /\ c.pa \in Nat
  BY DEF Calls
<1>0. PICK k \in 0..3 : k = c.end
  BY <1>3
<1>4. Pre(va, k) = Pre(c.va, k) /\ Index(va, k) = Index(c.va, k)
  <2>1. /\ Nth(va, k) = Pre(va, k) * Fan + Index(va, k) /\ Index(va, k) \in 0..(Fan - 1) /\ Pre(va, k) \in Nat
    BY Digits
  <2>2. /\ Nth(c.va, k) = Pre(c.va, k) * Fan + Index(c.va, k)
        /\ Index(c.va, k) \in 0..(Fan - 1) /\ Pre(c.va, k) \in Nat
    BY <1>3, Digits
  <2>3. Nth(va, k) = Nth(c.va, k)
    BY <1>0
  <2>4. PICK a \in Nat, b \in Nat, x \in 0..(Fan - 1), y \in 0..(Fan - 1) :
          a = Pre(va, k) /\ b = Pre(c.va, k) /\ x = Index(va, k) /\ y = Index(c.va, k)
    BY <2>1, <2>2
  <2>5. a * Fan + x = b * Fan + y
    BY ONLY <2>1, <2>2, <2>3, <2>4
  <2>6. a = b /\ x = y
    BY ONLY <2>5, a \in Nat, b \in Nat, x \in 0..(Fan - 1), y \in 0..(Fan - 1), OneDigit
  <2> QED
    BY <2>4, <2>6
<1>5. PICK w \in T : own[w] = <<r, k, Pre(va, k)>> /\ m.tbl[w][Index(va, k)] = WritePte(c.pa)
  BY <1>0, <1>4 DEF Written
<1>6. Leaf(WritePte(c.pa)) /\ ~Leads(WritePte(c.pa)) /\ WritePte(c.pa).base = c.pa
  BY <1>3, PteIs
<1>7. \A p, q \in T : own[p] = own[q] => p = q
  BY <1>1 DEF Keyed
<1>8. CASE l = k
  <2>1. t = w
    BY <1>2, <1>5, <1>7, <1>8
  <2>2. e = WritePte(c.pa)
    BY <1>2, <1>5, <1>8, <2>1
  <2> QED
    BY <1>0, <1>2, <1>6, <1>8, <2>2
<1>9. CASE l < k
  <2>0. Place(T, own, r, va, k, w)
    BY <1>5 DEF Place
  <2>1. PICK p : Place(T, own, r, va, l, p) /\ Leads(m.tbl[p][Index(va, l)])
    BY <1>1, <1>2, <1>9, <2>0, Climb
  <2>2. p = t
    BY <1>2, <1>7, <2>1 DEF Place
  <2> QED
    BY <1>2, <2>1, <2>2
<1>10. CASE k < l
  <2>0. Place(T, own, r, va, l, t)
    BY <1>2 DEF Place
  <2>1. PICK p : Place(T, own, r, va, k, p) /\ Leads(m.tbl[p][Index(va, k)])
    BY <1>1, <1>10, <2>0, Climb
  <2>2. p = w
    BY <1>5, <1>7, <2>1 DEF Place
  <2> QED
    BY <1>5, <1>6, <2>1, <2>2
<1> QED
  BY <1>2, <1>8, <1>9, <1>10

-----------------------------------------------------------------------------
(* RISC-V: the tables that are linked                                       *)

(* Entries that lead on, out of some tables, and the tables they lead to.   *)
On(m, T) == {e \in T \X (0..(Fan - 1)) : m.tbl[e[1]][e[2]].valid /\ m.tbl[e[1]][e[2]].table}
Base(m, L) == {m.tbl[e[1]][e[2]].base : e \in L}
AllLinks(m) == PgLinks(m, HostRoot) \cup PgLinks(m, Stage2Root)

(* PgLinks goes down three levels.                                          *)
LEMMA PgLinksAre ==
    ASSUME NEW m, NEW r
    PROVE  PgLinks(m, r) = On(m, {r}) \cup On(m, Base(m, On(m, {r}))) \cup On(m, Base(m, On(m, Base(m, On(m, {r})))))
BY DEF PgLinks, On, Base

(* An entry that leads on, told by its table and its index.                 *)
LEMMA OnIs ==
    ASSUME NEW m, NEW T, NEW t, NEW x
    PROVE  <<t, x>> \in On(m, T) <=> t \in T /\ x \in Slots /\ Leads(m.tbl[t][x])
BY DEF On, Slots, Leads

(* A link is from a table of one of the first three levels.                 *)
Link(m, T, t, x, b) == t \in T /\ x \in Slots /\ Leads(m.tbl[t][x]) /\ b = m.tbl[t][x].base
Below(T, own, t, x, b) ==
    own[t][2] \in 0..2 /\ b \in T /\ own[b] = <<own[t][1], own[t][2] + 1, own[t][3] * Fan + x>>

(* The table that a link leads to is the one of its place.                  *)
LEMMA LinkIs ==
    ASSUME NEW m, NEW T, NEW own, Keyed(T, own), Linked(m, T, own), NEW t, NEW x, NEW b, Link(m, T, t, x, b)
    PROVE  Below(T, own, t, x, b)
<1>1. t \in T /\ b \in T /\ own[b] = <<own[t][1], own[t][2] + 1, own[t][3] * Fan + x>>
  BY DEF Linked, Link
<1>2. own[t] \in Roots \X (0..3) \X Nat /\ own[b] \in Roots \X (0..3) \X Nat
  BY <1>1 DEF Keyed
<1>3. own[b][2] \in 0..3 /\ own[b][2] = own[t][2] + 1 /\ own[t][2] \in 0..3
  BY <1>1, <1>2
<1>4. own[t][2] \in 0..2
  BY <1>3
<1> QED
  BY <1>1, <1>4 DEF Below

(* The links of a root are those of the tables under it.                    *)
LEMMA LinksReach ==
    ASSUME NEW m, NEW T, NEW own, Keyed(T, own), Linked(m, T, own), NEW t \in T, NEW x \in Slots, Leads(m.tbl[t][x])
    PROVE  <<t, x>> \in AllLinks(m)
<1>1. own[t][2] \in 0..2 /\ own[t] \in Roots \X (0..3) \X Nat
  <2>1. PICK b : Link(m, T, t, x, b)
    BY DEF Link
  <2>2. Below(T, own, t, x, b)
    BY <2>1, LinkIs
  <2> QED
    BY <2>2 DEF Keyed, Below
<1>2. PICK r \in Roots : r = own[t][1]
  BY <1>1
<1>3. own[r] = <<r, 0, 0>> /\ r \in T
  BY DEF Keyed
<1>4. \A s \in T : own[s][2] = 0 /\ own[s][1] = r => s = r
  <2>1. \A s \in T : own[s][2] = 0 => own[s][1] = s
    BY DEF Keyed
  <2> QED
    BY <2>1
<1>5. ASSUME NEW s \in T, own[s][2] # 0
      PROVE  \E p \in T, y \in Slots : /\ Leads(m.tbl[p][y]) /\ m.tbl[p][y].base = s
                                       /\ own[s][1] = own[p][1] /\ own[s][2] = own[p][2] + 1 /\ own[p][2] \in 0..2
  <2>1. PICK p \in T, y \in Slots : Leads(m.tbl[p][y]) /\ m.tbl[p][y].base = s
    BY <1>5 DEF Linked
  <2>2. own[s] = <<own[p][1], own[p][2] + 1, own[p][3] * Fan + y>> /\ own[p][2] \in 0..2
    <3>1. Link(m, T, p, y, s)
      BY <2>1 DEF Link
    <3>2. Below(T, own, p, y, s)
      BY <3>1, LinkIs
    <3> QED
      BY <3>2 DEF Below
  <2> QED
    BY <2>1, <2>2
<1>6. PICK A, B, C : /\ A = On(m, {r}) /\ B = On(m, Base(m, A)) /\ C = On(m, Base(m, B))
                     /\ PgLinks(m, r) = A \cup B \cup C
  BY PgLinksAre
<1>7. ASSUME NEW s \in T, NEW y \in Slots, Leads(m.tbl[s][y]), own[s][1] = r, own[s][2] = 0 PROVE <<s, y>> \in A
  BY <1>4, <1>6, <1>7, OnIs
<1>8. ASSUME NEW s \in T, NEW y \in Slots, Leads(m.tbl[s][y]), own[s][1] = r, own[s][2] = 1 PROVE <<s, y>> \in B
  <2>1. PICK p \in T, z \in Slots : /\ Leads(m.tbl[p][z]) /\ m.tbl[p][z].base = s
                                    /\ own[s][1] = own[p][1] /\ own[s][2] = own[p][2] + 1 /\ own[p][2] \in 0..2
    BY <1>5, <1>8
  <2>2. own[p][2] = 0 /\ own[p][1] = r
    BY <1>8, <2>1
  <2>3. <<p, z>> \in A
    BY <1>7, <2>1, <2>2
  <2>4. s \in Base(m, A)
    BY <2>1, <2>3 DEF Base
  <2> QED
    BY <1>6, <1>8, <2>4, OnIs
<1>9. ASSUME NEW s \in T, NEW y \in Slots, Leads(m.tbl[s][y]), own[s][1] = r, own[s][2] = 2 PROVE <<s, y>> \in C
  <2>1. PICK p \in T, z \in Slots : /\ Leads(m.tbl[p][z]) /\ m.tbl[p][z].base = s
                                    /\ own[s][1] = own[p][1] /\ own[s][2] = own[p][2] + 1 /\ own[p][2] \in 0..2
    BY <1>5, <1>9
  <2>2. own[p][2] = 1 /\ own[p][1] = r
    BY <1>9, <2>1
  <2>3. <<p, z>> \in B
    BY <1>8, <2>1, <2>2
  <2>4. s \in Base(m, B)
    BY <2>1, <2>3 DEF Base
  <2> QED
    BY <1>6, <1>9, <2>4, OnIs
<1>10. <<t, x>> \in PgLinks(m, r)
  <2>1. own[t][2] \in {0, 1, 2}
    BY <1>1
  <2> QED
    BY <1>2, <1>6, <1>7, <1>8, <1>9, <2>1
<1> QED
  BY <1>10 DEF AllLinks, Roots

(* No link is outside the tables.                                           *)
LEMMA LinksWithin ==
    ASSUME NEW m, NEW T, NEW own, Keyed(T, own), Linked(m, T, own)
    PROVE  AllLinks(m) \subseteq On(m, T)
<1>1. ASSUME NEW S, S \subseteq T PROVE On(m, S) \subseteq On(m, T) /\ Base(m, On(m, S)) \subseteq T
  <2>1. On(m, S) \subseteq On(m, T)
    BY <1>1 DEF On
  <2>2. ASSUME NEW e \in On(m, S) PROVE m.tbl[e[1]][e[2]].base \in T
    <3>1. e[1] \in T /\ e[2] \in Slots /\ Leads(m.tbl[e[1]][e[2]])
      BY <1>1 DEF On, Slots, Leads
    <3>2. PICK b : Link(m, T, e[1], e[2], b)
      BY <3>1 DEF Link
    <3>3. Below(T, own, e[1], e[2], b)
      BY <3>2, LinkIs
    <3> QED
      BY <3>2, <3>3 DEF Link, Below
  <2> QED
    BY <2>1, <2>2 DEF Base
<1>2. ASSUME NEW r \in Roots PROVE PgLinks(m, r) \subseteq On(m, T)
  <2>1. {r} \subseteq T
    BY DEF Keyed
  <2>2. PICK A, B, C : /\ A = On(m, {r}) /\ B = On(m, Base(m, A)) /\ C = On(m, Base(m, B))
                       /\ PgLinks(m, r) = A \cup B \cup C
    BY PgLinksAre
  <2>3. A \subseteq On(m, T) /\ Base(m, A) \subseteq T
    BY <1>1, <2>1, <2>2
  <2>4. B \subseteq On(m, T) /\ Base(m, B) \subseteq T
    BY <1>1, <2>2, <2>3
  <2>5. C \subseteq On(m, T)
    BY <1>1, <2>2, <2>4
  <2> QED
    BY <2>2, <2>3, <2>4, <2>5
<1> QED
  BY <1>2 DEF AllLinks, Roots

(* Every table but the roots is linked, once.                               *)
LEMMA TablesLinked ==
    ASSUME NEW m, NEW T, NEW own, Keyed(T, own), Linked(m, T, own)
    PROVE  /\ Base(m, AllLinks(m)) = T \ Roots
           /\ Cardinality(Base(m, AllLinks(m))) = Cardinality(AllLinks(m))
<1> DEFINE L == AllLinks(m)
           B == Base(m, L)
<1>1. \A e \in L : e[1] \in T /\ e[2] \in Slots /\ Leads(m.tbl[e[1]][e[2]]) /\ e = <<e[1], e[2]>>
  BY LinksWithin DEF On, Slots, Leads
<1>2. L \subseteq Frames \X (0..(Fan - 1))
  BY LinksWithin DEF On, Keyed
<1>3. ASSUME NEW e \in L PROVE m.tbl[e[1]][e[2]].base \in T \ Roots
  <2>1. PICK t \in T, x \in Slots : e = <<t, x>> /\ Leads(m.tbl[t][x])
    BY <1>1
  <2>2. PICK b : Link(m, T, t, x, b) /\ b = m.tbl[t][x].base
    BY <2>1 DEF Link
  <2>0. Below(T, own, t, x, b)
    BY <2>2, LinkIs
  <2>3. own[b][2] # 0 /\ b \in T
    BY <2>0 DEF Below
  <2>4. b \notin Roots
    BY <2>3 DEF Keyed
  <2> QED
    BY <2>1, <2>2, <2>3, <2>4
<1>4. ASSUME NEW t \in T \ Roots PROVE \E e \in L : m.tbl[e[1]][e[2]].base = t
  <2>1. own[t][2] # 0
    BY DEF Keyed
  <2>2. PICK p \in T, x \in Slots : Leads(m.tbl[p][x]) /\ m.tbl[p][x].base = t
    BY <2>1 DEF Linked
  <2>3. <<p, x>> \in L
    BY <2>2, LinksReach
  <2>4. PICK e : e = <<p, x>>
    OBVIOUS
  <2>5. e[1] = p /\ e[2] = x
    BY <2>4
  <2> QED
    BY <2>2, <2>3, <2>4, <2>5
<1>5. ASSUME NEW e \in L, NEW f \in L, m.tbl[e[1]][e[2]].base = m.tbl[f[1]][f[2]].base PROVE e = f
  <2>1. PICK t \in T, x \in Slots : e = <<t, x>> /\ Leads(m.tbl[t][x])
    BY <1>1
  <2>2. PICK s \in T, y \in Slots : f = <<s, y>> /\ Leads(m.tbl[s][y])
    BY <1>1
  <2>3. PICK b : b = m.tbl[t][x].base /\ b = m.tbl[s][y].base
    BY <1>5, <2>1, <2>2
  <2>4. own[b] = <<own[t][1], own[t][2] + 1, own[t][3] * Fan + x>> /\ own[t][2] \in 0..2
    <3>1. Link(m, T, t, x, b)
      BY <2>1, <2>3 DEF Link
    <3>2. Below(T, own, t, x, b)
      BY <3>1, LinkIs
    <3> QED
      BY <3>2 DEF Below
  <2>5. own[b] = <<own[s][1], own[s][2] + 1, own[s][3] * Fan + y>> /\ own[s][2] \in 0..2
    <3>1. Link(m, T, s, y, b)
      BY <2>2, <2>3 DEF Link
    <3>2. Below(T, own, s, y, b)
      BY <3>1, LinkIs
    <3> QED
      BY <3>2 DEF Below
  <2>6. own[t] \in Roots \X (0..3) \X Nat /\ own[s] \in Roots \X (0..3) \X Nat
    BY DEF Keyed
  <2>7. PICK a1 \in Roots, b1 \in 0..3, n1 \in Nat : own[t] = <<a1, b1, n1>>
    BY <2>6
  <2>8. PICK a2 \in Roots, b2 \in 0..3, n2 \in Nat : own[s] = <<a2, b2, n2>>
    BY <2>6
  <2>9. a1 = a2 /\ b1 = b2 /\ n1 * Fan + x = n2 * Fan + y
    BY <2>4, <2>5, <2>7, <2>8
  <2>10. n1 = n2 /\ x = y
    BY <2>9, OneDigit DEF Slots
  <2>11. s = t
    BY <2>7, <2>8, <2>9, <2>10 DEF Keyed
  <2> QED
    BY <2>1, <2>2, <2>10, <2>11
<1>6. B = T \ Roots
  BY <1>3, <1>4 DEF Base
<1>7. IsFiniteSet(L)
  <2>1. Fan \in Nat /\ NPages \in Nat /\ ImageSize \in Nat
    BY HostMapAssumption
  <2>2. IsFiniteSet(Frames) /\ IsFiniteSet(0..(Fan - 1))
    BY <2>1, FS_Interval DEF Frames, BootThird, Static
  <2>3. IsFiniteSet(Frames \X (0..(Fan - 1)))
    BY <2>2, FS_Product
  <2> QED
    BY <1>2, <2>3, FS_Subset
<1>8. ExistsBijection(L, B)
  <2>1. PICK f : f = [e \in L |-> m.tbl[e[1]][e[2]].base]
    OBVIOUS
  <2>2. f \in [L -> B] /\ \A e \in L : f[e] = m.tbl[e[1]][e[2]].base
    BY <2>1 DEF Base
  <2> HIDE DEF L, B
  <2>3. \A e, g \in L : f[e] = f[g] => e = g
    BY <1>5, <2>2
  <2>4. \A t \in B : \E e \in L : f[e] = t
    BY <1>4, <1>6, <2>2
  <2>5. DOMAIN f = L
    BY <2>2
  <2>6. f \in Bijection(L, B)
    BY <2>2, <2>3, <2>4, <2>5 DEF Bijection, Injection, Surjection, IsInjective
  <2> QED
    BY <2>6 DEF ExistsBijection
<1>9. Cardinality(B) = Cardinality(L)
  BY <1>7, <1>8, FS_Bijection
<1> QED
  BY <1>6, <1>9

-----------------------------------------------------------------------------
(* RISC-V: the maps of the boot                                             *)

(* Quotients of multiples.                                                  *)
LEMMA Scaled ==
    ASSUME NEW f \in Nat, NEW F \in Nat \ {0}, NEW P \in Nat \ {0}, NEW a, a = f * (F * P)
    PROVE  a \div P = f * F
<1>1. PICK k \in Nat : k = f * F
  OBVIOUS
<1>2. f * (F * P) = (f * F) * P
  OBVIOUS
<1>3. a = k * P
  BY <1>1, <1>2
<1>4. a \in Nat /\ k * P <= a /\ a < k * P + P
  BY <1>3
<1>5. a \div P = k
  BY <1>4, DivIs
<1> QED
  BY <1>1, <1>5

(* A quotient is that of the multiples.                                     *)
LEMMA DivScaled ==
    ASSUME NEW i \in Nat, NEW F \in Nat \ {0}, NEW P \in Nat \ {0}, NEW B \in Nat \ {0}, B = F * P
    PROVE  (i * P) \div B = i \div F
<1>1. PICK y \in Nat, n \in Nat : y = i \div F /\ n = y * F /\ n <= i /\ i + 1 <= n + F
  OBVIOUS
<1>2. n * P <= i * P /\ (i + 1) * P <= (n + F) * P
  BY <1>1
<1>3. (i + 1) * P = i * P + P /\ (n + F) * P = n * P + F * P /\ i * P \in Nat /\ n * P \in Nat
  BY <1>1
<1>4. n * P = y * B
  BY <1>1
<1>5. PICK k \in Nat : k = i * P
  BY <1>3
<1>6. PICK w \in Nat : w = n * P /\ w = y * B
  BY <1>3, <1>4
<1>7. w <= k /\ k < w + B
  BY <1>2, <1>3, <1>5, <1>6
<1>8. y * B <= k /\ k < y * B + B
  BY <1>6, <1>7
<1>9. k \div B = y
  BY <1>8, DivIs
<1> QED
  BY <1>1, <1>5, <1>9

(* Less than a quotient is less than the number.                            *)
LEMMA Under ==
    ASSUME NEW i \in Nat, NEW P \in Nat \ {0}, NEW s \in Nat, i < s \div P
    PROVE  i * P \in Nat /\ i * P < s
<1>1. PICK n \in Nat, k \in Nat : n = s \div P /\ k = n * P /\ k <= s
  OBVIOUS
<1>2. (i + 1) * P <= n * P
  BY <1>1
<1>3. (i + 1) * P = i * P + P /\ i * P \in Nat
  OBVIOUS
<1> QED
  BY <1>1, <1>2, <1>3

(* The block that a page of the direct mapping is in.                       *)
LEMMA DirectPage ==
    ASSUME NEW i \in 0..(RvDirect[3] \div PageBytes - 1),
           NEW va, va = RvDirect[1] \div PageBytes + i
    PROVE  /\ va \in VaPages
           /\ \E b \in DirectBlocks : va \div Fan = b /\ BlockCall(b).pa + (va % Fan) = RvDirect[2] \div PageBytes + i
<1>1. Fan \in Nat \ {0} /\ PageBytes \in Nat \ {0} /\ BlockBytes \in Nat \ {0}
  BY LevelSpanIs, RvMmuAssumption, BlocksAre
<1>2. PICK P \in Nat \ {0} : P = PageBytes
  BY <1>1
<1>3. PICK a \in Nat, q \in Nat, size \in Nat : a = RvDirect[1] /\ q = RvDirect[2] /\ size = RvDirect[3]
  BY RvLayoutAssumption
<1>4. PICK BB \in Nat \ {0} : BB = BlockBytes
  BY <1>1
<1>5. PICK f \in Nat : f = a \div BB /\ a = f * BB
  BY <1>3, <1>4, RvLayoutAssumption
<1>6. PICK g \in Nat : g = q \div BB /\ q = g * BB
  BY <1>3, <1>4, RvLayoutAssumption
<1>7. BB = Fan * P
  BY <1>2, <1>4 DEF BlockBytes
<1>8. a \div P = f * Fan
  BY <1>1, <1>2, <1>5, <1>7, Scaled
<1>9. q \div P = g * Fan
  BY <1>1, <1>2, <1>6, <1>7, Scaled
<1>10. i \in Nat /\ i < size \div P
  <2>1. size \div P \in Nat
    BY <1>2, <1>3
  <2> QED
    BY <1>2, <1>3, <2>1
<1>11. PICK n \in Nat : n = (size + BB - 1) \div BB
  BY <1>3, <1>4, RoundUp
<1>12. DirectBlocks = f..(f + n - 1)
  BY <1>3, <1>4, <1>5, <1>11 DEF DirectBlocks
<1>13. PICK y \in Nat, z \in Nat : y = i \div Fan /\ z = i % Fan /\ i = y * Fan + z /\ z < Fan
  BY <1>1, <1>10
<1>14. y < n
  <2>1. i * P \in Nat /\ i * P < size
    BY <1>2, <1>3, <1>10, Under
  <2>2. (i * P) \div BB < n
    BY <1>3, <1>4, <1>11, <2>1, RoundUp
  <2>3. (i * P) \div BB = y
    <3>1. (i * P) \div BB = i \div Fan
      BY ONLY <1>1, <1>7, <1>10, P \in Nat \ {0}, BB \in Nat \ {0}, DivScaled
    <3> QED
      BY <1>13, <3>1
  <2> QED
    BY <2>2, <2>3
<1>15. PICK b \in DirectBlocks : b = f + y
  BY <1>12, <1>14
<1>16. va = f * Fan + i
  BY <1>2, <1>3, <1>8
<1>17. va = b * Fan + z /\ b \in Nat /\ b * Fan \in Nat
  <2>1. (f + y) * Fan = f * Fan + y * Fan /\ f * Fan \in Nat /\ y * Fan \in Nat
    BY <1>1
  <2>2. b * Fan = f * Fan + y * Fan
    BY <1>15, <2>1
  <2>3. va = f * Fan + (y * Fan + z)
    BY ONLY <1>13, <1>16
  <2>4. PICK u \in Nat, v \in Nat : u = f * Fan /\ v = y * Fan
    BY ONLY <2>1
  <2>5. va = u + (v + z) /\ b * Fan = u + v
    BY ONLY <2>2, <2>3, <2>4
  <2>6. va = b * Fan + z /\ b * Fan \in Nat
    BY ONLY <2>5, u \in Nat, v \in Nat, z \in Nat
  <2>7. b \in Nat
    BY <1>15
  <2> QED
    BY <2>6, <2>7
<1>18. va \in Nat /\ va \div Fan = b /\ va % Fan = z
  <2>1. b * Fan <= va /\ va < b * Fan + Fan /\ va \in Nat
    BY <1>1, <1>13, <1>17
  <2>2. va \div Fan = b
    BY <1>1, <1>17, <2>1, DivIs
  <2>3. va = (va \div Fan) * Fan + (va % Fan) /\ va % Fan \in Nat
    <3>1. PICK u \in Nat, F \in Nat \ {0} : u = va /\ F = Fan
      BY <1>1, <2>1
    <3>2. u = (u \div F) * F + (u % F) /\ u % F \in Nat
      OBVIOUS
    <3> QED
      BY ONLY <3>1, <3>2
  <2>4. va % Fan = z
    <3>1. va = b * Fan + (va % Fan)
      BY <2>2, <2>3
    <3> QED
      BY ONLY <1>17, <2>3, <3>1, z \in Nat
  <2> QED
    BY <2>1, <2>2, <2>4
<1>19. va \in VaPages
  <2>1. b * Fan + Fan - 1 \in VaPages
    BY RvLayoutAssumption
  <2>2. PICK k \in Nat : k = b * Fan
    BY <1>17
  <2> DEFINE D == Fan * LevelSpan(0)
  <2>3. D \in Nat \ {0}
    BY LevelSpanIs
  <2>4. VaPages = 0..(D - 1)
    BY DEF VaPages
  <2> HIDE DEF D
  <2>5. k + Fan - 1 \in 0..(D - 1) /\ va = k + z
    BY <1>17, <2>1, <2>2, <2>4
  <2> QED
    BY <1>1, <1>13, <2>3, <2>4, <2>5
<1>20. BlockCall(b).pa = (g + y) * Fan
  <2>1. BlockCall(b).pa = (RvDirect[2] \div BlockBytes + (b - RvDirect[1] \div BlockBytes)) * Fan
    BY BlockCallIs
  <2>2. b - f = y
    BY <1>15
  <2> QED
    BY <1>3, <1>4, <1>5, <1>6, <2>1, <2>2
<1>21. (g + y) * Fan + z = g * Fan + i
  <2>1. (g + y) * Fan = g * Fan + y * Fan /\ g * Fan \in Nat /\ y * Fan \in Nat
    BY <1>1
  <2> QED
    BY <1>13, <2>1
<1>22. BlockCall(b).pa + (va % Fan) = RvDirect[2] \div PageBytes + i
  BY ONLY <1>2, <1>3, <1>9, <1>18, <1>20, <1>21
<1> QED
  BY <1>18, <1>19, <1>22

(* What is laid and written is found.                                       *)
LEMMA LaidFound ==
    ASSUME NEW m, NEW T, NEW own, NEW laid, Grove(m, T, own, laid), laid \subseteq Calls,
           Serves(m, T, own, laid, <<>>), NEW c \in laid, NEW r \in Roots, c.path[1] = r,
           NEW va \in VaPages, Nth(va, c.end) = Nth(c.va, c.end)
    PROVE  PtwWalk(m, r, va) = <<c.pa + (va % LevelSpan(c.end))>>
<1>1. Written(m, T, own, c)
  BY DEF Serves
<1> QED
  BY <1>1, WalkLeaf

(* A page that was asked for is mapped to itself.                           *)
LEMMA PageFound ==
    ASSUME NEW m, NEW T, NEW own, NEW laid, Grove(m, T, own, laid), laid \subseteq Calls,
           Serves(m, T, own, laid, <<>>), NEW r \in Roots, NEW p \in VaPages, PgCall(r, 3, p, p) \in laid
    PROVE  PtwWalk(m, r, p) = <<p>>
<1>1. PICK c \in laid : c = PgCall(r, 3, p, p)
  OBVIOUS
<1>2. c.path[1] = r /\ c.end = 3 /\ c.va = p /\ c.pa = p
  BY <1>1, PageCallIs
<1>3. Nth(p, c.end) = Nth(c.va, c.end)
  BY <1>2
<1>4. PtwWalk(m, r, p) = <<c.pa + (p % LevelSpan(c.end))>>
  BY <1>2, <1>3, LaidFound
<1>5. p + (p % LevelSpan(3)) = p
  BY LastDigits, LevelSpanIs
<1> QED
  BY <1>2, <1>4, <1>5

(* A page of a block is mapped to its place in the block.                   *)
LEMMA BlockFound ==
    ASSUME NEW m, NEW T, NEW own, NEW laid, Grove(m, T, own, laid), laid \subseteq Calls,
           Serves(m, T, own, laid, <<>>), BlocksLaid \subseteq laid,
           NEW b \in DirectBlocks, NEW va \in VaPages, va \div Fan = b
    PROVE  PtwWalk(m, HostRoot, va) = <<BlockCall(b).pa + (va % Fan)>>
<1>1. PICK c \in laid : c = BlockCall(b)
  BY DEF BlocksLaid
<1>2. c.path[1] = HostRoot /\ c.end = 2 /\ Nth(c.va, 2) = b
  BY <1>1, BlockCallIs
<1>3. Nth(va, c.end) = Nth(c.va, c.end)
  BY <1>2, LastDigits
<1>4. HostRoot \in Roots
  BY DEF Roots
<1>5. PtwWalk(m, HostRoot, va) = <<c.pa + (va % LevelSpan(c.end))>>
  BY <1>2, <1>3, <1>4, LaidFound
<1> QED
  BY <1>1, <1>2, <1>5, LevelSpanIs

(* With all calls made, the maps are what RvGuestMapped says.               *)
LEMMA MappedRight ==
    ASSUME NEW m, NEW hp, NEW ram, Fits(ram), Mapping(m, hp, <<>>, AllLaid(ram))
    PROVE  /\ ram[1] % PageBytes = 0 =>
                 /\ {p \in VaPages : PtwWalk(m, Stage2Root, p) # <<>>} = PagesOf(ram)
                 /\ \A p \in PagesOf(ram) : PtwWalk(m, Stage2Root, p) = <<p>>
           /\ \A p \in PagesOf(RvImage) \cup PagesOf(RvUart) \cup PagesOf(RvPlic) : PtwWalk(m, HostRoot, p) = <<p>>
           /\ \A i \in 0..(RvDirect[3] \div PageBytes - 1) :
                 PtwWalk(m, HostRoot, RvDirect[1] \div PageBytes + i) = <<RvDirect[2] \div PageBytes + i>>
           /\ Cardinality(Base(m, AllLinks(m))) = Cardinality(AllLinks(m))
           /\ Base(m, AllLinks(m)) \cap Pool = m.used \ hp
<1>1. PICK T, own, laid : /\ T = Roots \cup (m.used \ hp) /\ laid = AllLaid(ram)
                          /\ Grove(m, T, own, laid) /\ Serves(m, T, own, laid, <<>>)
  BY DEF Mapping
<1>2. hp \subseteq m.used /\ m.used \subseteq Pool
  BY DEF Mapping
<1>3. Plan(laid) /\ laid \subseteq Calls
  BY <1>1, PlanIs DEF Plan
<1>4. HostRoot \in Roots /\ Stage2Root \in Roots /\ HostRoot # Stage2Root
  BY FramesAre DEF Roots
<1>5. \A r \in Roots, p \in VaPages : PgCall(r, 3, p, p) \in laid => PtwWalk(m, r, p) = <<p>>
  BY <1>1, <1>3, PageFound
<1>6. ASSUME NEW p \in Touched(ram) PROVE p \in VaPages /\ PtwWalk(m, Stage2Root, p) = <<p>>
  <2>1. p \in VaPages
    BY DEF Fits
  <2>2. PgCall(Stage2Root, 3, p, p) \in laid
    BY <1>1 DEF AllLaid, GuestLaid, PagesLaid
  <2> QED
    BY <1>4, <1>5, <2>1, <2>2
<1>7. ASSUME NEW p \in VaPages, PtwWalk(m, Stage2Root, p) # <<>> PROVE p \in Touched(ram)
  <2>1. PICK c \in laid : c.path[1] = Stage2Root /\ Nth(c.va, c.end) = Nth(p, c.end)
    BY <1>1, <1>4, <1>7, WalkSound
  <2>2. ASSUME NEW q \in VaPages, c = PgCall(HostRoot, 3, q, q) PROVE FALSE
    BY <1>4, <2>1, <2>2, PageCallIs
  <2>3. ASSUME NEW b \in DirectBlocks, c = BlockCall(b) PROVE FALSE
    BY <1>4, <2>1, <2>3, BlockCallIs
  <2>4. PICK q \in VaPages : c = PgCall(Stage2Root, 3, q, q) /\ q \in Touched(ram)
    BY <1>1, <2>2, <2>3, LaidIs
  <2>5. c.end = 3 /\ Nth(c.va, 3) = q
    BY <1>4, <2>4, PageCallIs
  <2>6. Nth(p, 3) = p
    BY LastDigits
  <2> QED
    BY <2>1, <2>4, <2>5, <2>6
<1>8. ASSUME ram[1] % PageBytes = 0
      PROVE  /\ {p \in VaPages : PtwWalk(m, Stage2Root, p) # <<>>} = PagesOf(ram)
             /\ \A p \in PagesOf(ram) : PtwWalk(m, Stage2Root, p) = <<p>>
  <2>1. Touched(ram) = PagesOf(ram)
    BY <1>8, TouchedIs DEF Fits
  <2>2. \A p : <<p>> # <<>>
    OBVIOUS
  <2> QED
    BY <1>6, <1>7, <2>1, <2>2
<1>9. ASSUME NEW range \in HostRanges, NEW p \in PagesOf(range) PROVE PtwWalk(m, HostRoot, p) = <<p>>
  <2>1. range \in Nat \X Nat /\ range[1] % PageBytes = 0
    BY RvLayoutAssumption DEF HostRanges
  <2>2. p \in Touched(range)
    BY <2>1, TouchedIs
  <2>3. p \in VaPages
    BY <2>2, HostTouched
  <2>4. PgCall(HostRoot, 3, p, p) \in laid
    <3>1. PgCall(HostRoot, 3, p, p) \in PagesLaid(HostRoot, range)
      BY <2>2 DEF PagesLaid
    <3> QED
      BY <1>1, <3>1 DEF AllLaid, HostLaid, HostRanges
  <2> QED
    BY <1>4, <1>5, <2>3, <2>4
<1>10. ASSUME NEW i \in 0..(RvDirect[3] \div PageBytes - 1)
       PROVE  PtwWalk(m, HostRoot, RvDirect[1] \div PageBytes + i) = <<RvDirect[2] \div PageBytes + i>>
  <2>1. PICK va : va = RvDirect[1] \div PageBytes + i
    OBVIOUS
  <2>2. /\ va \in VaPages
        /\ \E b \in DirectBlocks : va \div Fan = b /\ BlockCall(b).pa + (va % Fan) = RvDirect[2] \div PageBytes + i
    BY <2>1, DirectPage
  <2>3. PICK b \in DirectBlocks : va \div Fan = b /\ BlockCall(b).pa + (va % Fan) = RvDirect[2] \div PageBytes + i
    BY <2>2
  <2>4. BlocksLaid \subseteq laid
    BY <1>1 DEF AllLaid, HostLaid
  <2>5. PtwWalk(m, HostRoot, va) = <<BlockCall(b).pa + (va % Fan)>>
    BY <1>1, <1>3, <2>2, <2>3, <2>4, BlockFound
  <2> QED
    BY <2>1, <2>3, <2>5
<1>11. Keyed(T, own) /\ Linked(m, T, own)
  BY <1>1 DEF Grove
<1>12. /\ Base(m, AllLinks(m)) = T \ Roots
       /\ Cardinality(Base(m, AllLinks(m))) = Cardinality(AllLinks(m))
  BY <1>11, TablesLinked
<1>13. (T \ Roots) \cap Pool = m.used \ hp
  BY <1>1, <1>2, FramesAre
<1> QED
  BY <1>8, <1>9, <1>10, <1>12, <1>13 DEF HostRanges

(* A run of pages that does not begin behind the pool is of free ones.      *)
LEMMA FreshRun ==
    ASSUME NEW used, NEW cnt \in Nat, NEW at, at = AllocPagesCnt(used, cnt), Fan + NPages \notin at..(at + cnt - 1)
    PROVE  at..(at + cnt - 1) \subseteq Pool \ used
<1> DEFINE fit == {p \in Pool : /\ (p - Fan) % 2 = 0 /\ p..(p + cnt - 1) \subseteq Pool \ used}
<1>1. at = IF fit = {} THEN Fan + NPages ELSE Min(fit)
  BY DEF AllocPagesCnt
<1>2. Fan \in Nat /\ NPages \in Nat
  BY HostMapAssumption
<1>3. fit \in SUBSET Nat
  BY <1>2 DEF Pool
<1>4. \A p \in fit : p..(p + cnt - 1) \subseteq Pool \ used
  OBVIOUS
<1> HIDE DEF fit
<1>5. CASE fit = {}
  <2>1. at = Fan + NPages /\ at \in Nat
    BY <1>1, <1>2, <1>5
  <2>2. CASE cnt = 0
    BY <2>1, <2>2
  <2>3. CASE cnt # 0
    BY <2>1, <2>3
  <2> QED
    BY <2>2, <2>3
<1>6. CASE fit # {}
  <2>1. Min(fit) \in fit
    BY <1>3, <1>6, MinIs
  <2> QED
    BY <1>1, <1>4, <1>6, <2>1
<1> QED
  BY <1>5, <1>6

(* The guest's RAM is within what the tables can map, and the page          *)
(* allocator has not answered with TOTAL_PAGES.                             *)
RamFits == \A t \in RvHostFdts : Fits(GuestConfig(t).ram)
RvPagesLast == Fan + NPages \notin rmem.used

(* What has been asked for, by stage.                                       *)
Unlaid == {"reset", "init_mm"}
LaidBy(s, ram) == IF s \in Unlaid THEN {} ELSE IF s = "init_kmalloc" THEN HostLaid ELSE AllLaid(ram)
RvMapInv ==
    /\ Mapping(rmem, heap, rtodo, LaidBy(rstage, gcfg.ram))
    /\ rstage \in Unlaid \cup {"init_kmalloc"} => heap = {}
    /\ rstage # "reset" => \E t \in RvHostFdts : gcfg = GuestConfig(t)

(* At every stage, what has been asked for does not contradict itself.      *)
LEMMA LaidPlan ==
    ASSUME RamFits, RvMapInv
    PROVE  Plan(LaidBy(rstage, gcfg.ram))
<1>1. CASE rstage \in Unlaid
  BY <1>1 DEF Plan, LaidBy
<1>2. CASE rstage \notin Unlaid
  <2>1. Fits(gcfg.ram)
    BY <1>2 DEF RvMapInv, RamFits, Unlaid
  <2>2. Plan(AllLaid(gcfg.ram))
    BY <2>1, PlanIs
  <2>3. LaidBy(rstage, gcfg.ram) \in SUBSET AllLaid(gcfg.ram)
    BY <1>2 DEF LaidBy, AllLaid
  <2> QED
    BY <2>2, <2>3, PlanPart
<1> QED
  BY <1>1, <1>2

(* Steps that neither map nor configure.                                    *)
LEMMA RvMapQuiet ==
    ASSUME RvMapInv, UNCHANGED <<rmem, rtodo, heap, gcfg>>,
           rstage' = rstage \/ (/\ rstage \notin Unlaid \cup {"init_kmalloc"} /\ rstage' \notin Unlaid \cup {"init_kmalloc"})
    PROVE  RvMapInv'
<1>1. LaidBy(rstage, gcfg.ram)' = LaidBy(rstage, gcfg.ram)
  BY DEF LaidBy, Unlaid
<1>2. CASE rstage' = rstage
  BY <1>1, <1>2 DEF RvMapInv
<1>3. CASE /\ rstage \notin Unlaid \cup {"init_kmalloc"} /\ rstage' \notin Unlaid \cup {"init_kmalloc"}
  BY <1>1, <1>3 DEF RvMapInv, Unlaid
<1> QED
  BY <1>2, <1>3

(* Every step of RISC-V's boot preserves RvMapInv, as long as pages last.   *)
LEMMA RvMapStep == RamFits /\ HartInv /\ RvMapInv /\ [RvNext]_rvVars /\ RvPagesLast' => RvMapInv'
<1> SUFFICES ASSUME RamFits, HartInv, RvMapInv, [RvNext]_rvVars, RvPagesLast' PROVE RvMapInv'
  OBVIOUS
<1>0. Mapping(rmem, heap, rtodo, LaidBy(rstage, gcfg.ram))
  BY DEF RvMapInv
<1>1. CASE UNCHANGED rvVars
  BY <1>1, RvMapQuiet DEF rvVars
<1>2. CASE RvPageStep
  <2>1. PICK did : /\ did = PgMapLevel(rmem, Head(rtodo)) /\ rmem' = did.mem /\ rtodo' = did.rest \o Tail(rtodo)
                   /\ rtodo # <<>> /\ UNCHANGED <<rstage, gcfg, heap>>
    BY <1>2 DEF RvPageStep, inVars
  <2>2. PICK laid : laid = LaidBy(rstage, gcfg.ram) /\ Plan(laid) /\ Mapping(rmem, heap, rtodo, laid)
    BY <1>0, LaidPlan
  <2>3. Fan + NPages \notin did.mem.used
    BY <2>1 DEF RvPagesLast
  <2>4. Mapping(did.mem, heap, did.rest \o Tail(rtodo), laid)
    BY <2>1, <2>2, <2>3, MappingStep
  <2>5. LaidBy(rstage, gcfg.ram)' = laid
    BY <2>1, <2>2
  <2> QED
    BY <2>1, <2>4, <2>5 DEF RvMapInv
<1>3. CASE rtodo = <<>> /\ Reset
  <2>1. /\ rstage = "reset" /\ rstage' = "init_mm" /\ UNCHANGED <<rmem, rtodo, heap>>
        /\ \E t \in RvHostFdts : gcfg' = GuestConfig(t)
    BY <1>3 DEF Reset, mmuVars
  <2>2. LaidBy(rstage, gcfg.ram) = {} /\ LaidBy(rstage, gcfg.ram)' = {}
    BY <2>1 DEF LaidBy, Unlaid
  <2> QED
    BY <2>1, <2>2 DEF RvMapInv, Unlaid
<1>4. CASE rtodo = <<>> /\ RvInitMm
  <2>1. rstage = "init_mm" /\ rstage' = "init_kmalloc" /\ UNCHANGED <<rmem, heap, gcfg>>
    BY <1>4 DEF RvInitMm, inVars
  <2>2. Starts(rtodo', HostLaid)
    BY <1>4, HostStarts DEF RvInitMm
  <2>3. PICK left \in Seq(Calls) : left = rtodo' /\ \A i \in 1..Len(left) : \E r \in Roots : left[i].path = <<r>>
    BY <2>2 DEF Starts
  <2>4. HostLaid = {} \cup {Orig(left[i]) : i \in 1..Len(left)}
    BY <2>2, <2>3, StartsAsked
  <2>5. Mapping(rmem, heap, <<>>, {})
    BY <1>0, <1>4, <2>1 DEF LaidBy, Unlaid
  <2>6. Mapping(rmem, heap, left, HostLaid)
    BY <2>3, <2>4, <2>5, MappingMore
  <2>7. LaidBy(rstage, gcfg.ram)' = HostLaid
    BY <2>1 DEF LaidBy, Unlaid
  <2> QED
    BY <2>1, <2>3, <2>6, <2>7 DEF RvMapInv, Unlaid
<1>5. CASE rtodo = <<>> /\ InitGuestMemory
  <2>1. /\ rstage = "init_kmalloc" /\ rstage' = "guest_dtb" /\ UNCHANGED gcfg
        /\ rtodo' = PgMap(Stage2Root, gcfg.ram[1], gcfg.ram[1], gcfg.ram[2])
    BY <1>5 DEF InitGuestMemory, inVars
  <2>2. PICK at, hp : /\ at = AllocPagesCnt(rmem.used, RvHeapPages) /\ hp = at..(at + RvHeapPages - 1)
                      /\ heap' = hp /\ rmem' = [rmem EXCEPT !.used = @ \cup hp]
    BY <1>5 DEF InitGuestMemory
  <2>3. heap = {} /\ Mapping(rmem, {}, <<>>, HostLaid)
    BY <1>0, <1>5, <2>1 DEF RvMapInv, LaidBy, Unlaid
  <2>4. hp \subseteq rmem'.used
    <3>1. rmem \in PgMem
      BY <2>3 DEF Mapping, Grove
    <3>2. rmem'.used = rmem.used \cup hp
      BY <2>2, <3>1 DEF PgMem
    <3> QED
      BY <3>2
  <2>5. hp \subseteq Pool \ rmem.used
    <3>1. Fan + NPages \notin hp
      BY <2>4 DEF RvPagesLast
    <3>2. RvHeapPages \in Nat
      BY RvLayoutAssumption
    <3> QED
      BY <2>2, <3>1, <3>2, FreshRun
  <2>6. Mapping(rmem', hp, <<>>, HostLaid)
    <3>1. hp \in SUBSET Pool /\ hp \cap rmem.used = {}
      BY <2>5
    <3> QED
      BY <2>2, <2>3, <3>1, MappingHeap
  <2>7. Fits(gcfg.ram)
    BY <2>1 DEF RvMapInv, RamFits
  <2>8. Starts(rtodo', GuestLaid(gcfg.ram))
    BY <2>1, <2>7, PgMapStarts DEF GuestLaid, Roots
  <2>9. PICK left \in Seq(Calls) : left = rtodo' /\ \A i \in 1..Len(left) : \E r \in Roots : left[i].path = <<r>>
    BY <2>8 DEF Starts
  <2>10. AllLaid(gcfg.ram) = HostLaid \cup {Orig(left[i]) : i \in 1..Len(left)}
    BY <2>8, <2>9, StartsAsked DEF AllLaid
  <2>11. Mapping(rmem', hp, left, AllLaid(gcfg.ram))
    BY <2>6, <2>9, <2>10, MappingMore
  <2>12. LaidBy(rstage, gcfg.ram)' = AllLaid(gcfg.ram)
    BY <2>1 DEF LaidBy, Unlaid
  <2>13. \E t \in RvHostFdts : gcfg' = GuestConfig(t)
    BY <2>1 DEF RvMapInv
  <2> QED
    BY <2>1, <2>2, <2>9, <2>11, <2>12, <2>13 DEF RvMapInv, Unlaid
<1>6. CASE GuestDtbInit \/ InitDevices \/ SmpBegin \/ StartHart \/ CountHart \/ InitTimer \/ CreateVcpu \/ InsertVcpu
  <2>1. UNCHANGED <<rmem, rtodo, heap, gcfg>>
    BY <1>6 DEF GuestDtbInit, InitDevices, SmpBegin, StartHart, CountHart, InitTimer, CreateVcpu, InsertVcpu, inVars, mmuVars
  <2>2. rstage \notin Unlaid \cup {"init_kmalloc"} /\ (rstage' = rstage \/ rstage' \notin Unlaid \cup {"init_kmalloc"})
    BY <1>6 DEF GuestDtbInit, InitDevices, SmpBegin, StartHart, CountHart, InitTimer, CreateVcpu, InsertVcpu, Unlaid
  <2> QED
    BY <2>1, <2>2, RvMapQuiet
<1>7. CASE RvTick
  <2>1. UNCHANGED <<rmem, rtodo, heap, gcfg>>
    BY <1>7 DEF RvTick, inVars, mmuVars
  <2>2. rstage \in {"create", "insert", "scheduler"} /\ rstage' \in {"deadlock", "guest", "abandoned"}
    BY <1>7 DEF RvTick, HartInv, HartTypes
  <2> QED
    BY <2>1, <2>2, RvMapQuiet DEF Unlaid
<1>8. CASE \E h \in Harts : StartSecondary(h) \/ SecondaryStart(h)
  <2>1. UNCHANGED <<rmem, rtodo, heap, gcfg, rstage>>
    BY <1>8 DEF StartSecondary, SecondaryStart, inVars, mmuVars
  <2> QED
    BY <2>1, RvMapQuiet
<1> QED
  BY <1>1, <1>2, <1>3, <1>4, <1>5, <1>6, <1>7, <1>8 DEF RvNext, RvStep

(* The state that RvGuestMapped speaks of.                                  *)
LEMMA RvMapRight == RamFits /\ RvMapInv => RvGuestMapped
<1> SUFFICES ASSUME RamFits, RvMapInv, rtodo = <<>>, rstage \notin {"reset", "init_mm", "init_kmalloc"} PROVE RvGuestMapped
  BY DEF RvGuestMapped
<1>1. PICK ram : ram = gcfg.ram
  OBVIOUS
<1>2. Fits(ram) /\ Mapping(rmem, heap, <<>>, AllLaid(ram))
  BY <1>1 DEF RvMapInv, LaidBy, Unlaid, RamFits
<1>3. /\ ram[1] % PageBytes = 0 =>
            /\ {p \in VaPages : PtwWalk(rmem, Stage2Root, p) # <<>>} = PagesOf(ram)
            /\ \A p \in PagesOf(ram) : PtwWalk(rmem, Stage2Root, p) = <<p>>
      /\ \A p \in PagesOf(RvImage) \cup PagesOf(RvUart) \cup PagesOf(RvPlic) : PtwWalk(rmem, HostRoot, p) = <<p>>
      /\ \A i \in 0..(RvDirect[3] \div PageBytes - 1) :
            PtwWalk(rmem, HostRoot, RvDirect[1] \div PageBytes + i) = <<RvDirect[2] \div PageBytes + i>>
      /\ Cardinality(Base(rmem, AllLinks(rmem))) = Cardinality(AllLinks(rmem))
      /\ Base(rmem, AllLinks(rmem)) \cap Pool = rmem.used \ heap
  BY <1>2, MappedRight
<1>4. Mapped(Stage2Root) = {p \in VaPages : PtwWalk(rmem, Stage2Root, p) # <<>>}
  BY DEF Mapped
<1>5. PICK links, tables : /\ links = PgLinks(rmem, HostRoot) \cup PgLinks(rmem, Stage2Root)
                           /\ tables = {rmem.tbl[e[1]][e[2]].base : e \in links}
  OBVIOUS
<1>6. Cardinality(tables) = Cardinality(links) /\ tables \cap Pool = rmem.used \ heap
  BY <1>3, <1>5 DEF Base, AllLinks
<1>7. gcfg.ram[1] % PageBytes = 0 =>
         /\ Mapped(Stage2Root) = PagesOf(gcfg.ram)
         /\ \A p \in Mapped(Stage2Root) : PtwWalk(rmem, Stage2Root, p) = <<p>>
  BY <1>1, <1>3, <1>4
<1> QED
  BY <1>3, <1>5, <1>6, <1>7 DEF RvGuestMapped

(* When init_guest_memory is through, and for good, the guest reaches all   *)
(* of its RAM, if that begins on a page, and nothing else, the host keeps   *)
(* the maps of init_mm, no page table is shared or lost and none is a page  *)
(* of the heap, for tables of any width, any memory map as in mm.c and any  *)
(* bootargs whose RAM the tables can map, as long as alloc_pages has not    *)
(* answered with TOTAL_PAGES.                                               *)
THEOREM GuestIsMapped == ASSUME RamFits PROVE Spec /\ []RvPagesLast => []RvGuestMapped
<1>1. Init => HartInv
  BY HartInitially DEF Init
<1>2. HartInv /\ [Next]_allBootVars => HartInv'
  <2> SUFFICES ASSUME HartInv, [Next]_allBootVars PROVE HartInv'
    OBVIOUS
  <2>1. [RvNext]_rvVars
    BY DEF Next, A64Next, RiscvNext, allBootVars
  <2> QED
    BY <2>1, HartStep
<1>3. Init => RvMapInv
  <2> SUFFICES ASSUME RvInit PROVE RvMapInv
    BY DEF Init
  <2>1. rstage = "reset" /\ rmem = NoMemory /\ rtodo = <<>> /\ heap = {}
    BY DEF RvInit
  <2>2. LaidBy(rstage, gcfg.ram) = {}
    BY <2>1 DEF LaidBy, Unlaid
  <2> QED
    BY <2>1, <2>2, MappingNone DEF RvMapInv
<1>4. HartInv /\ RvMapInv /\ [Next]_allBootVars /\ RvPagesLast' => RvMapInv'
  <2> SUFFICES ASSUME HartInv, RvMapInv, [Next]_allBootVars, RvPagesLast' PROVE RvMapInv'
    OBVIOUS
  <2>1. [RvNext]_rvVars
    BY DEF Next, A64Next, RiscvNext, allBootVars
  <2> QED
    BY <2>1, RvMapStep
<1>5. RvMapInv => RvGuestMapped
  BY RvMapRight
<1> QED
  BY <1>1, <1>2, <1>3, <1>4, <1>5, PTL DEF Spec
=============================================================================
