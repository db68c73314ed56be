--------------------------- MODULE GuestMemProofs ---------------------------
(***************************************************************************)
(* Proofs about guest memory on aarch64, for every number of vCPUs, levels, *)
(* entries and pages.  Two arguments.                                       *)
(*                                                                          *)
(* The emulated GIC's registers have no lock; FrameInv says that nobody but *)
(* its vCPU ever stores to an SGI frame, and that what the vCPU has loaded  *)
(* from it is what is there still.                                          *)
(*                                                                          *)
(* The stage-2 tables: Forest says that each page taken is a table of one   *)
(* level, reached by the IPAs that share their first digits, by one entry,  *)
(* and that a leaf leads where the region of the IPA says.  The steps of    *)
(* stage2_map keep it because g_s2_lock has one holder, whose walk is at a  *)
(* table that reaches the page it faulted on.  All of it for as long as     *)
(* there are pages: the code takes the answer TOTAL_PAGES of alloc_one_page *)
(* for a page, and NPages stands for that page in used.                     *)
(***************************************************************************)
EXTENDS GuestMem, FiniteSetTheorems, WellFoundedInduction, TLAPS

-----------------------------------------------------------------------------
(* The emulated GIC                                                         *)

Cells == SUBSET (Bits \cup {1})
Regs ==
    [ctlr   : Cells,
     dist   : [Field -> [Words -> Cells]],
     rctlr  : [Frame -> Cells],
     rwaker : [Frame -> Cells],
     redist : [Frame -> [Field -> Cells]]]

(* A set of natural numbers that is not empty has a least element.          *)
LEMMA LeastNumber ==
    ASSUME NEW T \in SUBSET Nat, T # {}
    PROVE  \E m \in T : \A n \in T : m <= n
<1> DEFINE R == {ss \in Nat \X Nat : ss[1] < ss[2]}
<1>1. IsWellFoundedOn(R, Nat)
  BY NatLessThanWellFounded DEF OpToRel
<1> HIDE DEF R
<1>2. \E m \in T : \A n \in T : ~(<<n, m>> \in R)
  BY <1>1, WFMin
<1> USE DEF R
<1>3. PICK m \in T : \A n \in T : ~(<<n, m>> \in R)
  BY <1>2
<1>4. \A n \in T : ~(n < m)
  BY <1>3
<1> QED
  BY <1>4

(* Induction up to n, for a set.                                            *)
LEMMA Upward ==
    ASSUME NEW n \in Nat, NEW G, 0 \in G, \A k \in 0..(n - 1) : k \in G => k + 1 \in G
    PROVE  \A k \in 0..n : k \in G
<1> DEFINE Bad == {k \in 0..n : k \notin G}
<1> SUFFICES ASSUME Bad # {} PROVE FALSE
  OBVIOUS
<1>1. PICK m \in Bad : \A k \in Bad : m <= k
  <2>1. Bad \in SUBSET Nat
    OBVIOUS
  <2> QED
    BY <2>1, LeastNumber
<1>2. m \in 1..n /\ m \notin G
  OBVIOUS
<1>3. m - 1 \in G
  BY <1>1, <1>2
<1>4. m - 1 \in 0..(n - 1) /\ (m - 1) + 1 = m
  BY <1>2
<1> QED
  BY <1>2, <1>3, <1>4

(* The sizes of the tables are numbers.                                     *)
LEMMA LevelsAre == Levels \in Nat \ {0} /\ Fanout \in Nat \ {0, 1} /\ NPages \in Nat \ {0}
BY Stage2Assumption

(* The pages spanned grow by the same factor from level to level.           *)
LEMMA SpanIs ==
    /\ Span[0] = 1
    /\ \A k \in 0..Levels : Span[k] \in Nat \ {0}
    /\ \A k \in 1..Levels : Span[k] = Fanout * Span[k - 1]
<1> DEFINE Eq(f, m) == f = [k \in 0..m |-> IF k = 0 THEN 1 ELSE Fanout * f[k - 1]]
           H == {m \in 0..Levels : \E f : Eq(f, m)}
<1>1. 0 \in H
  <2> DEFINE f == [k \in 0..0 |-> 1]
  <2>1. Eq(f, 0)
    OBVIOUS
  <2> HIDE DEF Eq
  <2> QED
    BY <2>1, LevelsAre
<1>2. ASSUME NEW m \in 0..(Levels - 1), m \in H PROVE m + 1 \in H
  <2>1. PICK f : Eq(f, m)
    BY <1>2
  <2> DEFINE g == [k \in 0..(m + 1) |-> IF k <= m THEN f[k] ELSE Fanout * f[m]]
  <2>2. \A k \in 0..m : g[k] = f[k]
    BY LevelsAre
  <2>3. g[m + 1] = Fanout * f[m]
    BY LevelsAre
  <2>4. \A k \in 0..m : f[k] = IF k = 0 THEN 1 ELSE Fanout * f[k - 1]
    BY <2>1
  <2>5. ASSUME NEW k \in 0..(m + 1) PROVE g[k] = IF k = 0 THEN 1 ELSE Fanout * g[k - 1]
    <3> HIDE DEF g
    <3>1. CASE k = m + 1
      BY <2>2, <2>3, <3>1, LevelsAre
    <3>2. CASE k # m + 1
      <4>1. k \in 0..m /\ (k # 0 => k - 1 \in 0..m)
        BY <3>2, LevelsAre
      <4> QED
        BY <2>2, <2>4, <4>1
    <3> QED
      BY <3>1, <3>2
  <2>6. g = [k \in 0..(m + 1) |-> g[k]]
    OBVIOUS
  <2>7. Eq(g, m + 1)
    <3> HIDE DEF g
    <3> QED
      BY <2>5, <2>6
  <2> HIDE DEF Eq, g
  <2> QED
    BY <2>7, LevelsAre
<1>3. Levels \in H
  <2> HIDE DEF H
  <2> QED
    BY <1>1, <1>2, Upward, LevelsAre
<1>4. \E f : f = [k \in 0..Levels |-> IF k = 0 THEN 1 ELSE Fanout * f[k - 1]]
  BY <1>3
<1>5. Span = [k \in 0..Levels |-> IF k = 0 THEN 1 ELSE Fanout * Span[k - 1]]
  BY <1>4 DEF Span
<1>6. Span[0] = 1 /\ \A k \in 1..Levels : Span[k] = Fanout * Span[k - 1]
  BY <1>5, LevelsAre
<1> DEFINE G == {k \in 0..Levels : Span[k] \in Nat \ {0}}
<1>7. 0 \in G
  BY <1>6, LevelsAre
<1>8. ASSUME NEW k \in 0..(Levels - 1), k \in G PROVE k + 1 \in G
  <2>1. k + 1 \in 1..Levels /\ (k + 1) - 1 = k
    BY LevelsAre
  <2>2. Span[k + 1] = Fanout * Span[k] /\ Span[k] \in Nat \ {0}
    BY <1>6, <1>8, <2>1
  <2> QED
    BY <2>1, <2>2, LevelsAre
<1>9. \A k \in 0..Levels : k \in G
  <2> HIDE DEF G
  <2> QED
    BY <1>7, <1>8, Upward, LevelsAre
<1> QED
  BY <1>6, <1>9

(* guest_mem_find_region answers a region that holds the page.              *)
LEMMA RegionHolds ==
    ASSUME NEW ipa \in Nat, NEW r \in FindRegion(ipa)
    PROVE  \E k \in {1, 2, 3} : r = Regions[k] /\ Regions[k].lo <= ipa /\ ipa < Regions[k].lo + Regions[k].n
<1> DEFINE hit == {k \in DOMAIN Regions : Regions[k].lo <= ipa /\ ipa < Regions[k].lo + Regions[k].n}
<1>1. DOMAIN Regions = {1, 2, 3}
  BY DEF Regions
<1>2. hit \in SUBSET Nat
  BY <1>1
<1>3. hit # {} /\ r = Regions[Min(hit)]
  BY DEF FindRegion
<1>4. Min(hit) \in hit
  <2> HIDE DEF hit
  <2>1. \E m \in hit : \A n \in hit : m <= n
    BY <1>2, <1>3, LeastNumber
  <2> QED
    BY <2>1 DEF Min
<1> QED
  BY <1>1, <1>3, <1>4

(* gic3_read and gic3_write serve the pages of the GIC only.                *)
LEMMA GicPages ==
    ASSUME NEW a, a.ipa \in Nat, AtGic(a)
    PROVE  GicdPage <= a.ipa /\ a.ipa < GicrPage + 2 * GicrFrames
<1>1. PICK r \in FindRegion(a.ipa) : r.name = "gic3"
  BY DEF AtGic
<1>2. PICK k \in {1, 2, 3} : r = Regions[k] /\ Regions[k].lo <= a.ipa /\ a.ipa < Regions[k].lo + Regions[k].n
  BY RegionHolds
<1>3. Regions[2].name = "pl011" /\ Regions[3].name = "ram"
  BY DEF Regions
<1>4. k = 1
  BY <1>1, <1>2, <1>3
<1>5. Regions[1].lo = GicdPage /\ Regions[1].n = GicrPage + 2 * GicrFrames - GicdPage
  BY DEF Regions
<1>6. GicdPage \in Nat /\ GicrPage \in Nat /\ GicrFrames \in Nat
  BY VGicDistAssumption
<1> QED
  BY <1>2, <1>4, <1>5, <1>6

(* The pages and registers that vCPU v reaches.                             *)
LEMMA AccessIs ==
    ASSUME NEW v \in Vcpu, NEW a \in Access(v)
    PROVE  /\ v \in Nat /\ v < VcpuCount
           /\ a.ipa \in Ipa /\ a.ipa \in Nat /\ a.word \in Words /\ a.value \in SUBSET Bits
           /\ a.op = "write" => \/ a.reg = "none"
                                \/ a.ipa \in {GicdPage, GicrPage + 2 * v, GicrPage + 2 * v + 1}
<1>0. /\ v \in Nat /\ v < VcpuCount /\ VcpuCount \in Nat /\ GicdPage \in Nat /\ GicrPage \in Nat
      /\ GicdPage < GicrPage /\ GicrPage + 2 * VcpuCount - 1 \in Ipa
  BY VGicDistAssumption, GuestMemAssumption
<1>1. \A n \in Nat : n <= GicrPage + 2 * VcpuCount - 1 => n \in Ipa
  <2>1. GicrPage + 2 * VcpuCount - 1 \in 0..(Span[Levels] - 1)
    BY <1>0 DEF Ipa
  <2>2. Span[Levels] \in Nat
    BY SpanIs, LevelsAre
  <2> QED
    BY <1>0, <2>1, <2>2 DEF Ipa
<1>2. GicdPage \in Ipa /\ GicrPage + 2 * v \in Ipa /\ GicrPage + 2 * v + 1 \in Ipa
  BY <1>0, <1>1
<1> DEFINE Acc(ipas, ops, regs) ==
        [ipa : ipas, op : ops \ {"read"}, reg : regs, word : Words, value : {Bits}]
        \cup [ipa : ipas, op : ops \cap {"read"}, reg : regs, word : Words, value : {{}}]
<1>3. ASSUME NEW ipas \in SUBSET Ipa, NEW ops, NEW regs, a \in Acc(ipas, ops, regs)
      PROVE  a.ipa \in ipas /\ a.op \in ops /\ a.reg \in regs /\ a.word \in Words /\ a.value \in SUBSET Bits
  BY <1>3
<1>4. \/ a \in Acc({i \in Ipa : i >= RamPage}, {"write"}, {"none"})
      \/ a \in Acc({UartPage}, {"read", "write"}, {"none"})
      \/ a \in Acc({GicdPage}, {"fetch"}, {"none"})
      \/ a \in Acc({GicdPage}, {"read", "write"}, DistRegs)
      \/ a \in Acc({GicrPage + 2 * v}, {"write"}, RdRegs)
      \/ a \in Acc({GicrPage + 2 * v + 1}, {"write"}, SgiRegs)
      \/ a \in Acc({GicrPage + 2 * v}, {"read"}, {"TYPER"})
  BY DEF Access
<1> HIDE DEF Acc
<1>5. Ipa \subseteq Nat
  BY DEF Ipa
<1>6. /\ a.ipa \in Ipa /\ a.word \in Words /\ a.value \in SUBSET Bits
      /\ a.op = "write" => \/ a.reg = "none"
                           \/ a.ipa \in {GicdPage, GicrPage + 2 * v, GicrPage + 2 * v + 1}
  <2>1. CASE a \in Acc({i \in Ipa : i >= RamPage}, {"write"}, {"none"})
    BY <1>3, <2>1
  <2>2. CASE a \in Acc({GicdPage}, {"fetch"}, {"none"})
    BY <1>2, <1>3, <2>2
  <2>3. CASE a \in Acc({GicdPage}, {"read", "write"}, DistRegs)
    BY <1>2, <1>3, <2>3
  <2>4. CASE a \in Acc({GicrPage + 2 * v}, {"write"}, RdRegs)
    BY <1>2, <1>3, <2>4
  <2>5. CASE a \in Acc({GicrPage + 2 * v + 1}, {"write"}, SgiRegs)
    BY <1>2, <1>3, <2>5
  <2>6. CASE a \in Acc({GicrPage + 2 * v}, {"read"}, {"TYPER"})
    BY <1>2, <1>3, <2>6
  <2>7. CASE a \in Acc({UartPage}, {"read", "write"}, {"none"})
    <3>1. {UartPage} \in SUBSET Ipa
      BY GuestMemAssumption
    <3> QED
      BY <1>3, <2>7, <3>1
  <2> QED
    BY <1>4, <2>1, <2>2, <2>3, <2>4, <2>5, <2>6, <2>7
<1> QED
  BY <1>0, <1>5, <1>6

GoodCell(c) ==
    \/ c = [at |-> "ctlr"] \/ c = [at |-> "none"]
    \/ \E f \in Field, w \in Words : c = [at |-> "dist", field |-> f, word |-> w]
    \/ \E n \in Frame : c = [at |-> "rctlr", frame |-> n] \/ c = [at |-> "rwaker", frame |-> n]

SgiPage(v) == GicrPage + 2 * v + 1

(* An emulated write of v reaches a cell of its own SGI frame, through the  *)
(* page of that frame, or none of any SGI frame.                            *)
LEMMA WriteCell ==
    ASSUME NEW v \in Vcpu, NEW a \in Access(v), a.op = "write", AtGic(a)
    PROVE  /\ v \in Frame
           /\ \/ /\ a.ipa = SgiPage(v) /\ a.reg \in DOMAIN GicrWindow
                 /\ Cell(a) = [at |-> "redist", frame |-> v, field |-> GicrWindow[a.reg].field]
              \/ /\ GoodCell(Cell(a))
                 /\ a.ipa = SgiPage(v) => a.reg \notin DOMAIN GicrWindow
           /\ IsRedist(a.ipa) /\ IsSgiFrame(a.ipa) /\ a.reg # "none" => a.ipa = SgiPage(v)
           /\ a.ipa = SgiPage(v) => IsRedist(a.ipa) /\ IsSgiFrame(a.ipa)
<1>0. /\ v \in Nat /\ v < VcpuCount
      /\ a.ipa \in Nat /\ a.word \in Words
      /\ a.reg = "none" \/ a.ipa \in {GicdPage, GicrPage + 2 * v, GicrPage + 2 * v + 1}
  BY AccessIs
<1>1. GicdPage <= a.ipa /\ a.ipa < GicrPage + 2 * GicrFrames
  BY <1>0, GicPages
<1>2. /\ MaxVcpus \in Nat /\ VcpuCount \in Nat /\ VcpuCount <= MaxVcpus
      /\ GicdPage \in Nat /\ GicrPage \in Nat /\ GicrFrames \in Nat /\ GicdPage < GicrPage
  BY VGicDistAssumption
<1>3. v \in Frame /\ v < MaxVcpus
  BY <1>0, <1>2 DEF Frame
<1>4. "none" \notin DOMAIN Window
  BY DEF Window
<1>5. CASE a.ipa = GicdPage
  <2>1. ~IsRedist(a.ipa)
    BY <1>2, <1>5 DEF IsRedist
  <2>2. Cell(a) = DistCell(a)
    BY <2>1 DEF Cell
  <2>3. GoodCell(DistCell(a))
    <3>0. "CTLR" \notin DOMAIN Window
      BY DEF Window
    <3>1. CASE a.reg = "CTLR"
      BY <3>0, <3>1 DEF DistCell, GoodCell
    <3>2. CASE a.reg # "CTLR" /\ a.reg \in DOMAIN Window
      <4>1. DistCell(a) = [at |-> "dist", field |-> Window[a.reg].field, word |-> a.word]
        BY <3>2 DEF DistCell
      <4>2. Window[a.reg].field \in Field
        BY <3>2 DEF Field
      <4> QED
        BY <1>0, <4>1, <4>2 DEF GoodCell
    <3>3. CASE a.reg # "CTLR" /\ a.reg \notin DOMAIN Window
      BY <3>3 DEF DistCell, GoodCell
    <3> QED
      BY <3>1, <3>2, <3>3
  <2>4. a.ipa # SgiPage(v)
    BY <1>0, <1>2, <1>5 DEF SgiPage
  <2> QED
    BY <1>3, <2>1, <2>2, <2>3, <2>4
<1>6. CASE a.ipa = GicrPage + 2 * v
  <2>1. IsRedist(a.ipa) /\ FrameIndex(a.ipa) = v /\ ~IsSgiFrame(a.ipa) /\ a.ipa # SgiPage(v)
    <3>1. a.ipa - GicrPage = 2 * v
      BY <1>0, <1>2, <1>6
    <3>2. (2 * v) \div 2 = v /\ (2 * v) % 2 = 0
      BY <1>0
    <3> QED
      BY <1>0, <1>1, <1>2, <1>6, <3>1, <3>2 DEF IsRedist, FrameIndex, IsSgiFrame, SgiPage
  <2>2. Cell(a) = RedistCell(v, a)
    BY <1>3, <1>0, <1>2, <2>1 DEF Cell
  <2>3. GoodCell(RedistCell(v, a))
    BY <1>3 DEF RedistCell, GoodCell
  <2> QED
    BY <1>3, <2>1, <2>2, <2>3
<1>7. CASE a.ipa = SgiPage(v)
  <2>1. IsRedist(a.ipa) /\ FrameIndex(a.ipa) = v /\ IsSgiFrame(a.ipa)
    <3>1. a.ipa - GicrPage = 2 * v + 1
      BY <1>0, <1>2, <1>7 DEF SgiPage
    <3>2. (2 * v + 1) \div 2 = v /\ (2 * v + 1) % 2 = 1
      BY <1>0
    <3> QED
      BY <1>0, <1>1, <1>2, <1>7, <3>1, <3>2 DEF IsRedist, FrameIndex, IsSgiFrame, SgiPage
  <2>2. Cell(a) = RedistSgiCell(v, a)
    BY <1>3, <1>0, <1>2, <2>1 DEF Cell
  <2> QED
    BY <1>3, <1>7, <2>1, <2>2 DEF RedistSgiCell, GoodCell
<1>8. CASE a.reg = "none" /\ a.ipa # SgiPage(v)
  <2>1. DistCell(a) = [at |-> "none"]
    BY <1>4, <1>8 DEF DistCell
  <2>2. \A n : RedistSgiCell(n, a) = [at |-> "none"] /\ RedistCell(n, a) = [at |-> "none"]
    BY <1>4, <1>8 DEF RedistSgiCell, RedistCell, GicrWindow
  <2>3. Cell(a) = [at |-> "none"]
    BY <2>1, <2>2 DEF Cell
  <2> QED
    BY <1>3, <1>8, <2>3 DEF GoodCell
<1> QED
  BY <1>0, <1>5, <1>6, <1>7, <1>8 DEF SgiPage

-----------------------------------------------------------------------------
(* The handlers                                                             *)

Pc == {"run", "walk", "trans", "map", "access", "store", "dead"}

(* What a vCPU's handler is at, and for which access.                       *)
StInv ==
    /\ st = [v \in Vcpu |-> st[v]]
    /\ \A v \in Vcpu :
          /\ st[v] = [pc |-> st[v].pc, acc |-> st[v].acc, val |-> st[v].val]
          /\ st[v].pc \in Pc
          /\ st[v].pc # "run" => st[v].acc \in Access(v)

(* Goto moves one handler and leaves its access alone.                      *)
LEMMA GotoIs ==
    ASSUME StInv, NEW v \in Vcpu, NEW pc \in Pc, Goto(v, pc)
    PROVE  /\ st'[v].pc = pc /\ st'[v].acc = st[v].acc /\ st'[v].val = st[v].val
           /\ \A u \in Vcpu : u # v => st'[u] = st[u]
           /\ st' = [u \in Vcpu |-> st'[u]]
           /\ \A u \in Vcpu : st'[u] = [pc |-> st'[u].pc, acc |-> st'[u].acc, val |-> st'[u].val]
<1>1. st' = [st EXCEPT ![v].pc = pc]
  BY DEF Goto
<1>2. st' = [u \in Vcpu |-> IF u = v THEN [st[v] EXCEPT !.pc = pc] ELSE st[u]]
  BY <1>1 DEF StInv
<1>3. st[v] = [pc |-> st[v].pc, acc |-> st[v].acc, val |-> st[v].val]
  BY DEF StInv
<1>4. [st[v] EXCEPT !.pc = pc] = [pc |-> pc, acc |-> st[v].acc, val |-> st[v].val]
  BY <1>3
<1>5. st'[v] = [pc |-> pc, acc |-> st[v].acc, val |-> st[v].val]
  BY <1>2, <1>4
<1>6. \A u \in Vcpu : u # v => st'[u] = st[u]
  BY <1>2
<1> QED
  BY <1>2, <1>5, <1>6 DEF StInv

(* Done ends one access.                                                    *)
LEMMA DoneIs ==
    ASSUME StInv, NEW v \in Vcpu, NEW val, Done(v, val)
    PROVE  /\ st'[v].pc = "run" /\ st'[v].acc = NoAccess /\ st'[v].val = val
           /\ \A u \in Vcpu : u # v => st'[u] = st[u]
           /\ st' = [u \in Vcpu |-> st'[u]]
           /\ \A u \in Vcpu : st'[u] = [pc |-> st'[u].pc, acc |-> st'[u].acc, val |-> st'[u].val]
<1>1. st' = [u \in Vcpu |-> IF u = v THEN [pc |-> "run", acc |-> NoAccess, val |-> val] ELSE st[u]]
  BY DEF Done, StInv
<1>2. st'[v] = [pc |-> "run", acc |-> NoAccess, val |-> val]
  BY <1>1
<1>3. \A u \in Vcpu : u # v => st'[u] = st[u]
  BY <1>1
<1> QED
  BY <1>1, <1>2, <1>3 DEF StInv

(* Who moves, and how far: what a step does to the handlers' places.        *)
Moves(v, from, to) ==
    /\ st[v].pc = from /\ st'[v].pc = to
    /\ \A u \in Vcpu : u # v => st'[u] = st[u]
    /\ to # "run" /\ from # "run" => st'[v].acc = st[v].acc

(* Every step of a vCPU is one of its handler's moves, under the condition  *)
(* the handler tests.                                                       *)
LEMMA StMoves ==
    ASSUME StInv, NEW v \in Vcpu, Issue(v) \/ Step(v)
    PROVE  /\ StInv'
           /\ \/ Issue(v) /\ Moves(v, "run", "walk")
              \/ Translate(v) /\ \/ Moves(v, "walk", "trans") /\ Walk(tbl, st[v].acc.ipa).kind # "leaf"
                                 \/ /\ Moves(v, "walk", "access")
                                    /\ Walk(tbl, st[v].acc.ipa).kind = "leaf" /\ ~Walk(tbl, st[v].acc.ipa).af
                                 \/ Moves(v, "walk", "run")
              \/ MapPage(v) /\ \/ Moves(v, "trans", "dead") /\ FindRegion(st[v].acc.ipa) = {} /\ UNCHANGED s2Vars
                               \/ /\ Moves(v, "trans", "map") /\ FindRegion(st[v].acc.ipa) # {}
                                  /\ S2Lock(v, st[v].acc.ipa)
              \/ MapLevel(v) /\ st[v].pc = "map" /\ UNCHANGED st
              \/ MapLeaf(v) /\ Moves(v, "map", "walk")
              \/ EmulateFails(v) /\ Moves(v, "access", "dead")
              \/ EmulateUart(v) /\ Moves(v, "access", "run")
              \/ EmulateRead(v) /\ Moves(v, "access", "run")
              \/ EmulateLoad(v) /\ Moves(v, "access", "store") /\ st'[v].val = Get(vgic, Cell(st[v].acc))
              \/ EmulateStore(v) /\ Moves(v, "store", "run")
<1> USE DEF Pc
<1>1. CASE Issue(v)
  <2>1. PICK a \in Access(v) : st' = [st EXCEPT ![v] = [pc |-> "walk", acc |-> a, val |-> {}]]
    BY <1>1 DEF Issue
  <2>2. st' = [u \in Vcpu |-> IF u = v THEN [pc |-> "walk", acc |-> a, val |-> {}] ELSE st[u]]
    BY <2>1 DEF StInv
  <2>3. st'[v] = [pc |-> "walk", acc |-> a, val |-> {}] /\ \A u \in Vcpu : u # v => st'[u] = st[u]
    BY <2>2
  <2>4. Moves(v, "run", "walk")
    BY <1>1, <2>3 DEF Moves, Issue
  <2>5. /\ st' = [u \in Vcpu |-> st'[u]]
        /\ \A u \in Vcpu :
              /\ st'[u] = [pc |-> st'[u].pc, acc |-> st'[u].acc, val |-> st'[u].val]
              /\ st'[u].pc \in Pc
              /\ st'[u].pc # "run" => st'[u].acc \in Access(u)
    BY <2>2, <2>3 DEF StInv
  <2>6. StInv'
    BY <2>5 DEF StInv, Access
  <2> QED
    BY <1>1, <2>4, <2>6
<1>2. CASE Translate(v)
  <2> DEFINE e == Walk(tbl, st[v].acc.ipa)
  <2>0. st[v].pc = "walk" /\ st[v].acc \in Access(v)
    BY <1>2 DEF Translate, StInv
  <2>1. CASE e.kind # "leaf" /\ Goto(v, "trans")
    <3>1. Moves(v, "walk", "trans")
      BY <2>0, <2>1, GotoIs DEF Moves
    <3>2. StInv'
      BY <2>0, <2>1, GotoIs DEF StInv, Access
    <3> HIDE DEF Pc
    <3> QED
      BY <1>2, <2>1, <3>1, <3>2
  <2>2. CASE e.kind = "leaf" /\ ~e.af /\ Goto(v, "access")
    <3>1. Moves(v, "walk", "access")
      BY <2>0, <2>2, GotoIs DEF Moves
    <3>2. StInv'
      BY <2>0, <2>2, GotoIs DEF StInv, Access
    <3> QED
      BY <1>2, <2>2, <3>1, <3>2
  <2>3. CASE Done(v, {})
    <3>1. Moves(v, "walk", "run")
      BY <2>0, <2>3, DoneIs DEF Moves
    <3>2. StInv'
      BY <2>0, <2>3, DoneIs DEF StInv, Access
    <3> QED
      BY <1>2, <3>1, <3>2
  <2>4. \/ e.kind # "leaf" /\ Goto(v, "trans")
        \/ e.kind = "leaf" /\ ~e.af /\ Goto(v, "access")
        \/ Done(v, {})
    BY <1>2 DEF Translate
  <2> QED
    BY <2>1, <2>2, <2>3, <2>4
<1>3. CASE MapPage(v)
  <2>0. st[v].pc = "trans" /\ st[v].acc \in Access(v)
    BY <1>3 DEF MapPage, StInv
  <2>1. CASE FindRegion(st[v].acc.ipa) = {} /\ Goto(v, "dead") /\ UNCHANGED s2Vars
    <3>1. Moves(v, "trans", "dead")
      BY <2>0, <2>1, GotoIs DEF Moves
    <3>2. StInv'
      BY <2>0, <2>1, GotoIs DEF StInv, Access
    <3> QED
      BY <1>3, <2>1, <3>1, <3>2
  <2>2. CASE FindRegion(st[v].acc.ipa) # {} /\ Goto(v, "map") /\ S2Lock(v, st[v].acc.ipa)
    <3>1. Moves(v, "trans", "map")
      BY <2>0, <2>2, GotoIs DEF Moves
    <3>2. StInv'
      BY <2>0, <2>2, GotoIs DEF StInv, Access
    <3> QED
      BY <1>3, <2>2, <3>1, <3>2
  <2> QED
    BY <1>3, <2>1, <2>2 DEF MapPage
<1>4. CASE MapLevel(v)
  <2>1. st[v].pc = "map" /\ UNCHANGED st
    BY <1>4 DEF MapLevel
  <2>2. StInv'
    BY <2>1 DEF StInv, Access
  <2> QED
    BY <1>4, <2>1, <2>2
<1>5. CASE MapLeaf(v)
  <2>0. st[v].pc = "map" /\ st[v].acc \in Access(v) /\ Goto(v, "walk")
    BY <1>5 DEF MapLeaf, StInv
  <2>1. Moves(v, "map", "walk")
    BY <2>0, GotoIs DEF Moves
  <2>2. StInv'
    BY <2>0, GotoIs DEF StInv, Access
  <2> QED
    BY <1>5, <2>1, <2>2
<1>6. CASE EmulateFails(v)
  <2>0. st[v].pc = "access" /\ st[v].acc \in Access(v) /\ Goto(v, "dead")
    BY <1>6 DEF EmulateFails, StInv
  <2>1. Moves(v, "access", "dead")
    BY <2>0, GotoIs DEF Moves
  <2>2. StInv'
    BY <2>0, GotoIs DEF StInv, Access
  <2> QED
    BY <1>6, <2>1, <2>2
<1>7. CASE EmulateRead(v)
  <2>0. st[v].pc = "access" /\ Done(v, Gic3Read(vgic, st[v].acc))
    BY <1>7 DEF EmulateRead, StInv
  <2>1. Moves(v, "access", "run")
    BY <2>0, DoneIs DEF Moves
  <2>2. StInv'
    BY <2>0, DoneIs DEF StInv, Access
  <2> QED
    BY <1>7, <2>1, <2>2
<1>8. CASE EmulateLoad(v)
  <2> DEFINE val == Get(vgic, Cell(st[v].acc))
             a == st[v].acc
  <2>0. st[v].pc = "access" /\ a \in Access(v)
    BY <1>8 DEF EmulateLoad, StInv
  <2>1. st' = [u \in Vcpu |-> IF u = v THEN [pc |-> "store", acc |-> a, val |-> val] ELSE st[u]]
    BY <1>8 DEF EmulateLoad, StInv
  <2> HIDE DEF val
  <2>4. st'[v] = [pc |-> "store", acc |-> a, val |-> val]
    BY <2>1
  <2>5. \A u \in Vcpu : u # v => st'[u] = st[u]
    BY <2>1
  <2>6. Moves(v, "access", "store") /\ st'[v].val = val
    BY <2>0, <2>4, <2>5 DEF Moves
  <2>7. StInv'
    BY <2>0, <2>1, <2>4, <2>5 DEF StInv, Access
  <2> QED
    BY <1>8, <2>6, <2>7 DEF val
<1>9. CASE EmulateStore(v)
  <2>0. st[v].pc = "store" /\ Done(v, {})
    BY <1>9 DEF EmulateStore, StInv
  <2>1. Moves(v, "store", "run")
    BY <2>0, DoneIs DEF Moves
  <2>2. StInv'
    BY <2>0, DoneIs DEF StInv, Access
  <2> QED
    BY <1>9, <2>1, <2>2
<1>10. CASE EmulateUart(v)
  <2>0. st[v].pc = "access" /\ Done(v, {})
    BY <1>10 DEF EmulateUart, StInv
  <2>1. Moves(v, "access", "run")
    BY <2>0, DoneIs DEF Moves
  <2>2. StInv'
    BY <2>0, DoneIs DEF StInv, Access
  <2> QED
    BY <1>10, <2>1, <2>2
<1> QED
  BY <1>1, <1>2, <1>3, <1>4, <1>5, <1>6, <1>7, <1>8, <1>9, <1>10 DEF Step

-----------------------------------------------------------------------------
(* A vCPU's own frame                                                       *)

(* Between its load and its store no other vCPU's write reaches the SGI     *)
(* frame of v, so what v has loaded from there is still what is there.      *)
FrameInv ==
    /\ vgic \in Regs
    /\ own = [v \in Vcpu |-> own[v]]
    /\ \A v \in Vcpu :
          /\ vgic.redist[v].enable = own[v]
          /\ st[v].pc = "store" =>
                /\ st[v].acc.op = "write" /\ AtGic(st[v].acc) /\ st[v].val \in Cells
                /\ st[v].acc.ipa = SgiPage(v) /\ st[v].acc.reg \in DOMAIN GicrWindow =>
                      st[v].val = vgic.redist[v][GicrWindow[st[v].acc.reg].field]

(* Every vCPU has a redistributor frame of its own.                         *)
LEMMA VcpuFrames == Vcpu \subseteq Frame
BY VGicDistAssumption, GuestMemAssumption DEF Frame

(* What the registers of an SGI frame reach.                                *)
LEMMA WindowFields ==
    /\ "enable" \in Field /\ "priority" \in Field
    /\ \A r \in DOMAIN GicrWindow :
          /\ r \in DOMAIN Window /\ GicrWindow[r] = Window[r]
          /\ Window[r].field \in Field /\ Window[r].mode \in {"raw", "w1s", "w1c"}
          /\ Window[r].field = "enable" => r \in {"ISENABLER", "ICENABLER"}
    /\ Window["ISENABLER"] = [field |-> "enable", mode |-> "w1s"]
    /\ Window["ICENABLER"] = [field |-> "enable", mode |-> "w1c"]
    /\ "ISENABLER" \in DOMAIN GicrWindow /\ "ICENABLER" \in DOMAIN GicrWindow
<1>1. DOMAIN Window = {"IGROUPR", "ISENABLER", "ICENABLER", "ISPENDR", "ICPENDR", "ISACTIVER",
                       "ICACTIVER", "IPRIORITYR", "ICFGR", "IROUTER"}
  BY DEF Window
<1>2. Window["ISENABLER"] = [field |-> "enable", mode |-> "w1s"] /\ Window["ICENABLER"] = [field |-> "enable", mode |-> "w1c"]
  BY DEF Window
<1>3. \A r \in DOMAIN Window : /\ Window[r].mode \in {"raw", "w1s", "w1c"}
                               /\ Window[r].field = "enable" => r \in {"ISENABLER", "ICENABLER"}
  BY <1>1 DEF Window
<1>4. Window["IPRIORITYR"].field = "priority"
  BY DEF Window
<1>5. \A r \in DOMAIN Window : Window[r].field \in Field
  BY DEF Field
<1>6. "enable" \in Field /\ "priority" \in Field
  BY <1>1, <1>2, <1>4, <1>5
<1>7. DOMAIN GicrWindow = DOMAIN Window \ {"IROUTER"} /\ \A r \in DOMAIN GicrWindow : GicrWindow[r] = Window[r]
  BY DEF GicrWindow
<1> QED
  BY <1>1, <1>2, <1>3, <1>5, <1>6, <1>7

(* A write to a cell outside of the SGI frames leaves those alone.          *)
LEMMA PutElsewhere ==
    ASSUME NEW g \in Regs, NEW c, GoodCell(c), NEW bits \in Cells
    PROVE  /\ Put(g, c, bits) \in Regs /\ Put(g, c, bits).redist = g.redist
           /\ Get(g, c) \in Cells
<1>1. CASE c = [at |-> "ctlr"]
  <2>1. c.at = "ctlr"
    BY <1>1
  <2>2. Put(g, c, bits) = [g EXCEPT !.ctlr = bits] /\ Get(g, c) = g.ctlr
    BY <2>1 DEF Put, Get
  <2> QED
    BY <2>2 DEF Regs
<1>2. CASE c = [at |-> "none"]
  <2>1. c.at = "none"
    BY <1>2
  <2>2. Put(g, c, bits) = g /\ Get(g, c) = {}
    BY <2>1 DEF Put, Get
  <2> QED
    BY <2>2 DEF Cells
<1>3. ASSUME NEW f \in Field, NEW w \in Words, c = [at |-> "dist", field |-> f, word |-> w]
      PROVE  /\ Put(g, c, bits) \in Regs /\ Put(g, c, bits).redist = g.redist
             /\ Get(g, c) \in Cells
  <2>1. c.at = "dist" /\ c.field = f /\ c.word = w
    BY <1>3
  <2>2. Put(g, c, bits) = [g EXCEPT !.dist[f][w] = bits] /\ Get(g, c) = g.dist[f][w]
    BY <2>1 DEF Put, Get
  <2> DEFINE x == [g.dist EXCEPT ![f][w] = bits]
  <2>3. g.dist \in [Field -> [Words -> Cells]]
    BY DEF Regs
  <2>4. [g.dist[f] EXCEPT ![w] = bits] \in [Words -> Cells]
    BY <2>3
  <2>5. x \in [Field -> [Words -> Cells]]
    BY <2>3, <2>4
  <2>6. [g EXCEPT !.dist[f][w] = bits] = [g EXCEPT !.dist = x]
    OBVIOUS
  <2>7. g.dist[f][w] \in Cells
    BY <2>3
  <2> HIDE DEF x
  <2> QED
    BY <2>2, <2>5, <2>6, <2>7 DEF Regs
<1>4. ASSUME NEW n \in Frame, c = [at |-> "rctlr", frame |-> n]
      PROVE  /\ Put(g, c, bits) \in Regs /\ Put(g, c, bits).redist = g.redist
             /\ Get(g, c) \in Cells
  <2>1. c.at = "rctlr" /\ c.frame = n
    BY <1>4
  <2>2. Put(g, c, bits) = [g EXCEPT !.rctlr[n] = bits] /\ Get(g, c) = g.rctlr[n]
    BY <2>1 DEF Put, Get
  <2> DEFINE x == [g.rctlr EXCEPT ![n] = bits]
  <2>3. g.rctlr \in [Frame -> Cells]
    BY DEF Regs
  <2>5. x \in [Frame -> Cells]
    BY <2>3
  <2>6. [g EXCEPT !.rctlr[n] = bits] = [g EXCEPT !.rctlr = x]
    OBVIOUS
  <2>7. g.rctlr[n] \in Cells
    BY <2>3
  <2> HIDE DEF x
  <2> QED
    BY <2>2, <2>5, <2>6, <2>7 DEF Regs
<1>5. ASSUME NEW n \in Frame, c = [at |-> "rwaker", frame |-> n]
      PROVE  /\ Put(g, c, bits) \in Regs /\ Put(g, c, bits).redist = g.redist
             /\ Get(g, c) \in Cells
  <2>1. c.at = "rwaker" /\ c.frame = n
    BY <1>5
  <2>2. Put(g, c, bits) = [g EXCEPT !.rwaker[n] = bits] /\ Get(g, c) = g.rwaker[n]
    BY <2>1 DEF Put, Get
  <2> DEFINE x == [g.rwaker EXCEPT ![n] = bits]
  <2>3. g.rwaker \in [Frame -> Cells]
    BY DEF Regs
  <2>5. x \in [Frame -> Cells]
    BY <2>3
  <2>6. [g EXCEPT !.rwaker[n] = bits] = [g EXCEPT !.rwaker = x]
    OBVIOUS
  <2>7. g.rwaker[n] \in Cells
    BY <2>3
  <2> HIDE DEF x
  <2> QED
    BY <2>2, <2>5, <2>6, <2>7 DEF Regs
<1> QED
  BY <1>1, <1>2, <1>3, <1>4, <1>5 DEF GoodCell

(* A write to an SGI frame changes one register of that frame.              *)
LEMMA PutFrame ==
    ASSUME NEW g \in Regs, NEW n \in Frame, NEW f \in Field, NEW bits \in Cells
    PROVE  LET c == [at |-> "redist", frame |-> n, field |-> f]
           IN  /\ Put(g, c, bits) \in Regs
               /\ Put(g, c, bits).redist = [g.redist EXCEPT ![n][f] = bits]
               /\ Get(g, c) = g.redist[n][f] /\ Get(g, c) \in Cells
<1> DEFINE c == [at |-> "redist", frame |-> n, field |-> f]
<1>1. c.at = "redist" /\ c.frame = n /\ c.field = f
  OBVIOUS
<1> HIDE DEF c
<1>2. Put(g, c, bits) = [g EXCEPT !.redist[n][f] = bits] /\ Get(g, c) = g.redist[n][f]
  BY <1>1 DEF Put, Get
<1> DEFINE x == [g.redist EXCEPT ![n][f] = bits]
<1>3. g.redist \in [Frame -> [Field -> Cells]]
  BY DEF Regs
<1>4. [g.redist[n] EXCEPT ![f] = bits] \in [Field -> Cells]
  BY <1>3
<1>5. x \in [Frame -> [Field -> Cells]]
  BY <1>3, <1>4
<1>6. [g EXCEPT !.redist[n][f] = bits] = [g EXCEPT !.redist = x]
  OBVIOUS
<1>7. g.redist[n][f] \in Cells
  BY <1>3
<1> HIDE DEF x
<1>8. Put(g, c, bits) \in Regs /\ Put(g, c, bits).redist = x
  BY <1>2, <1>5, <1>6 DEF Regs
<1> QED
  BY <1>2, <1>7, <1>8 DEF c, x

(* What a write makes of a cell is a cell's content.                        *)
LEMMA MergeCells ==
    ASSUME NEW a, a.value \in SUBSET Bits, NEW old \in Cells
    PROVE  Merge(a, old, a.value) \in Cells
<1>1. \A r \in DOMAIN Window : Window[r].mode \in {"raw", "w1s", "w1c"}
  BY DEF Window
<1> DEFINE mode == IF a.reg \in DOMAIN Window THEN Window[a.reg].mode ELSE "raw"
<1>2. mode \in {"raw", "w1s", "w1c"}
  BY <1>1
<1>3. Merge(a, old, a.value) =
          CASE Cell(a).at = "rwaker" -> a.value \cap {1}
            [] mode = "raw" /\ Cell(a).at # "rwaker" -> a.value
            [] mode = "w1s" -> old \cup a.value
            [] mode = "w1c" -> old \ a.value
  BY DEF Merge
<1> HIDE DEF mode
<1> QED
  BY <1>2, <1>3 DEF Cells

(* A load from an SGI frame answers the field of that frame.                *)
LEMMA GetFrame ==
    ASSUME NEW g \in Regs, NEW n \in Frame, NEW f \in Field
    PROVE  /\ Get(g, [at |-> "redist", frame |-> n, field |-> f]) = g.redist[n][f]
           /\ g.redist[n][f] \in Cells
<1>1. Get(g, [at |-> "redist", frame |-> n, field |-> f]) = g.redist[n][f]
  BY DEF Get
<1>2. g.redist \in [Frame -> [Field -> Cells]]
  BY DEF Regs
<1> QED
  BY <1>1, <1>2

(* What a vCPU wants of its own frame and what a store makes of it agree.   *)
LEMMA StoreIsWanted ==
    ASSUME NEW v \in Vcpu, NEW a \in Access(v), a.op = "write", AtGic(a), NEW old, NEW was,
           a.ipa = SgiPage(v), a.reg \in DOMAIN GicrWindow
    PROVE  /\ GicrWindow[a.reg].field = "enable" => Merge(a, old, a.value) = Wanted(a, old)
           /\ GicrWindow[a.reg].field # "enable" => Wanted(a, was) = was
<1>1. Cell(a).at = "redist" /\ IsRedist(a.ipa) /\ IsSgiFrame(a.ipa)
  BY WriteCell
<1>2. /\ a.reg \in DOMAIN Window /\ GicrWindow[a.reg] = Window[a.reg]
      /\ Window[a.reg].field = "enable" => a.reg \in {"ISENABLER", "ICENABLER"}
      /\ Window["ISENABLER"].field = "enable" /\ Window["ISENABLER"].mode = "w1s"
      /\ Window["ICENABLER"].field = "enable" /\ Window["ICENABLER"].mode = "w1c"
  BY WindowFields
<1>3. CASE a.reg = "ISENABLER"
  <2>1. Merge(a, old, a.value) = old \cup a.value
    BY <1>1, <1>2, <1>3 DEF Merge
  <2>2. Wanted(a, old) = old \cup a.value
    BY <1>1, <1>3 DEF Wanted
  <2> QED
    BY <1>2, <1>3, <2>1, <2>2
<1>4. CASE a.reg = "ICENABLER"
  <2>1. Merge(a, old, a.value) = old \ a.value
    BY <1>1, <1>2, <1>4 DEF Merge
  <2>2. Wanted(a, old) = old \ a.value
    BY <1>1, <1>4 DEF Wanted
  <2> QED
    BY <1>2, <1>4, <2>1, <2>2
<1>5. CASE a.reg \notin {"ISENABLER", "ICENABLER"}
  <2>1. Wanted(a, was) = was
    BY <1>5 DEF Wanted
  <2> QED
    BY <1>2, <1>5, <2>1
<1> QED
  BY <1>3, <1>4, <1>5

(* A write elsewhere is not one the vCPU counts as of its own frame.        *)
LEMMA NothingWanted ==
    ASSUME NEW v \in Vcpu, NEW a \in Access(v), a.op = "write", AtGic(a), NEW was,
           ~(a.ipa = SgiPage(v) /\ a.reg \in DOMAIN GicrWindow)
    PROVE  Wanted(a, was) = was
<1>1. IsRedist(a.ipa) /\ IsSgiFrame(a.ipa) /\ a.reg # "none" => a.ipa = SgiPage(v)
  BY WriteCell
<1>2. "ISENABLER" \in DOMAIN GicrWindow /\ "ICENABLER" \in DOMAIN GicrWindow
  BY WindowFields
<1>3. ~(IsRedist(a.ipa) /\ IsSgiFrame(a.ipa) /\ a.reg = "ISENABLER")
  BY <1>1, <1>2
<1>4. ~(IsRedist(a.ipa) /\ IsSgiFrame(a.ipa) /\ a.reg = "ICENABLER")
  BY <1>1, <1>2
<1> QED
  BY <1>3, <1>4 DEF Wanted

(* The store of a write: the frame it reaches is the writer's own, so what  *)
(* another vCPU has loaded meanwhile is not out of date.                    *)
LEMMA StoreKeepsFrames ==
    ASSUME StInv, FrameInv, NEW v \in Vcpu, EmulateStore(v), Moves(v, "store", "run")
    PROVE  FrameInv'
<1> DEFINE a == st[v].acc
           old == st[v].val
           bits == Merge(a, old, a.value)
           c == Cell(a)
<1>1. a \in Access(v) /\ a.op = "write" /\ AtGic(a) /\ old \in Cells
  BY DEF StInv, FrameInv, Moves
<1>2. a.value \in SUBSET Bits
  BY <1>1, AccessIs
<1>3. bits \in Cells
  BY <1>1, <1>2, MergeCells
<1>4. vgic' = Put(vgic, c, bits) /\ own' = [own EXCEPT ![v] = Wanted(a, own[v])]
  BY DEF EmulateStore
<1>5. own' = [u \in Vcpu |-> IF u = v THEN Wanted(a, own[v]) ELSE own[u]]
  BY <1>4 DEF FrameInv
<1>6. vgic \in Regs /\ vgic.redist \in [Frame -> [Field -> Cells]] /\ v \in Frame
  BY VcpuFrames DEF FrameInv, Regs
<1>7. \A u \in Vcpu : st'[u].pc = "store" => u # v /\ st'[u] = st[u]
  BY DEF Moves
<1>8. "enable" \in Field
  BY WindowFields
<1>9. CASE a.ipa = SgiPage(v) /\ a.reg \in DOMAIN GicrWindow
  <2> DEFINE f == GicrWindow[a.reg].field
  <2>1. c = [at |-> "redist", frame |-> v, field |-> f]
    BY <1>1, <1>9, WriteCell
  <2>2. f \in Field
    BY <1>9, WindowFields
  <2>3. old = vgic.redist[v][f]
    BY <1>9 DEF FrameInv, Moves
  <2>4. vgic' \in Regs /\ vgic'.redist = [vgic.redist EXCEPT ![v][f] = bits]
    BY <1>3, <1>4, <1>6, <2>1, <2>2, PutFrame
  <2>5. /\ f = "enable" => bits = Wanted(a, old)
        /\ f # "enable" => Wanted(a, own[v]) = own[v]
    BY <1>1, <1>9, StoreIsWanted
  <2> HIDE DEF bits, f, a, old, c
  <2>6. vgic'.redist[v] = [vgic.redist[v] EXCEPT ![f] = bits]
    BY <1>6, <2>4
  <2>7. vgic'.redist[v].enable = own'[v]
    <3>1. vgic.redist[v].enable = own[v]
      BY DEF FrameInv
    <3>2. own'[v] = Wanted(a, own[v])
      BY <1>5
    <3>3. vgic.redist[v] \in [Field -> Cells]
      BY <1>6
    <3>4. CASE f = "enable"
      <4>1. vgic'.redist[v].enable = bits
        BY <1>8, <2>6, <3>3, <3>4
      <4>2. old = own[v]
        BY <2>3, <3>1, <3>4
      <4> QED
        BY <2>5, <3>2, <3>4, <4>1, <4>2
    <3>5. CASE f # "enable"
      <4>1. vgic'.redist[v].enable = vgic.redist[v].enable
        BY <1>8, <2>6, <3>3, <3>5
      <4> QED
        BY <2>5, <3>1, <3>2, <3>5, <4>1
    <3> QED
      BY <3>4, <3>5
  <2>8. \A u \in Vcpu : u # v => vgic'.redist[u] = vgic.redist[u] /\ own'[u] = own[u]
    BY <1>5, <1>6, <2>4, VcpuFrames
  <2>9. own' = [u \in Vcpu |-> own'[u]]
    BY <1>5
  <2> QED
    BY <1>7, <2>4, <2>7, <2>8, <2>9 DEF FrameInv
<1>10. CASE ~(a.ipa = SgiPage(v) /\ a.reg \in DOMAIN GicrWindow)
  <2>1. GoodCell(c)
    BY <1>1, <1>10, WriteCell
  <2>2. vgic' \in Regs /\ vgic'.redist = vgic.redist
    BY <1>3, <1>4, <1>6, <2>1, PutElsewhere
  <2>3. own' = own
    <3>1. Wanted(a, own[v]) = own[v]
      BY <1>1, <1>10, NothingWanted
    <3>2. own = [u \in Vcpu |-> own[u]]
      BY DEF FrameInv
    <3> HIDE DEF a
    <3> QED
      BY <1>5, <3>1, <3>2
  <2> HIDE DEF a, bits, old, c
  <2> QED
    BY <1>7, <2>2, <2>3 DEF FrameInv
<1> QED
  BY <1>9, <1>10

(* Every step keeps FrameInv.                                               *)
LEMMA FrameStep ==
    ASSUME StInv, FrameInv, [GmNext]_gmVars
    PROVE  FrameInv'
<1>0. CASE UNCHANGED gmVars
  BY <1>0 DEF gmVars, FrameInv
<1>1. ASSUME NEW v \in Vcpu, Issue(v) \/ Step(v), UNCHANGED <<vgic, own>>,
             \A u \in Vcpu : st'[u].pc = "store" => st'[u] = st[u]
      PROVE  FrameInv'
  BY <1>1 DEF FrameInv
<1>2. ASSUME NEW v \in Vcpu, EmulateLoad(v), Moves(v, "access", "store"), st'[v].val = Get(vgic, Cell(st[v].acc))
      PROVE  FrameInv'
  <2> DEFINE a == st[v].acc
  <2>1. a \in Access(v) /\ a.op = "write" /\ AtGic(a) /\ UNCHANGED <<vgic, own>>
    BY <1>2 DEF EmulateLoad, StInv, Moves
  <2>2. vgic \in Regs /\ v \in Frame
    BY VcpuFrames DEF FrameInv
  <2>3. {} \in Cells
    BY DEF Cells
  <2>4. /\ st'[v].val \in Cells
        /\ a.ipa = SgiPage(v) /\ a.reg \in DOMAIN GicrWindow =>
              st'[v].val = vgic.redist[v][GicrWindow[a.reg].field]
    <3>1. CASE a.ipa = SgiPage(v) /\ a.reg \in DOMAIN GicrWindow
      <4>1. Cell(a) = [at |-> "redist", frame |-> v, field |-> GicrWindow[a.reg].field]
        BY <2>1, <3>1, WriteCell
      <4>2. GicrWindow[a.reg].field \in Field
        BY <3>1, WindowFields
      <4> DEFINE f == GicrWindow[a.reg].field
      <4>3. Get(vgic, [at |-> "redist", frame |-> v, field |-> f]) = vgic.redist[v][f] /\ vgic.redist[v][f] \in Cells
        <5>1. f \in Field
          BY <4>2
        <5> HIDE DEF f
        <5> QED
          BY <2>2, <5>1, GetFrame
      <4> QED
        BY <1>2, <4>1, <4>3
    <3>2. CASE ~(a.ipa = SgiPage(v) /\ a.reg \in DOMAIN GicrWindow)
      <4>1. GoodCell(Cell(a))
        BY <2>1, <3>2, WriteCell
      <4> QED
        BY <1>2, <2>2, <2>3, <3>2, <4>1, PutElsewhere
    <3> QED
      BY <3>1, <3>2
  <2>5. st'[v].acc = a /\ \A u \in Vcpu : u # v => st'[u] = st[u]
    BY <1>2 DEF Moves
  <2> HIDE DEF a
  <2> QED
    BY <2>1, <2>4, <2>5 DEF FrameInv
<1>3. ASSUME NEW v \in Vcpu, Issue(v) \/ Step(v) PROVE FrameInv'
  <2>1. CASE EmulateStore(v) /\ Moves(v, "store", "run")
    BY <2>1, StoreKeepsFrames
  <2>2. CASE EmulateLoad(v) /\ Moves(v, "access", "store") /\ st'[v].val = Get(vgic, Cell(st[v].acc))
    BY <1>2, <2>2
  <2>3. CASE UNCHANGED <<vgic, own>> /\ \A u \in Vcpu : st'[u].pc = "store" => st'[u] = st[u]
    BY <1>1, <1>3, <2>3
  <2>4. \A to : to # "store" => (\A from : Moves(v, from, to) => \A u \in Vcpu : st'[u].pc = "store" => st'[u] = st[u])
    BY DEF Moves
  <2>5. \/ EmulateStore(v) /\ Moves(v, "store", "run")
        \/ EmulateLoad(v) /\ Moves(v, "access", "store") /\ st'[v].val = Get(vgic, Cell(st[v].acc))
        \/ UNCHANGED <<vgic, own>> /\ \A u \in Vcpu : st'[u].pc = "store" => st'[u] = st[u]
    <3>1. CASE Issue(v) /\ Moves(v, "run", "walk")
      BY <2>4, <3>1 DEF Issue
    <3>2. CASE Translate(v) /\ (Moves(v, "walk", "trans") \/ Moves(v, "walk", "access") \/ Moves(v, "walk", "run"))
      BY <2>4, <3>2 DEF Translate
    <3>3. CASE MapPage(v) /\ (Moves(v, "trans", "dead") \/ Moves(v, "trans", "map"))
      BY <2>4, <3>3 DEF MapPage
    <3>4. CASE MapLevel(v) /\ UNCHANGED st
      BY <3>4 DEF MapLevel
    <3>5. CASE MapLeaf(v) /\ Moves(v, "map", "walk")
      BY <2>4, <3>5 DEF MapLeaf
    <3>6. CASE EmulateFails(v) /\ Moves(v, "access", "dead")
      BY <2>4, <3>6 DEF EmulateFails
    <3>7. CASE EmulateRead(v) /\ Moves(v, "access", "run")
      BY <2>4, <3>7 DEF EmulateRead
    <3>8. CASE EmulateUart(v) /\ Moves(v, "access", "run")
      BY <2>4, <3>8 DEF EmulateUart
    <3> QED
      BY <1>3, StMoves, <3>1, <3>2, <3>3, <3>4, <3>5, <3>6, <3>7, <3>8
  <2> QED
    BY <2>1, <2>2, <2>3, <2>5
<1> QED
  BY <1>0, <1>3 DEF GmNext

(* Every step keeps StInv.                                                  *)
LEMMA StStep ==
    ASSUME StInv, [GmNext]_gmVars
    PROVE  StInv'
<1>1. CASE UNCHANGED gmVars
  BY <1>1 DEF gmVars, StInv, Access
<1> QED
  BY <1>1, StMoves DEF GmNext

(* The handlers and the register file start as the invariants say.          *)
LEMMA StStart == GmInit => StInv /\ FrameInv
<1> SUFFICES ASSUME GmInit PROVE StInv /\ FrameInv
  OBVIOUS
<1>1. StInv
  BY DEF GmInit, StInv, Pc
<1>2. vgic = GicRegisterEmul /\ own = [v \in Vcpu |-> {}]
  BY DEF GmInit
<1>3. \A f : Fresh(f) \in Cells
  BY DEF Fresh, Cells
<1>4. GicRegisterEmul \in Regs
  BY <1>3 DEF GicRegisterEmul, Regs, Cells
<1>5. \A v \in Vcpu : GicRegisterEmul.redist[v].enable = {}
  BY VcpuFrames, WindowFields DEF GicRegisterEmul, Fresh
<1>6. \A v \in Vcpu : st[v].pc # "store"
  BY DEF GmInit
<1> QED
  BY <1>1, <1>2, <1>4, <1>5, <1>6 DEF FrameInv

(* The register file of the emulated GIC has no lock, and a write loads and *)
(* stores apart; yet what a vCPU enabled in its own redistributor is there  *)
(* whenever it is not in the middle of a write.                             *)
THEOREM OwnFrame == GmSpec => []OwnFrameKept
<1>1. StInv /\ FrameInv /\ [GmNext]_gmVars => (StInv /\ FrameInv)'
  BY StStep, FrameStep
<1>2. FrameInv => OwnFrameKept
  BY DEF FrameInv, OwnFrameKept
<1> QED
  BY <1>1, <1>2, StStart, PTL DEF GmSpec

-----------------------------------------------------------------------------
(* The digits of an IPA                                                     *)

(* A quotient is known by its bounds.                                       *)
LEMMA DivIs ==
    ASSUME NEW a \in Nat, NEW D \in Nat \ {0}, NEW x \in Nat, x * D <= a, a < x * D + D
    PROVE  a \div D = x
<1> DEFINE y == a \div D
<1>1. y \in Nat /\ y * D <= a /\ a < y * D + D
  OBVIOUS
<1> HIDE DEF y
<1>2. ASSUME x < y PROVE FALSE
  <2>1. (x + 1) * D <= y * D
    BY <1>1, <1>2
  <2>2. (x + 1) * D = x * D + D
    OBVIOUS
  <2>3. x * D \in Nat /\ y * D \in Nat
    BY <1>1
  <2> QED
    BY <1>1, <2>1, <2>2, <2>3
<1>3. ASSUME y < x PROVE FALSE
  <2>1. (y + 1) * D <= x * D
    BY <1>1, <1>3
  <2>2. (y + 1) * D = y * D + D
    BY <1>1
  <2>3. x * D \in Nat /\ y * D \in Nat
    BY <1>1
  <2> QED
    BY <1>1, <2>1, <2>2, <2>3
<1>4. y = x
  BY <1>1, <1>2, <1>3
<1> QED
  BY <1>4 DEF y

(* A number in base F, shifted by one digit.                                *)
LEMMA DivDiv ==
    ASSUME NEW a \in Nat, NEW S \in Nat \ {0}, NEW F \in Nat \ {0}
    PROVE  a \div S = (a \div (F * S)) * F + ((a \div S) % F)
<1> DEFINE q == a \div S
           r == q \div F
<1>1. q \in Nat /\ q * S <= a /\ a < q * S + S /\ q * S \in Nat
  OBVIOUS
<1>2. r \in Nat /\ r * F <= q /\ q + 1 <= r * F + F /\ q = r * F + (q % F) /\ r * F \in Nat
  BY <1>1
<1> HIDE DEF q, r
<1>3. F * S \in Nat \ {0} /\ r * (F * S) = (r * F) * S /\ (r * F + F) * S = r * (F * S) + F * S
  BY <1>2
<1>4. (r * F) * S <= q * S
  BY <1>1, <1>2
<1>5. (q + 1) * S <= (r * F + F) * S /\ (q + 1) * S = q * S + S
  BY <1>1, <1>2
<1>6. r * (F * S) \in Nat /\ (r * F) * S \in Nat /\ (r * F + F) * S \in Nat
  BY <1>2, <1>3
<1> DEFINE D == F * S
<1>7. r * D <= a /\ a < r * D + D /\ D \in Nat \ {0}
  <2>1. r * D <= a
    BY <1>1, <1>3, <1>4, <1>6
  <2>2. a < r * D + D
    BY <1>1, <1>3, <1>5, <1>6
  <2> QED
    BY <1>3, <2>1, <2>2
<1> HIDE DEF D
<1>8. a \div D = r
  BY <1>2, <1>7, DivIs
<1> QED
  BY <1>2, <1>8 DEF D, q

(* pte_offset is an index of a table.                                       *)
LEMMA OffsetSlot ==
    ASSUME NEW i \in Nat, NEW l \in 1..Levels
    PROVE  PteOffset(i, l) \in 0..(Fanout - 1)
<1> DEFINE S == Span[Levels - l]
<1>1. Levels - l \in 0..Levels
  BY LevelsAre
<1>2. S \in Nat \ {0}
  BY <1>1, SpanIs
<1> HIDE DEF S
<1>3. i \div S \in Nat
  BY <1>2
<1>4. (i \div S) % Fanout \in 0..(Fanout - 1)
  BY <1>3, LevelsAre
<1> QED
  BY <1>4 DEF PteOffset, S

(* An IPA is the only one with its offsets.                                 *)
LEMMA DigitsUnique ==
    ASSUME NEW i \in Ipa, NEW j \in Ipa, \A l \in 1..Levels : PteOffset(i, l) = PteOffset(j, l)
    PROVE  i = j
<1>0. Span[Levels] \in Nat \ {0} /\ Span[0] = 1
  BY SpanIs, LevelsAre
<1>1. i \in Nat /\ j \in Nat /\ i < Span[Levels] /\ j < Span[Levels]
  BY <1>0 DEF Ipa
<1> DEFINE G == {l \in 0..Levels : i \div Span[Levels - l] = j \div Span[Levels - l]}
<1>2. 0 \in G
  <2>1. Levels - 0 = Levels
    BY LevelsAre
  <2> DEFINE D == Span[Levels]
  <2>2. D \in Nat \ {0} /\ i < D /\ j < D
    BY <1>0, <1>1
  <2> HIDE DEF D
  <2>3. i \div D = 0 /\ j \div D = 0
    BY <1>1, <2>2, DivIs
  <2> QED
    BY <2>1, <2>3, LevelsAre DEF D
<1>3. ASSUME NEW l \in 0..(Levels - 1), l \in G PROVE l + 1 \in G
  <2> DEFINE S == Span[Levels - (l + 1)]
             T == Span[Levels - l]
  <2>1. Levels - l \in 1..Levels /\ (Levels - l) - 1 = Levels - (l + 1) /\ l + 1 \in 1..Levels
        /\ Levels - (l + 1) \in 0..Levels
    BY LevelsAre
  <2>2. S \in Nat \ {0} /\ T = Fanout * S
    BY <2>1, SpanIs
  <2>3. (i \div S) % Fanout = (j \div S) % Fanout
    BY <2>1 DEF PteOffset
  <2>4. i \div T = j \div T
    BY <1>3
  <2>5. l + 1 \in 0..Levels
    BY <2>1
  <2> HIDE DEF S, T
  <2>6. i \div S = (i \div (Fanout * S)) * Fanout + ((i \div S) % Fanout)
    BY <1>1, <2>2, DivDiv, LevelsAre
  <2>7. j \div S = (j \div (Fanout * S)) * Fanout + ((j \div S) % Fanout)
    BY <1>1, <2>2, DivDiv, LevelsAre
  <2>8. i \div S = j \div S
    BY <2>2, <2>3, <2>4, <2>6, <2>7
  <2> QED
    BY <2>5, <2>8 DEF S
<1>4. Levels \in G
  <2> HIDE DEF G
  <2>1. \A l \in 0..Levels : l \in G
    BY <1>2, <1>3, Upward, LevelsAre
  <2> QED
    BY <2>1, LevelsAre
<1>5. i \div 1 = j \div 1
  <2>1. Levels - Levels = 0
    BY LevelsAre
  <2> QED
    BY <1>0, <1>4, <2>1
<1> QED
  BY <1>1, <1>5

-----------------------------------------------------------------------------
(* The walk                                                                 *)

PageAt(down, l) ==
    IF l = 1 THEN Root ELSE IF down[l - 1].kind = "table" THEN down[l - 1].page ELSE NPages + 1

(* The hardware goes down a level at a time.                                *)
LEMMA WalkDown ==
    ASSUME NEW t, NEW ipa
    PROVE  \E down :
               /\ Walk(t, ipa) = down[Levels]
               /\ \A l \in 1..Levels :
                     down[l] = IF PageAt(down, l) > NPages THEN Invalid
                               ELSE t[PageAt(down, l)][PteOffset(ipa, l)]
<1> DEFINE Body(f, l) == IF PageAt(f, l) > NPages THEN Invalid ELSE t[PageAt(f, l)][PteOffset(ipa, l)]
           Eq(f, m) == f = [l \in 1..m |-> Body(f, l)]
           H == {m \in 0..Levels : \E f : Eq(f, m)}
<1>1. 0 \in H
  <2> DEFINE f == [l \in 1..0 |-> 0]
  <2>1. Eq(f, 0)
    <3> HIDE DEF Body
    <3> QED
      OBVIOUS
  <2> HIDE DEF Eq
  <2> QED
    BY <2>1, LevelsAre
<1>2. ASSUME NEW m \in 0..(Levels - 1), m \in H PROVE m + 1 \in H
  <2>1. PICK f : Eq(f, m)
    BY <1>2
  <2> DEFINE g == [l \in 1..(m + 1) |-> IF l <= m THEN f[l] ELSE Body(f, m + 1)]
  <2>2. \A l \in 1..m : g[l] = f[l]
    BY LevelsAre
  <2>3. g[m + 1] = Body(f, m + 1)
    <3> HIDE DEF Body
    <3> QED
      BY LevelsAre
  <2>4. \A l \in 1..m : f[l] = Body(f, l)
    <3> HIDE DEF Body
    <3> QED
      BY <2>1
  <2>5. \A l \in 1..(m + 1) : PageAt(g, l) = PageAt(f, l)
    <3> SUFFICES ASSUME NEW l \in 1..(m + 1) PROVE PageAt(g, l) = PageAt(f, l)
      OBVIOUS
    <3>1. l # 1 => g[l - 1] = f[l - 1]
      <4>1. l # 1 => l - 1 \in 1..m
        BY LevelsAre
      <4> HIDE DEF g
      <4> QED
        BY <2>2, <4>1
    <3> HIDE DEF g
    <3> QED
      BY <3>1 DEF PageAt
  <2>6. ASSUME NEW l \in 1..(m + 1) PROVE g[l] = Body(g, l)
    <3>1. Body(g, l) = Body(f, l)
      BY <2>5
    <3>2. l = m + 1 \/ l \in 1..m
      BY LevelsAre
    <3> HIDE DEF g, Body
    <3> QED
      BY <2>2, <2>3, <2>4, <3>1, <3>2
  <2>7. g = [l \in 1..(m + 1) |-> g[l]]
    <3> HIDE DEF Body
    <3> QED
      OBVIOUS
  <2>8. Eq(g, m + 1)
    <3> HIDE DEF g, Body
    <3> QED
      BY <2>6, <2>7
  <2> HIDE DEF Eq, g
  <2> QED
    BY <2>8, LevelsAre
<1>3. Levels \in H
  <2> HIDE DEF H
  <2> QED
    BY <1>1, <1>2, Upward, LevelsAre
<1> DEFINE down[level \in 1..Levels] ==
        LET page == IF level = 1 THEN Root
                    ELSE IF down[level - 1].kind = "table" THEN down[level - 1].page ELSE NPages + 1
        IN  IF page > NPages THEN Invalid ELSE t[page][PteOffset(ipa, level)]
<1>4. \E f : f = [level \in 1..Levels |->
                     LET page == IF level = 1 THEN Root
                                 ELSE IF f[level - 1].kind = "table" THEN f[level - 1].page ELSE NPages + 1
                     IN  IF page > NPages THEN Invalid ELSE t[page][PteOffset(ipa, level)]]
  BY <1>3 DEF PageAt
<1>5. down = [level \in 1..Levels |->
                 LET page == IF level = 1 THEN Root
                             ELSE IF down[level - 1].kind = "table" THEN down[level - 1].page ELSE NPages + 1
                 IN  IF page > NPages THEN Invalid ELSE t[page][PteOffset(ipa, level)]]
  BY <1>4
<1>6. Walk(t, ipa) = down[Levels]
  BY DEF Walk
<1> HIDE DEF down
<1>7. \A l \in 1..Levels : down[l] = Body(down, l)
  BY <1>5 DEF PageAt
<1> QED
  BY <1>6, <1>7

-----------------------------------------------------------------------------
(* The tables                                                               *)

Table == 0..NPages
Slot == 0..(Fanout - 1)
Leaf == [kind : {"leaf"}, hpa : Ipa, af : BOOLEAN]
Entry == {Invalid} \cup {TableAt(p) : p \in Table} \cup Leaf

IsLink(e) == e.kind = "table"

(* What a leaf for page i may say.                                          *)
LeafOf(i) == IF i \in BootMap THEN IdentityOf(i) ELSE EntryFor(i)

(* Tables t over the pages u form a tree: a page p is a table of level      *)
(* lev[p], through which the hardware walks for the IPAs of reach[p].       *)
Links(t, u, lev, reach) ==
    \A p \in Table, x \in Slot : IsLink(t[p][x]) =>
        /\ p \in u /\ t[p][x].page \in u /\ t[p][x].page # Root
        /\ lev[t[p][x].page] = lev[p] + 1
        /\ reach[t[p][x].page] = {i \in reach[p] : PteOffset(i, lev[p]) = x}
Leaves(t, u, lev, reach) ==
    \A p \in Table, x \in Slot : t[p][x].kind = "leaf" =>
        /\ p \in u /\ lev[p] = Levels
        /\ \A i \in reach[p] : PteOffset(i, Levels) = x => t[p][x] \in LeafOf(i)
Agree(lev, reach) ==
    \A p \in Table : \A i, j \in reach[p] : \A l \in 1..(lev[p] - 1) : PteOffset(i, l) = PteOffset(j, l)
OneLink(t) ==
    \A p, q \in Table : \A x, y \in Slot :
        IsLink(t[p][x]) /\ IsLink(t[q][y]) /\ t[p][x].page = t[q][y].page => p = q /\ x = y

ForestType(t, u, lev, reach) ==
    /\ t \in [Table -> [Slot -> Entry]]
    /\ u \in SUBSET (0..(NPages - 1)) /\ Root \in u
    /\ lev \in [Table -> 1..Levels] /\ reach \in [Table -> SUBSET Ipa]
    /\ lev[Root] = 1 /\ reach[Root] = Ipa

Linked(t, q) == \E p \in Table, x \in Slot : IsLink(t[p][x]) /\ t[p][x].page = q

(* The pages that no entry leads to, but for the root, are those of fr:     *)
(* taken, cleared and not entered yet.                                      *)
Loose(t, u, fr) ==
    /\ \A q \in u : q \in fr \/ q = Root \/ Linked(t, q)
    /\ \A q \in fr : q \in u /\ q # Root /\ ~Linked(t, q) /\ t[q] = ZeroPage

Forest(t, u, fr, lev, reach) ==
    /\ ForestType(t, u, lev, reach)
    /\ Links(t, u, lev, reach)
    /\ Leaves(t, u, lev, reach)
    /\ Agree(lev, reach)
    /\ OneLink(t)
    /\ Loose(t, u, fr)

(* Links, leaves and empty entries are told apart by their kind.            *)
LEMMA Kinds ==
    /\ \A p : IsLink(TableAt(p)) /\ TableAt(p).page = p /\ TableAt(p).kind # "leaf"
    /\ ~IsLink(Invalid) /\ Invalid.kind # "leaf"
    /\ \A e \in Leaf : e.kind = "leaf" /\ ~IsLink(e)
    /\ \A x \in Slot : ZeroPage[x] = Invalid
    /\ ZeroPage \in [Slot -> Entry]
    /\ \A e \in Entry : IsLink(e) => e.page \in Table
BY DEF IsLink, TableAt, Invalid, Leaf, ZeroPage, Slot, Entry

(* The root, and every page taken, is a table.                              *)
LEMMA TablePages ==
    /\ Root \in Table /\ \A u \in SUBSET (0..(NPages - 1)) : u \subseteq Table
    /\ NPages \in Table /\ Table \subseteq Nat
BY LevelsAre DEF Table, Root

(* alloc_one_page hands out a page that is free, or says TOTAL_PAGES.       *)
LEMMA AllocIs ==
    ASSUME NEW taken \in SUBSET (0..(NPages - 1))
    PROVE  \/ AllocOnePage(taken) = NPages
           \/ AllocOnePage(taken) \in (0..(NPages - 1)) \ taken
<1> DEFINE free == (0..(NPages - 1)) \ taken
<1>1. CASE Cardinality(taken) = NPages
  BY <1>1 DEF AllocOnePage
<1>2. CASE Cardinality(taken) # NPages
  <2>1. free # {}
    <3> SUFFICES ASSUME free = {} PROVE FALSE
      OBVIOUS
    <3>1. taken = 0..(NPages - 1)
      OBVIOUS
    <3>2. Cardinality(0..(NPages - 1)) = NPages
      BY FS_Interval, LevelsAre
    <3> QED
      BY <1>2, <3>1, <3>2
  <2>2. free \in SUBSET Nat
    OBVIOUS
  <2>3. AllocOnePage(taken) = Min(free)
    BY <1>2 DEF AllocOnePage
  <2> HIDE DEF free
  <2>4. \E m \in free : \A n \in free : m <= n
    BY <2>1, <2>2, LeastNumber
  <2>5. Min(free) \in free
    BY <2>4 DEF Min
  <2> QED
    BY <2>3, <2>5 DEF free
<1> QED
  BY <1>1, <1>2

(* A page taken and cleared is a table of the forest that nothing leads to. *)
LEMMA ForestAlloc ==
    ASSUME NEW t, NEW u, NEW fr, NEW lev, NEW reach, Forest(t, u, fr, lev, reach),
           NEW n \in (0..(NPages - 1)) \ u
    PROVE  LET s == [t EXCEPT ![n] = ZeroPage]
           IN  /\ Forest(s, u \cup {n}, fr \cup {n}, lev, reach)
               /\ \A p \in Table : p # n => s[p] = t[p]
<1> DEFINE s == [t EXCEPT ![n] = ZeroPage]
<1>1. /\ t \in [Table -> [Slot -> Entry]] /\ u \in SUBSET (0..(NPages - 1)) /\ Root \in u
      /\ n \in Table /\ n # Root
  BY LevelsAre DEF Forest, ForestType, Table
<1>2. s \in [Table -> [Slot -> Entry]] /\ s[n] = ZeroPage /\ \A p \in Table : p # n => s[p] = t[p]
  BY <1>1, Kinds
<1> HIDE DEF s
<1>3. \A p \in Table, x \in Slot : IsLink(s[p][x]) <=> IsLink(t[p][x])
  BY <1>1, <1>2, Kinds DEF Forest, Links
<1>4. \A p \in Table, x \in Slot : IsLink(s[p][x]) => s[p][x] = t[p][x]
  BY <1>1, <1>2, Kinds DEF Forest, Links
<1>5. Links(s, u \cup {n}, lev, reach)
  BY <1>3, <1>4 DEF Forest, Links
<1>6. Leaves(s, u \cup {n}, lev, reach)
  BY <1>2, Kinds DEF Forest, Leaves
<1>7. OneLink(s)
  BY <1>3, <1>4 DEF Forest, OneLink
<1>8. ForestType(s, u \cup {n}, lev, reach)
  BY <1>1, <1>2 DEF Forest, ForestType
<1>9. ~Linked(t, n)
  BY DEF Forest, Links, Linked
<1>10. \A q : Linked(s, q) <=> Linked(t, q)
  BY <1>3, <1>4 DEF Linked
<1>11. \A q \in u : q \in Table /\ q # n
  BY <1>1, TablePages
<1>12. Loose(s, u \cup {n}, fr \cup {n})
  <2>1. \A q \in u \cup {n} : q \in fr \cup {n} \/ q = Root \/ Linked(s, q)
    BY <1>10 DEF Forest, Loose
  <2>2. \A q \in fr : q \in u /\ q # Root /\ ~Linked(s, q) /\ s[q] = ZeroPage
    BY <1>2, <1>10, <1>11 DEF Forest, Loose
  <2>3. n # Root /\ ~Linked(s, n) /\ s[n] = ZeroPage
    BY <1>1, <1>2, <1>9, <1>10
  <2> QED
    BY <2>1, <2>2, <2>3 DEF Loose
<1> QED
  BY <1>2, <1>5, <1>6, <1>7, <1>8, <1>12 DEF Forest, s

(* A loose table is entered below p.                                        *)
LEMMA ForestLink ==
    ASSUME NEW t, NEW u, NEW fr, NEW lev, NEW reach, Forest(t, u, fr, lev, reach),
           NEW p \in u \ fr, NEW x \in Slot, lev[p] < Levels, ~IsLink(t[p][x]), NEW f \in fr
    PROVE  LET s  == [t EXCEPT ![p][x] = TableAt(f)]
               l2 == [lev EXCEPT ![f] = lev[p] + 1]
               r2 == [reach EXCEPT ![f] = {i \in reach[p] : PteOffset(i, lev[p]) = x}]
           IN  Forest(s, u, fr \ {f}, l2, r2)
<1> DEFINE s  == [t EXCEPT ![p][x] = TableAt(f)]
           c  == {i \in reach[p] : PteOffset(i, lev[p]) = x}
           l2 == [lev EXCEPT ![f] = lev[p] + 1]
           r2 == [reach EXCEPT ![f] = c]
<1>1. /\ t \in [Table -> [Slot -> Entry]] /\ u \in SUBSET (0..(NPages - 1)) /\ Root \in u
      /\ lev \in [Table -> 1..Levels] /\ reach \in [Table -> SUBSET Ipa]
      /\ lev[Root] = 1 /\ reach[Root] = Ipa
      /\ p \in Table /\ f \in Table /\ f \in u /\ f # Root /\ f # p /\ ~Linked(t, f) /\ t[f] = ZeroPage
  BY TablePages DEF Forest, ForestType, Loose
<1>2. TableAt(f) \in Entry
  BY <1>1 DEF Entry
<1>3. /\ s \in [Table -> [Slot -> Entry]]
      /\ s[p][x] = TableAt(f)
      /\ \A q \in Table, y \in Slot : (q # p \/ y # x) => s[q][y] = t[q][y]
  BY <1>1, <1>2
<1>4. \A q \in Table : q # p => s[q] = t[q]
  BY <1>1
<1>5. c \in SUBSET Ipa /\ lev[p] + 1 \in 1..Levels
  <2>1. lev[p] \in 1..Levels /\ reach[p] \in SUBSET Ipa
    BY <1>1
  <2> QED
    BY <2>1, LevelsAre
<1>6. /\ l2 \in [Table -> 1..Levels] /\ l2[f] = lev[p] + 1
      /\ \A q \in Table : q # f => l2[q] = lev[q]
  BY <1>1, <1>5
<1> HIDE DEF c
<1>7. /\ r2 \in [Table -> SUBSET Ipa] /\ r2[f] = c
      /\ \A q \in Table : q # f => r2[q] = reach[q]
  BY <1>1, <1>5
<1> HIDE DEF s, l2, r2
<1>8. \A y \in Slot : ~IsLink(t[f][y]) /\ t[f][y].kind # "leaf"
  BY <1>1, Kinds
<1>9. ForestType(s, u, l2, r2)
  BY <1>1, <1>3, <1>6, <1>7, TablePages DEF ForestType
<1>10. Links(s, u, l2, r2)
  <2> SUFFICES ASSUME NEW q \in Table, NEW y \in Slot, IsLink(s[q][y])
               PROVE  /\ q \in u /\ s[q][y].page \in u /\ s[q][y].page # Root
                      /\ l2[s[q][y].page] = l2[q] + 1
                      /\ r2[s[q][y].page] = {i \in r2[q] : PteOffset(i, l2[q]) = y}
    BY DEF Links
  <2>1. CASE q = p /\ y = x
    <3>1. s[q][y].page = f
      BY <1>3, <2>1, Kinds
    <3>2. l2[q] = lev[p] /\ r2[q] = reach[p]
      BY <1>1, <1>6, <1>7, <2>1
    <3> QED
      BY <1>1, <1>6, <1>7, <2>1, <3>1, <3>2 DEF c
  <2>2. CASE q # p \/ y # x
    <3> DEFINE k == t[q][y].page
    <3>1. s[q][y] = t[q][y] /\ IsLink(t[q][y])
      BY <1>3, <2>2
    <3>2. /\ q \in u /\ k \in u /\ k # Root /\ lev[k] = lev[q] + 1
          /\ reach[k] = {i \in reach[q] : PteOffset(i, lev[q]) = y}
      BY <3>1 DEF Forest, Links
    <3>3. k # f
      BY <1>1, <3>1 DEF Linked
    <3>4. q # f
      BY <1>8, <3>1
    <3>5. k \in Table
      BY <1>1, <3>2, TablePages
    <3>6. l2[k] = lev[k] /\ r2[k] = reach[k] /\ l2[q] = lev[q] /\ r2[q] = reach[q]
      BY <1>6, <1>7, <3>3, <3>4, <3>5
    <3> QED
      BY <3>1, <3>2, <3>6
  <2> QED
    BY <2>1, <2>2
<1>11. Leaves(s, u, l2, r2)
  <2> SUFFICES ASSUME NEW q \in Table, NEW y \in Slot, s[q][y].kind = "leaf"
               PROVE  /\ q \in u /\ l2[q] = Levels
                      /\ \A i \in r2[q] : PteOffset(i, Levels) = y => s[q][y] \in LeafOf(i)
    BY DEF Leaves
  <2>1. q # p \/ y # x
    BY <1>3, Kinds
  <2>2. s[q][y] = t[q][y]
    BY <1>3, <2>1
  <2>3. q # f
    BY <1>8, <2>2
  <2>4. l2[q] = lev[q] /\ r2[q] = reach[q]
    BY <1>6, <1>7, <2>3
  <2> QED
    BY <2>2, <2>4 DEF Forest, Leaves
<1>12. Agree(l2, r2)
  <2> SUFFICES ASSUME NEW q \in Table, NEW i \in r2[q], NEW j \in r2[q], NEW l \in 1..(l2[q] - 1)
               PROVE  PteOffset(i, l) = PteOffset(j, l)
    BY DEF Agree
  <2>1. CASE q = f
    <3>1. i \in reach[p] /\ j \in reach[p] /\ PteOffset(i, lev[p]) = x /\ PteOffset(j, lev[p]) = x
      BY <1>7, <2>1 DEF c
    <3>2. l = lev[p] \/ l \in 1..(lev[p] - 1)
      BY <1>1, <1>6, <2>1
    <3> QED
      BY <1>1, <3>1, <3>2 DEF Forest, Agree
  <2>2. CASE q # f
    BY <1>6, <1>7, <2>2 DEF Forest, Agree
  <2> QED
    BY <2>1, <2>2
<1>13. OneLink(s)
  <2> SUFFICES ASSUME NEW q \in Table, NEW r \in Table, NEW y \in Slot, NEW z \in Slot,
                      IsLink(s[q][y]), IsLink(s[r][z]), s[q][y].page = s[r][z].page
               PROVE  q = r /\ y = z
    BY DEF OneLink
  <2>1. s[p][x].page = f
    BY <1>3, Kinds
  <2>2. \A k \in Table, w \in Slot : (k # p \/ w # x) /\ IsLink(s[k][w]) => s[k][w].page # f
    BY <1>1, <1>3 DEF Linked
  <2>3. CASE q = p /\ y = x
    BY <2>1, <2>2, <2>3
  <2>4. CASE r = p /\ z = x
    BY <2>1, <2>2, <2>4
  <2>5. CASE (q # p \/ y # x) /\ (r # p \/ z # x)
    BY <1>3, <2>5 DEF Forest, OneLink
  <2> QED
    BY <2>3, <2>4, <2>5
<1>14. \A q : Linked(s, q) <=> Linked(t, q) \/ q = f
  <2>1. Linked(s, f)
    BY <1>1, <1>3, Kinds DEF Linked
  <2>2. ASSUME NEW q, Linked(t, q) PROVE Linked(s, q)
    <3>1. PICK k \in Table, w \in Slot : IsLink(t[k][w]) /\ t[k][w].page = q
      BY <2>2 DEF Linked
    <3>2. s[k][w] = t[k][w]
      BY <1>3, <3>1
    <3> QED
      BY <3>1, <3>2 DEF Linked
  <2>3. ASSUME NEW q, Linked(s, q), q # f PROVE Linked(t, q)
    <3>1. PICK k \in Table, w \in Slot : IsLink(s[k][w]) /\ s[k][w].page = q
      BY <2>3 DEF Linked
    <3>2. s[k][w] = t[k][w]
      BY <1>3, <2>3, <3>1, Kinds
    <3> QED
      BY <3>1, <3>2 DEF Linked
  <2> QED
    BY <2>1, <2>2, <2>3
<1>15. Loose(s, u, fr \ {f})
  <2>1. \A q \in fr : q \in Table /\ q # p
    BY <1>1, TablePages DEF Forest, Loose
  <2> QED
    BY <1>4, <1>14, <2>1 DEF Forest, Loose
<1> QED
  BY <1>9, <1>10, <1>11, <1>12, <1>13, <1>15 DEF Forest, s, l2, r2, c

(* The leaf of an IPA is written.                                           *)
LEMMA ForestLeaf ==
    ASSUME NEW t, NEW u, NEW fr, NEW lev, NEW reach, Forest(t, u, fr, lev, reach),
           NEW p \in u \ fr, lev[p] = Levels, NEW ipa \in reach[p], NEW e \in Leaf, e \in LeafOf(ipa)
    PROVE  LET s == [t EXCEPT ![p][PteOffset(ipa, Levels)] = e]
           IN  /\ Forest(s, u, fr, lev, reach)
               /\ s[p][PteOffset(ipa, Levels)] = e
               /\ \A q \in Table : \A y \in Slot :
                     (q # p \/ y # PteOffset(ipa, Levels)) => s[q][y] = t[q][y]
<1> DEFINE x == PteOffset(ipa, Levels)
           s == [t EXCEPT ![p][x] = e]
<1>1. /\ t \in [Table -> [Slot -> Entry]] /\ u \in SUBSET (0..(NPages - 1)) /\ Root \in u
      /\ lev \in [Table -> 1..Levels] /\ reach \in [Table -> SUBSET Ipa] /\ p \in Table /\ e \in Entry
  BY TablePages DEF Forest, ForestType, Entry
<1>2. ipa \in Ipa /\ ipa \in Nat
  BY <1>1 DEF Ipa
<1>3. x \in Slot
  BY <1>2, OffsetSlot, LevelsAre DEF Slot
<1> HIDE DEF x
<1>4. /\ s \in [Table -> [Slot -> Entry]]
      /\ s[p][x] = e
      /\ \A q \in Table, y \in Slot : (q # p \/ y # x) => s[q][y] = t[q][y]
  BY <1>1, <1>3
<1>5. \A q \in Table : q # p => s[q] = t[q]
  BY <1>1
<1> HIDE DEF s
<1>6. ~IsLink(t[p][x])
  <2> SUFFICES ASSUME IsLink(t[p][x]) PROVE FALSE
    OBVIOUS
  <2>1. t[p][x].page \in Table /\ lev[t[p][x].page] = lev[p] + 1
    BY <1>1, <1>3, TablePages DEF Forest, Links
  <2>2. lev[t[p][x].page] \in 1..Levels
    BY <1>1, <2>1
  <2> QED
    BY <2>1, <2>2, LevelsAre
<1>7. \A q \in Table, y \in Slot : IsLink(s[q][y]) <=> IsLink(t[q][y])
  BY <1>4, <1>6, Kinds
<1>8. \A q \in Table, y \in Slot : IsLink(s[q][y]) => s[q][y] = t[q][y]
  BY <1>4, <1>6, Kinds
<1>9. Links(s, u, lev, reach)
  BY <1>7, <1>8 DEF Forest, Links
<1>10. OneLink(s)
  BY <1>7, <1>8 DEF Forest, OneLink
<1>11. \A q : Linked(s, q) <=> Linked(t, q)
  BY <1>7, <1>8 DEF Linked
<1>12. Loose(s, u, fr)
  <2>1. \A q \in fr : q \in Table /\ q # p
    BY <1>1, TablePages DEF Forest, Loose
  <2> QED
    BY <1>5, <1>11, <2>1 DEF Forest, Loose
<1>13. Leaves(s, u, lev, reach)
  <2> SUFFICES ASSUME NEW q \in Table, NEW y \in Slot, s[q][y].kind = "leaf"
               PROVE  /\ q \in u /\ lev[q] = Levels
                      /\ \A i \in reach[q] : PteOffset(i, Levels) = y => s[q][y] \in LeafOf(i)
    BY DEF Leaves
  <2>1. CASE q # p \/ y # x
    BY <1>4, <2>1 DEF Forest, Leaves
  <2>2. CASE q = p /\ y = x
    <3>1. ASSUME NEW i \in reach[p], PteOffset(i, Levels) = x PROVE i = ipa
      <4>1. i \in Ipa
        BY <1>1
      <4>2. \A l \in 1..(Levels - 1) : PteOffset(i, l) = PteOffset(ipa, l)
        BY <1>1 DEF Forest, Agree
      <4>3. \A l \in 1..Levels : l = Levels \/ l \in 1..(Levels - 1)
        BY LevelsAre
      <4>4. \A l \in 1..Levels : PteOffset(i, l) = PteOffset(ipa, l)
        BY <3>1, <4>2, <4>3 DEF x
      <4> QED
        BY <1>2, <4>1, <4>4, DigitsUnique
    <3> QED
      BY <1>4, <2>2, <3>1
  <2> QED
    BY <2>1, <2>2
<1>14. ForestType(s, u, lev, reach) /\ Agree(lev, reach)
  BY <1>4 DEF Forest, ForestType
<1> QED
  BY <1>4, <1>9, <1>10, <1>12, <1>13, <1>14 DEF Forest, s, x

(* The walk of an IPA goes through the tables that reach it, and only those.*)
LEMMA WalkForest ==
    ASSUME NEW t, NEW u, NEW fr, NEW lev, NEW reach, Forest(t, u, fr, lev, reach), NEW i \in Ipa
    PROVE  /\ \/ Walk(t, i) = Invalid
              \/ Walk(t, i).kind = "leaf" /\ \E p \in u \ fr : lev[p] = Levels /\ i \in reach[p]
           /\ \A p \in u \ fr : lev[p] = Levels /\ i \in reach[p] => Walk(t, i) = t[p][PteOffset(i, Levels)]
<1>1. PICK down :
          /\ Walk(t, i) = down[Levels]
          /\ \A l \in 1..Levels : down[l] = IF PageAt(down, l) > NPages THEN Invalid
                                            ELSE t[PageAt(down, l)][PteOffset(i, l)]
  BY WalkDown
<1>2. /\ t \in [Table -> [Slot -> Entry]] /\ u \in SUBSET (0..(NPages - 1)) /\ Root \in u
      /\ lev \in [Table -> 1..Levels] /\ reach \in [Table -> SUBSET Ipa]
      /\ lev[Root] = 1 /\ reach[Root] = Ipa
  BY DEF Forest, ForestType
<1>3. \A p \in u : p \in Table /\ p \in Nat /\ ~(p > NPages)
  BY <1>2, LevelsAre DEF Table
<1>4. \A l \in 1..Levels : PteOffset(i, l) \in Slot
  BY OffsetSlot DEF Ipa, Slot
<1>5. Root \notin fr /\ \A q \in Table, x \in Slot : IsLink(t[q][x]) => q \in u \ fr /\ t[q][x].page \in u \ fr
  <2>1. \A q \in fr : q # Root /\ ~Linked(t, q) /\ \A x \in Slot : ~IsLink(t[q][x])
    BY Kinds DEF Forest, Loose
  <2>2. \A q \in Table, x \in Slot : IsLink(t[q][x]) => q \in u /\ t[q][x].page \in u
    BY DEF Forest, Links
  <2> QED
    BY <2>1, <2>2 DEF Linked
(* Where the walk is, it is in a table that reaches i.                      *)
<1> DEFINE In(l) == PageAt(down, l) \in u \ fr /\ lev[PageAt(down, l)] = l /\ i \in reach[PageAt(down, l)]
           Gone(l) == PageAt(down, l) = NPages + 1
           G == {l \in 0..Levels : l = 0 \/ In(l) \/ Gone(l)}
<1>6. 0 \in G
  BY LevelsAre
<1>7. ASSUME NEW m \in 0..(Levels - 1), m \in G PROVE m + 1 \in G
  <2>1. CASE m = 0
    <3>1. m + 1 = 1 /\ 1 \in 0..Levels
      BY <2>1, LevelsAre
    <3>2. PageAt(down, 1) = Root
      BY DEF PageAt
    <3>3. In(1)
      BY <1>2, <1>5, <3>2
    <3> HIDE DEF In, Gone
    <3> QED
      BY <3>1, <3>3
  <2>2. CASE m # 0
    <3>1. m \in 1..Levels /\ m + 1 \in 0..Levels /\ m + 1 # 1 /\ (m + 1) - 1 = m
      BY <2>2, LevelsAre
    <3>2. PageAt(down, m + 1) = IF IsLink(down[m]) THEN down[m].page ELSE NPages + 1
      BY <3>1 DEF PageAt, IsLink
    <3>3. CASE ~IsLink(down[m])
      <4>1. Gone(m + 1)
        BY <3>2, <3>3
      <4> HIDE DEF In, Gone
      <4> QED
        BY <3>1, <4>1
    <3>4. CASE IsLink(down[m])
      <4> DEFINE q == PageAt(down, m)
                 x == PteOffset(i, m)
      <4>1. q # NPages + 1
        <5>1. CASE q = NPages + 1
          <6>1. q > NPages
            BY <5>1, LevelsAre
          <6>2. down[m] = Invalid
            BY <1>1, <3>1, <6>1
          <6> QED
            BY <3>4, <6>2, Kinds
        <5> QED
          BY <5>1
      <4>2. In(m)
        BY <1>7, <2>2, <4>1
      <4>3. down[m] = t[q][x]
        BY <1>1, <1>3, <3>1, <4>2
      <4>4. x \in Slot /\ q \in Table
        BY <1>3, <1>4, <3>1, <4>2
      <4> DEFINE k == t[q][x].page
      <4>5. PageAt(down, m + 1) = k
        BY <3>2, <3>4, <4>3
      <4>6. k \in u \ fr /\ lev[k] = lev[q] + 1 /\ reach[k] = {j \in reach[q] : PteOffset(j, lev[q]) = x}
        BY <1>5, <3>4, <4>3, <4>4 DEF Forest, Links
      <4>7. lev[k] = m + 1 /\ i \in reach[k]
        BY <4>2, <4>6
      <4>8. In(m + 1)
        BY <4>5, <4>6, <4>7
      <4> HIDE DEF In, Gone
      <4> QED
        BY <3>1, <4>8
    <3> QED
      BY <3>3, <3>4
  <2> QED
    BY <2>1, <2>2
<1>8. \A l \in 1..Levels : In(l) \/ Gone(l)
  <2> HIDE DEF In, Gone
  <2>1. \A l \in 0..Levels : l \in G
    <3> HIDE DEF G
    <3> QED
      BY <1>6, <1>7, Upward, LevelsAre
  <2>2. \A l \in 1..Levels : l \in 0..Levels /\ l # 0
    BY LevelsAre
  <2> QED
    BY <2>1, <2>2
(* A table that reaches i is where the walk comes to.                       *)
<1> DEFINE K == {l \in 0..Levels : \A p \in u \ fr : lev[p] = l /\ i \in reach[p] => PageAt(down, l) = p}
<1>9. 0 \in K
  BY <1>2, <1>3, LevelsAre
<1>10. ASSUME NEW m \in 0..(Levels - 1), m \in K PROVE m + 1 \in K
  <2> SUFFICES ASSUME NEW p \in u \ fr, lev[p] = m + 1, i \in reach[p]
               PROVE  PageAt(down, m + 1) = p
    BY LevelsAre
  <2>1. CASE p = Root
    <3>1. m + 1 = 1
      BY <1>2, <2>1
    <3> QED
      BY <2>1, <3>1 DEF PageAt
  <2>2. CASE Linked(t, p)
    <3>1. PICK q \in Table, x \in Slot : IsLink(t[q][x]) /\ t[q][x].page = p
      BY <2>2 DEF Linked
    <3>2. q \in u \ fr /\ lev[p] = lev[q] + 1 /\ reach[p] = {j \in reach[q] : PteOffset(j, lev[q]) = x}
      BY <1>5, <3>1 DEF Forest, Links
    <3>3. lev[q] = m /\ m \in 1..Levels
      <4>1. lev[q] \in 1..Levels
        BY <1>2
      <4> QED
        BY <3>2, <4>1, LevelsAre
    <3>4. i \in reach[q] /\ PteOffset(i, m) = x
      BY <3>2, <3>3
    <3>5. PageAt(down, m) = q
      BY <1>10, <3>2, <3>3, <3>4
    <3>6. down[m] = t[q][x]
      BY <1>1, <1>3, <3>2, <3>3, <3>4, <3>5
    <3>7. m + 1 # 1 /\ (m + 1) - 1 = m
      BY <3>3, LevelsAre
    <3> QED
      BY <3>1, <3>6, <3>7 DEF PageAt, IsLink
  <2> QED
    BY <2>1, <2>2 DEF Forest, Loose
<1>11. \A p \in u \ fr : lev[p] = Levels /\ i \in reach[p] => PageAt(down, Levels) = p
  <2>1. Levels \in K
    <3> HIDE DEF K
    <3>1. \A l \in 0..Levels : l \in K
      BY <1>9, <1>10, Upward, LevelsAre
    <3> QED
      BY <3>1, LevelsAre
  <2> QED
    BY <2>1
<1>12. \A p \in u \ fr : lev[p] = Levels /\ i \in reach[p] => Walk(t, i) = t[p][PteOffset(i, Levels)]
  BY <1>1, <1>3, <1>11, LevelsAre
<1>13. \/ Walk(t, i) = Invalid
       \/ Walk(t, i).kind = "leaf" /\ \E p \in u \ fr : lev[p] = Levels /\ i \in reach[p]
  <2>1. CASE Gone(Levels)
    <3>1. PageAt(down, Levels) > NPages
      BY <2>1, LevelsAre
    <3> QED
      BY <1>1, <3>1, LevelsAre
  <2>2. CASE In(Levels)
    <3> DEFINE p == PageAt(down, Levels)
               x == PteOffset(i, Levels)
    <3>1. p \in u \ fr /\ lev[p] = Levels /\ i \in reach[p] /\ p \in Table /\ x \in Slot
      BY <1>3, <1>4, <2>2, LevelsAre
    <3>2. Walk(t, i) = t[p][x]
      BY <1>12, <3>1
    <3>3. ~IsLink(t[p][x])
      <4> SUFFICES ASSUME IsLink(t[p][x]) PROVE FALSE
        OBVIOUS
      <4>1. t[p][x].page \in u /\ lev[t[p][x].page] = lev[p] + 1
        BY <3>1 DEF Forest, Links
      <4>2. lev[t[p][x].page] \in 1..Levels
        BY <1>2, <1>3, <4>1
      <4> QED
        BY <3>1, <4>1, <4>2, LevelsAre
    <3>4. t[p][x] \in Entry
      BY <1>2, <3>1
    <3>5. t[p][x] = Invalid \/ t[p][x].kind = "leaf"
      BY <3>3, <3>4, Kinds DEF Entry
    <3> HIDE DEF p, x
    <3> QED
      BY <3>1, <3>2, <3>5
  <2> QED
    BY <1>8, <2>1, <2>2, LevelsAre
<1> QED
  BY <1>12, <1>13

(* Two forests with the same tables of the last level, but for new ones     *)
(* that are clear, translate alike.                                         *)
LEMMA SameWalk ==
    ASSUME NEW t, NEW u, NEW fr, NEW lev, NEW reach, Forest(t, u, fr, lev, reach),
           NEW s, NEW u2, NEW fr2, NEW l2, NEW r2, Forest(s, u2, fr2, l2, r2),
           \A p \in u \ fr : lev[p] = Levels =>
               p \in u2 \ fr2 /\ l2[p] = Levels /\ r2[p] = reach[p] /\ s[p] = t[p],
           \A p \in u2 \ fr2 : l2[p] = Levels => (p \in u \ fr /\ lev[p] = Levels) \/ s[p] = ZeroPage
    PROVE  \A i \in Ipa : Walk(s, i) = Walk(t, i)
<1> SUFFICES ASSUME NEW i \in Ipa PROVE Walk(s, i) = Walk(t, i)
  OBVIOUS
<1> DEFINE x == PteOffset(i, Levels)
<1>0. x \in Slot
  BY OffsetSlot, LevelsAre DEF Ipa, Slot
<1> HIDE DEF x
<1>1. /\ \/ Walk(t, i) = Invalid
         \/ Walk(t, i).kind = "leaf" /\ \E p \in u \ fr : lev[p] = Levels /\ i \in reach[p]
      /\ \A p \in u \ fr : lev[p] = Levels /\ i \in reach[p] => Walk(t, i) = t[p][x]
  BY WalkForest DEF x
<1>2. /\ \/ Walk(s, i) = Invalid
         \/ Walk(s, i).kind = "leaf" /\ \E p \in u2 \ fr2 : l2[p] = Levels /\ i \in r2[p]
      /\ \A p \in u2 \ fr2 : l2[p] = Levels /\ i \in r2[p] => Walk(s, i) = s[p][x]
  BY WalkForest DEF x
<1>3. CASE \E p \in u \ fr : lev[p] = Levels /\ i \in reach[p]
  BY <1>1, <1>2, <1>3
<1>4. CASE ~ \E p \in u \ fr : lev[p] = Levels /\ i \in reach[p]
  <2>1. Walk(t, i) = Invalid
    BY <1>1, <1>4
  <2>2. ASSUME NEW p \in u2 \ fr2, l2[p] = Levels, i \in r2[p] PROVE Walk(s, i) = Invalid
    <3>1. s[p] = ZeroPage
      BY <1>4, <2>2
    <3> QED
      BY <1>0, <1>2, <2>2, <3>1, Kinds
  <2> QED
    BY <1>2, <2>1, <2>2
<1> QED
  BY <1>3, <1>4

(* Taking a page for a table changes no translation.                        *)
LEMMA AllocKeepsWalks ==
    ASSUME NEW t, NEW u, NEW fr, NEW lev, NEW reach, Forest(t, u, fr, lev, reach),
           NEW n \in (0..(NPages - 1)) \ u
    PROVE  \A i \in Ipa : Walk([t EXCEPT ![n] = ZeroPage], i) = Walk(t, i)
<1> DEFINE s == [t EXCEPT ![n] = ZeroPage]
<1>1. Forest(s, u \cup {n}, fr \cup {n}, lev, reach) /\ \A p \in Table : p # n => s[p] = t[p]
  BY ForestAlloc
<1>2. u \subseteq Table
  BY TablePages DEF Forest, ForestType
<1> HIDE DEF s
<1>3. \A p \in u \ fr : p \in (u \cup {n}) \ (fr \cup {n}) /\ s[p] = t[p]
  BY <1>1, <1>2
<1>4. \A p \in (u \cup {n}) \ (fr \cup {n}) : p \in u \ fr
  OBVIOUS
<1> DEFINE v == u \cup {n}
           w == fr \cup {n}
<1>5. /\ Forest(s, v, w, lev, reach)
      /\ \A p \in u \ fr : lev[p] = Levels => p \in v \ w /\ lev[p] = Levels /\ reach[p] = reach[p] /\ s[p] = t[p]
      /\ \A p \in v \ w : lev[p] = Levels => (p \in u \ fr /\ lev[p] = Levels) \/ s[p] = ZeroPage
  BY <1>1, <1>3, <1>4
<1> HIDE DEF v, w
<1>6. \A i \in Ipa : Walk(s, i) = Walk(t, i)
  BY <1>5, SameWalk
<1> QED
  BY <1>6 DEF s

(* Entering a clear table changes no translation.                           *)
LEMMA LinkKeepsWalks ==
    ASSUME NEW t, NEW u, NEW fr, NEW lev, NEW reach, Forest(t, u, fr, lev, reach),
           NEW p \in u \ fr, NEW x \in Slot, lev[p] < Levels, ~IsLink(t[p][x]), NEW f \in fr
    PROVE  \A i \in Ipa : Walk([t EXCEPT ![p][x] = TableAt(f)], i) = Walk(t, i)
<1> DEFINE s  == [t EXCEPT ![p][x] = TableAt(f)]
           l2 == [lev EXCEPT ![f] = lev[p] + 1]
           r2 == [reach EXCEPT ![f] = {i \in reach[p] : PteOffset(i, lev[p]) = x}]
           w  == fr \ {f}
<1>1. Forest(s, u, w, l2, r2)
  BY ForestLink
<1>2. /\ t \in [Table -> [Slot -> Entry]] /\ u \subseteq Table
      /\ lev \in [Table -> 1..Levels] /\ reach \in [Table -> SUBSET Ipa]
      /\ f \in u /\ f # p /\ t[f] = ZeroPage
  BY TablePages DEF Forest, ForestType, Loose
<1>3. \A q \in Table : q # p => s[q] = t[q]
  BY <1>2
<1>4. \A q \in Table : q # f => l2[q] = lev[q] /\ r2[q] = reach[q]
  BY <1>2
<1>5. p \in Table /\ f \in Table /\ lev[p] # Levels /\ l2[p] = lev[p]
  BY <1>2, <1>4
<1> HIDE DEF s, l2, r2
<1>6. \A q \in u \ fr : lev[q] = Levels => q \in u \ w /\ l2[q] = Levels /\ r2[q] = reach[q] /\ s[q] = t[q]
  BY <1>2, <1>3, <1>4, <1>5
<1>7. \A q \in u \ w : l2[q] = Levels => (q \in u \ fr /\ lev[q] = Levels) \/ s[q] = ZeroPage
  <2>1. \A q \in u \ w : q = f \/ q \in u \ fr
    OBVIOUS
  <2>2. s[f] = ZeroPage
    BY <1>2, <1>3, <1>5
  <2> QED
    BY <1>2, <1>4, <2>1, <2>2
<1> HIDE DEF w
<1>8. \A i \in Ipa : Walk(s, i) = Walk(t, i)
  BY <1>1, <1>6, <1>7, SameWalk
<1> QED
  BY <1>8 DEF s

(* Writing the leaf of an IPA changes the translation of that IPA only.     *)
LEMMA LeafChangesWalk ==
    ASSUME NEW t, NEW s, NEW u, NEW fr, NEW lev, NEW reach,
           Forest(t, u, fr, lev, reach), Forest(s, u, fr, lev, reach),
           NEW p \in u \ fr, lev[p] = Levels, NEW ipa \in reach[p],
           \A q \in Table : \A y \in Slot : (q # p \/ y # PteOffset(ipa, Levels)) => s[q][y] = t[q][y]
    PROVE  /\ Walk(s, ipa) = s[p][PteOffset(ipa, Levels)]
           /\ \A j \in Ipa : j # ipa => Walk(s, j) = Walk(t, j)
<1> DEFINE x == PteOffset(ipa, Levels)
<1>2. u \subseteq Table /\ reach \in [Table -> SUBSET Ipa] /\ lev \in [Table -> 1..Levels]
  BY TablePages DEF Forest, ForestType
<1>3. ipa \in Ipa
  BY <1>2
<1>4. Walk(s, ipa) = s[p][x]
  BY <1>3, WalkForest DEF x
<1>5. ASSUME NEW j \in Ipa, j # ipa PROVE Walk(s, j) = Walk(t, j)
  <2> DEFINE y == PteOffset(j, Levels)
  <2>0. y \in Slot
    BY OffsetSlot, LevelsAre DEF Ipa, Slot
  <2>1. ASSUME NEW q \in u \ fr, lev[q] = Levels, j \in reach[q] PROVE s[q][y] = t[q][y]
    <3>1. q = p => y # x
      <4> SUFFICES ASSUME q = p, y = x PROVE FALSE
        OBVIOUS
      <4>1. \A l \in 1..(Levels - 1) : PteOffset(j, l) = PteOffset(ipa, l)
        BY <1>2, <2>1 DEF Forest, Agree
      <4>2. \A l \in 1..Levels : l = Levels \/ l \in 1..(Levels - 1)
        BY LevelsAre
      <4>3. \A l \in 1..Levels : PteOffset(j, l) = PteOffset(ipa, l)
        BY <4>1, <4>2
      <4> QED
        BY <1>3, <1>5, <4>3, DigitsUnique
    <3> HIDE DEF x, y
    <3> QED
      BY <1>2, <2>0, <3>1 DEF x
  <2>2. /\ \/ Walk(t, j) = Invalid
           \/ Walk(t, j).kind = "leaf" /\ \E q \in u \ fr : lev[q] = Levels /\ j \in reach[q]
        /\ \A q \in u \ fr : lev[q] = Levels /\ j \in reach[q] => Walk(t, j) = t[q][y]
    BY WalkForest
  <2>3. /\ \/ Walk(s, j) = Invalid
           \/ Walk(s, j).kind = "leaf" /\ \E q \in u \ fr : lev[q] = Levels /\ j \in reach[q]
        /\ \A q \in u \ fr : lev[q] = Levels /\ j \in reach[q] => Walk(s, j) = s[q][y]
    BY WalkForest
  <2> HIDE DEF y
  <2> QED
    BY <2>1, <2>2, <2>3
<1> QED
  BY <1>4, <1>5 DEF x

(* A page that is translated leads where LeafOf says.                       *)
LEMMA WalkLeaf ==
    ASSUME NEW t, NEW u, NEW fr, NEW lev, NEW reach, Forest(t, u, fr, lev, reach), NEW i \in Ipa
    PROVE  Walk(t, i) = Invalid \/ (Walk(t, i).kind = "leaf" /\ Walk(t, i) \in LeafOf(i))
<1> SUFFICES ASSUME Walk(t, i) # Invalid PROVE Walk(t, i).kind = "leaf" /\ Walk(t, i) \in LeafOf(i)
  OBVIOUS
<1> DEFINE x == PteOffset(i, Levels)
<1>0. x \in Slot
  BY OffsetSlot, LevelsAre DEF Ipa, Slot
<1>1. PICK p \in u \ fr : lev[p] = Levels /\ i \in reach[p] /\ Walk(t, i).kind = "leaf" /\ Walk(t, i) = t[p][x]
  BY WalkForest
<1>2. p \in Table
  BY TablePages DEF Forest, ForestType
<1> QED
  BY <1>0, <1>1, <1>2 DEF Forest, Leaves

-----------------------------------------------------------------------------
(* The tables made at boot                                                  *)

Clear(t, u) == \A p \in Table \ u : t[p] = ZeroPage

(* What the levels above l leave: a forest that translates as t0 did, and a *)
(* table of the next level for ipa.                                         *)
Descent(p, ipa, l, t0) ==
    NPages \notin p.u =>
        \E lev, reach :
            /\ Forest(p.t, p.u, {}, lev, reach) /\ Clear(p.t, p.u)
            /\ p.page \in p.u /\ lev[p.page] = l + 1 /\ ipa \in reach[p.page]
            /\ \A i \in Ipa : Walk(p.t, i) = Walk(t0, i)

(* A level above the last one takes a page when it needs one.               *)
LEMMA BootDown ==
    ASSUME NEW ipa \in Ipa, NEW p, NEW t0, NEW l \in 1..(Levels - 1), Descent(p, ipa, l - 1, t0)
    PROVE  p.u \subseteq BootLevel(p, ipa, l).u /\ Descent(BootLevel(p, ipa, l), ipa, l, t0)
<1> DEFINE x == PteOffset(ipa, l)
           n == AllocOnePage(p.u)
           r == BootLevel(p, ipa, l)
<1>0. l \in 1..Levels /\ l < Levels /\ l # Levels /\ (l - 1) + 1 = l
  BY LevelsAre
<1>1. x \in Slot
  BY <1>0, OffsetSlot DEF Ipa, Slot
<1>2. CASE p.t[p.page][x].kind = "table"
  <2>1. r = [t |-> p.t, u |-> p.u, page |-> p.t[p.page][x].page]
    BY <1>0, <1>2 DEF BootLevel
  <2>2. r.u = p.u /\ r.t = p.t /\ r.page = p.t[p.page][x].page
    BY <2>1
  <2>3. ASSUME NPages \notin r.u
        PROVE  \E lev, reach :
                  /\ Forest(r.t, r.u, {}, lev, reach) /\ Clear(r.t, r.u)
                  /\ r.page \in r.u /\ lev[r.page] = l + 1 /\ ipa \in reach[r.page]
                  /\ \A i \in Ipa : Walk(r.t, i) = Walk(t0, i)
    <3>1. PICK lev, reach :
              /\ Forest(p.t, p.u, {}, lev, reach) /\ Clear(p.t, p.u)
              /\ p.page \in p.u /\ lev[p.page] = l /\ ipa \in reach[p.page]
              /\ \A i \in Ipa : Walk(p.t, i) = Walk(t0, i)
      BY <1>0, <2>2, <2>3 DEF Descent
    <3>2. p.page \in Table
      BY <3>1, TablePages DEF Forest, ForestType
    <3>3. r.page \in p.u /\ lev[r.page] = l + 1 /\ ipa \in reach[r.page]
      BY <1>1, <1>2, <2>2, <3>1, <3>2 DEF Forest, Links, IsLink
    <3> QED
      BY <2>2, <3>1, <3>3
  <2> QED
    BY <2>2, <2>3 DEF Descent
<1>3. CASE p.t[p.page][x].kind # "table"
  <2>1. r = [t |-> [p.t EXCEPT ![p.page][x] = TableAt(n)], u |-> p.u \cup {n}, page |-> n]
    BY <1>0, <1>3 DEF BootLevel
  <2> DEFINE s == [p.t EXCEPT ![p.page][x] = TableAt(n)]
  <2>2. r.u = p.u \cup {n} /\ r.t = s /\ r.page = n
    BY <2>1
  <2>3. ASSUME NPages \notin r.u
        PROVE  \E lev, reach :
                  /\ Forest(r.t, r.u, {}, lev, reach) /\ Clear(r.t, r.u)
                  /\ r.page \in r.u /\ lev[r.page] = l + 1 /\ ipa \in reach[r.page]
                  /\ \A i \in Ipa : Walk(r.t, i) = Walk(t0, i)
    <3>1. PICK lev, reach :
              /\ Forest(p.t, p.u, {}, lev, reach) /\ Clear(p.t, p.u)
              /\ p.page \in p.u /\ lev[p.page] = l /\ ipa \in reach[p.page]
              /\ \A i \in Ipa : Walk(p.t, i) = Walk(t0, i)
      BY <1>0, <2>2, <2>3 DEF Descent
    <3>2. /\ p.u \in SUBSET (0..(NPages - 1)) /\ p.u \subseteq Table /\ p.page \in Table
          /\ p.t \in [Table -> [Slot -> Entry]] /\ lev \in [Table -> 1..Levels] /\ reach \in [Table -> SUBSET Ipa]
      BY <3>1, TablePages DEF Forest, ForestType
    <3>3. n \in (0..(NPages - 1)) \ p.u /\ n \in Table
      BY <2>2, <2>3, <3>2, AllocIs, LevelsAre DEF Table
    <3> HIDE DEF n
    <3>4. [p.t EXCEPT ![n] = ZeroPage] = p.t
      BY <3>1, <3>2, <3>3 DEF Clear
    <3> DEFINE u == p.u \cup {n}
               fr == {n}
    <3>5. Forest(p.t, u, fr, lev, reach)
      <4> DEFINE t == p.t
                 none == {}
      <4>1. Forest(t, p.u, none, lev, reach)
        BY <3>1
      <4>2. none \cup {n} = fr
        OBVIOUS
      <4> HIDE DEF t, none
      <4>3. Forest([t EXCEPT ![n] = ZeroPage], p.u \cup {n}, none \cup {n}, lev, reach)
        BY <3>3, <4>1, ForestAlloc
      <4> QED
        BY <3>4, <4>2, <4>3 DEF t
    <3>6. p.page \in u \ fr /\ lev[p.page] < Levels /\ ~IsLink(p.t[p.page][x]) /\ n \in fr
      BY <1>0, <1>3, <3>1, <3>3 DEF IsLink
    <3> DEFINE l2 == [lev EXCEPT ![n] = lev[p.page] + 1]
               r2 == [reach EXCEPT ![n] = {i \in reach[p.page] : PteOffset(i, lev[p.page]) = x}]
    <3> HIDE DEF u, fr, x
    <3>7. Forest(s, u, fr \ {n}, l2, r2) /\ \A i \in Ipa : Walk(s, i) = Walk(p.t, i)
      <4> DEFINE t == p.t
                 k == p.page
      <4>1. /\ x \in Slot /\ Forest(t, u, fr, lev, reach)
            /\ k \in u \ fr /\ lev[k] < Levels /\ ~IsLink(t[k][x]) /\ n \in fr
        BY <1>1, <3>5, <3>6 DEF x
      <4> HIDE DEF t, k
      <4>2. Forest([t EXCEPT ![k][x] = TableAt(n)], u, fr \ {n}, [lev EXCEPT ![n] = lev[k] + 1],
                   [reach EXCEPT ![n] = {i \in reach[k] : PteOffset(i, lev[k]) = x}])
        BY <4>1, ForestLink
      <4>3. \A i \in Ipa : Walk([t EXCEPT ![k][x] = TableAt(n)], i) = Walk(t, i)
        BY <4>1, LinkKeepsWalks
      <4> QED
        BY <4>2, <4>3 DEF t, k
    <3>8. l2[n] = l + 1
      BY <3>1, <3>2, <3>3
    <3>9. ipa \in r2[n]
      BY <3>1, <3>2, <3>3 DEF x
    <3>10. Clear(s, u)
      <4>1. \A q \in Table : q # p.page => s[q] = p.t[q]
        BY <3>2
      <4> QED
        BY <3>1, <4>1 DEF Clear, u
    <3> HIDE DEF s, l2, r2
    <3>11. fr \ {n} = {} /\ n \in u /\ u = p.u \cup {n}
      BY DEF fr, u
    <3>12. Forest(r.t, r.u, {}, l2, r2) /\ Clear(r.t, r.u)
      BY <2>2, <3>7, <3>10, <3>11
    <3>13. r.page \in r.u /\ l2[r.page] = l + 1 /\ ipa \in r2[r.page] /\ \A i \in Ipa : Walk(r.t, i) = Walk(t0, i)
      BY <2>2, <3>1, <3>7, <3>8, <3>9
    <3> HIDE DEF r
    <3> QED
      BY <3>12, <3>13
  <2> HIDE DEF s, n
  <2> QED
    BY <2>2, <2>3 DEF Descent
<1> QED
  BY <1>2, <1>3

(* Tables that map the boot pages of B, and nothing else.                   *)
BootMaps(s, B) ==
    NPages \notin s.u =>
        /\ \E lev, reach : Forest(s.t, s.u, {}, lev, reach)
        /\ Clear(s.t, s.u)
        /\ \A i \in Ipa : Walk(s.t, i) = IF i \in B THEN MakeStage2Entry(i, "RWX") ELSE Invalid

(* The last level writes the leaf.                                          *)
LEMMA BootLast ==
    ASSUME NEW ipa \in BootMap, NEW p, NEW t0, NEW B, Descent(p, ipa, Levels - 1, t0),
           \A i \in Ipa : Walk(t0, i) = IF i \in B THEN MakeStage2Entry(i, "RWX") ELSE Invalid
    PROVE  p.u \subseteq BootLevel(p, ipa, Levels).u /\ BootMaps(BootLevel(p, ipa, Levels), B \cup {ipa})
<1> DEFINE x == PteOffset(ipa, Levels)
           e == MakeStage2Entry(ipa, "RWX")
           s == [p.t EXCEPT ![p.page][x] = e]
           r == BootLevel(p, ipa, Levels)
<1>1. r = [t |-> s, u |-> p.u, page |-> p.page]
  BY LevelsAre DEF BootLevel
<1>2. r.t = s /\ r.u = p.u
  BY <1>1
<1>3. ipa \in Ipa
  BY Stage2Assumption
<1>4. ASSUME NPages \notin p.u
      PROVE  /\ \E lev, reach : Forest(s, p.u, {}, lev, reach)
             /\ Clear(s, p.u)
             /\ \A i \in Ipa : Walk(s, i) = IF i \in B \cup {ipa} THEN MakeStage2Entry(i, "RWX") ELSE Invalid
  <2>1. PICK lev, reach :
            /\ Forest(p.t, p.u, {}, lev, reach) /\ Clear(p.t, p.u)
            /\ p.page \in p.u /\ lev[p.page] = (Levels - 1) + 1 /\ ipa \in reach[p.page]
            /\ \A i \in Ipa : Walk(p.t, i) = Walk(t0, i)
    BY <1>4 DEF Descent
  <2>2. lev[p.page] = Levels /\ p.page \in p.u \ {}
    BY <2>1, LevelsAre
  <2>3. e \in Leaf /\ e \in LeafOf(ipa)
    BY <1>3 DEF MakeStage2Entry, Leaf, LeafOf, IdentityOf
  <2> HIDE DEF e
  <2>4. /\ Forest(s, p.u, {}, lev, reach) /\ s[p.page][x] = e
        /\ \A q \in Table : \A y \in Slot : (q # p.page \/ y # x) => s[q][y] = p.t[q][y]
    BY <2>1, <2>2, <2>3, ForestLeaf
  <2>5. Walk(s, ipa) = e /\ \A j \in Ipa : j # ipa => Walk(s, j) = Walk(p.t, j)
    <3> HIDE DEF s
    <3> QED
      BY <2>1, <2>2, <2>4, LeafChangesWalk
  <2>6. p.t \in [Table -> [Slot -> Entry]] /\ p.page \in Table
    BY <2>1, TablePages DEF Forest, ForestType
  <2>7. Clear(s, p.u)
    <3>1. \A q \in Table : q # p.page => s[q] = p.t[q]
      BY <2>6
    <3> QED
      BY <2>1, <3>1 DEF Clear
  <2> HIDE DEF s
  <2>8. \A i \in Ipa : Walk(s, i) = IF i \in B \cup {ipa} THEN MakeStage2Entry(i, "RWX") ELSE Invalid
    BY <2>1, <2>5 DEF e
  <2> QED
    BY <2>4, <2>7, <2>8
<1> HIDE DEF s, r
<1> QED
  BY <1>2, <1>4 DEF BootMaps, r

(* BootAdd goes down a level at a time.                                     *)
LEMMA BootAddSteps ==
    ASSUME NEW s, NEW ipa
    PROVE  \E go : /\ BootAdd(s, ipa) = go[Levels]
                   /\ go[0] = [t |-> s.t, u |-> s.u, page |-> Root]
                   /\ \A l \in 1..Levels : go[l] = BootLevel(go[l - 1], ipa, l)
<1> DEFINE First == [t |-> s.t, u |-> s.u, page |-> Root]
           Eq(f, m) == f = [l \in 0..m |-> IF l = 0 THEN First ELSE BootLevel(f[l - 1], ipa, l)]
           H == {m \in 0..Levels : \E f : Eq(f, m)}
<1>1. 0 \in H
  <2> DEFINE f == [l \in 0..0 |-> First]
  <2>1. Eq(f, 0)
    <3> HIDE DEF First
    <3> QED
      OBVIOUS
  <2> HIDE DEF Eq, First
  <2> QED
    BY <2>1, LevelsAre
<1>2. ASSUME NEW m \in 0..(Levels - 1), m \in H PROVE m + 1 \in H
  <2> HIDE DEF First
  <2>1. PICK f : Eq(f, m)
    BY <1>2
  <2> DEFINE g == [l \in 0..(m + 1) |-> IF l <= m THEN f[l] ELSE BootLevel(f[m], ipa, m + 1)]
  <2>2. \A l \in 0..m : g[l] = f[l]
    BY LevelsAre
  <2>3. g[m + 1] = BootLevel(f[m], ipa, m + 1)
    BY LevelsAre
  <2>4. \A l \in 0..m : f[l] = IF l = 0 THEN First ELSE BootLevel(f[l - 1], ipa, l)
    BY <2>1
  <2>5. ASSUME NEW l \in 0..(m + 1) PROVE g[l] = IF l = 0 THEN First ELSE BootLevel(g[l - 1], ipa, l)
    <3> HIDE DEF g
    <3>1. CASE l = m + 1
      <4>1. l # 0 /\ l - 1 = m /\ m \in 0..m
        BY <3>1, LevelsAre
      <4> QED
        BY <2>2, <2>3, <3>1, <4>1
    <3>2. CASE l # m + 1
      <4>1. l \in 0..m /\ (l # 0 => l - 1 \in 0..m)
        BY <3>2, LevelsAre
      <4> QED
        BY <2>2, <2>4, <4>1
    <3> QED
      BY <3>1, <3>2
  <2>6. g = [l \in 0..(m + 1) |-> g[l]]
    OBVIOUS
  <2>7. Eq(g, m + 1)
    <3> HIDE DEF g
    <3> QED
      BY <2>5, <2>6
  <2> HIDE DEF Eq, g
  <2> QED
    BY <2>7, LevelsAre
<1>3. Levels \in H
  <2> HIDE DEF H
  <2> QED
    BY <1>1, <1>2, Upward, LevelsAre
<1> DEFINE go[level \in 0..Levels] ==
        IF level = 0 THEN [t |-> s.t, u |-> s.u, page |-> Root]
        ELSE BootLevel(go[level - 1], ipa, level)
<1>4. \E f : f = [level \in 0..Levels |-> IF level = 0 THEN [t |-> s.t, u |-> s.u, page |-> Root]
                                          ELSE BootLevel(f[level - 1], ipa, level)]
  BY <1>3
<1>5. go = [level \in 0..Levels |-> IF level = 0 THEN [t |-> s.t, u |-> s.u, page |-> Root]
                                    ELSE BootLevel(go[level - 1], ipa, level)]
  BY <1>4
<1>6. BootAdd(s, ipa) = go[Levels]
  BY DEF BootAdd
<1> HIDE DEF go
<1>7. go[0] = First
  BY <1>5, LevelsAre
<1>8. \A l \in 1..Levels : go[l] = BootLevel(go[l - 1], ipa, l)
  <2>1. \A l \in 1..Levels : l \in 0..Levels /\ l # 0
    BY LevelsAre
  <2> QED
    BY <1>5, <2>1
<1> QED
  BY <1>6, <1>7, <1>8

(* A boot page is added to those that are mapped.                           *)
LEMMA BootAddIs ==
    ASSUME NEW s, NEW ipa \in BootMap, NEW B, BootMaps(s, B)
    PROVE  s.u \subseteq BootAdd(s, ipa).u /\ BootMaps(BootAdd(s, ipa), B \cup {ipa})
<1>0. ipa \in Ipa
  BY Stage2Assumption
<1>1. PICK go : /\ BootAdd(s, ipa) = go[Levels]
                /\ go[0] = [t |-> s.t, u |-> s.u, page |-> Root]
                /\ \A l \in 1..Levels : go[l] = BootLevel(go[l - 1], ipa, l)
  BY BootAddSteps
<1>2. go[0].t = s.t /\ go[0].u = s.u /\ go[0].page = Root
  BY <1>1
<1> DEFINE G == {l \in 0..(Levels - 1) : s.u \subseteq go[l].u /\ Descent(go[l], ipa, l, s.t)}
<1>3. 0 \in G
  <2>1. ASSUME NPages \notin s.u
        PROVE  \E lev, reach :
                  /\ Forest(s.t, s.u, {}, lev, reach) /\ Clear(s.t, s.u)
                  /\ Root \in s.u /\ lev[Root] = 0 + 1 /\ ipa \in reach[Root]
                  /\ \A i \in Ipa : Walk(s.t, i) = Walk(s.t, i)
    <3>1. PICK lev, reach : Forest(s.t, s.u, {}, lev, reach) /\ Clear(s.t, s.u)
      BY <2>1 DEF BootMaps
    <3>2. Root \in s.u /\ lev[Root] = 0 + 1 /\ ipa \in reach[Root]
      BY <1>0, <3>1 DEF Forest, ForestType
    <3> QED
      BY <3>1, <3>2
  <2>2. Descent(go[0], ipa, 0, s.t)
    BY <1>2, <2>1 DEF Descent
  <2>3. s.u \subseteq go[0].u /\ 0 \in 0..(Levels - 1)
    BY <1>2, LevelsAre
  <2> QED
    BY <2>2, <2>3
<1>4. ASSUME NEW k \in 0..((Levels - 1) - 1), k \in G PROVE k + 1 \in G
  <2>1. k + 1 \in 1..(Levels - 1) /\ (k + 1) - 1 = k /\ k + 1 \in 1..Levels /\ k + 1 \in 0..(Levels - 1)
    BY LevelsAre
  <2> DEFINE p == go[k]
             l == k + 1
  <2>2. go[l] = BootLevel(p, ipa, l)
    BY <1>1, <2>1
  <2>3. Descent(p, ipa, l - 1, s.t) /\ s.u \subseteq p.u /\ l \in 1..(Levels - 1)
    BY <1>4, <2>1
  <2> HIDE DEF p, l
  <2>4. p.u \subseteq BootLevel(p, ipa, l).u /\ Descent(BootLevel(p, ipa, l), ipa, l, s.t)
    BY <1>0, <2>3, BootDown
  <2>5. s.u \subseteq go[l].u /\ Descent(go[l], ipa, l, s.t)
    BY <2>2, <2>3, <2>4
  <2> QED
    BY <2>1, <2>5 DEF l
<1>5. s.u \subseteq go[Levels - 1].u /\ Descent(go[Levels - 1], ipa, Levels - 1, s.t)
  <2>1. Levels - 1 \in Nat /\ Levels - 1 \in 0..(Levels - 1)
    BY LevelsAre
  <2>2. \A k \in 0..(Levels - 1) : k \in G
    <3> HIDE DEF G
    <3> QED
      BY <1>3, <1>4, <2>1, Upward
  <2> QED
    BY <2>1, <2>2
<1> DEFINE p == go[Levels - 1]
           r == BootLevel(p, ipa, Levels)
<1>6. BootAdd(s, ipa) = r
  BY <1>1, LevelsAre
<1>7. s.u \subseteq p.u /\ Descent(p, ipa, Levels - 1, s.t)
  BY <1>5
<1>8. p.u \subseteq r.u
  <2>1. r = [t |-> [p.t EXCEPT ![p.page][PteOffset(ipa, Levels)] = MakeStage2Entry(ipa, "RWX")],
             u |-> p.u, page |-> p.page]
    BY LevelsAre DEF BootLevel
  <2> QED
    BY <2>1
<1>9. ASSUME NPages \notin r.u PROVE BootMaps(r, B \cup {ipa})
  <2>1. NPages \notin s.u
    BY <1>7, <1>8, <1>9
  <2>2. \A i \in Ipa : Walk(s.t, i) = IF i \in B THEN MakeStage2Entry(i, "RWX") ELSE Invalid
    BY <2>1 DEF BootMaps
  <2> HIDE DEF p
  <2> QED
    BY <1>7, <2>2, BootLast
<1>10. BootMaps(r, B \cup {ipa})
  BY <1>9 DEF BootMaps
<1> HIDE DEF p, r
<1> QED
  BY <1>6, <1>7, <1>8, <1>10

(* upTo maps the boot pages one after the other.                            *)
LEMMA BootTablesSteps ==
    \E up : /\ BootTables = up[Span[Levels]]
            /\ up[0] = [t |-> [p \in 0..NPages |-> ZeroPage], u |-> {Root}]
            /\ \A n \in 1..Span[Levels] :
                  up[n] = IF n - 1 \in BootMap THEN BootAdd(up[n - 1], n - 1) ELSE up[n - 1]
<1> DEFINE First == [t |-> [p \in 0..NPages |-> ZeroPage], u |-> {Root}]
           N == Span[Levels]
           Body(f, n) == CASE n = 0 -> First
                           [] n > 0 /\ n - 1 \in BootMap -> BootAdd(f[n - 1], n - 1)
                           [] OTHER -> f[n - 1]
           Eq(f, m) == f = [n \in 0..m |-> Body(f, n)]
           H == {m \in 0..N : \E f : Eq(f, m)}
<1>0. N \in Nat
  BY SpanIs, LevelsAre
<1> HIDE DEF N
<1>1. 0 \in H
  <2> DEFINE f == [n \in 0..0 |-> First]
  <2>1. Body(f, 0) = First
    <3> HIDE DEF First, f
    <3> QED
      OBVIOUS
  <2>2. Eq(f, 0)
    <3> HIDE DEF First, Body
    <3>1. \A n \in 0..0 : Body(f, n) = First
      BY <2>1
    <3> QED
      BY <3>1
  <2> HIDE DEF Eq, First
  <2> QED
    BY <1>0, <2>2
<1>2. ASSUME NEW m \in 0..(N - 1), m \in H PROVE m + 1 \in H
  <2> HIDE DEF First
  <2>0. m \in Nat /\ m + 1 \in 0..N
    BY <1>0
  <2>1. PICK f : Eq(f, m)
    BY <1>2
  <2> DEFINE b == Body(f, m + 1)
             g == [n \in 0..(m + 1) |-> IF n <= m THEN f[n] ELSE b]
  <2> HIDE DEF b, Body
  <2>2. \A n \in 0..m : g[n] = f[n]
    BY <2>0
  <2>3. g[m + 1] = Body(f, m + 1)
    BY <2>0 DEF b
  <2>4. \A n \in 0..m : f[n] = Body(f, n)
    BY <2>1
  <2>5. ASSUME NEW n \in 0..(m + 1) PROVE g[n] = Body(g, n)
    <3>1. n # 0 => g[n - 1] = f[n - 1]
      <4>1. n # 0 => n - 1 \in 0..m
        BY <2>0
      <4> HIDE DEF g
      <4> QED
        BY <2>2, <4>1
    <3> HIDE DEF g
    <3>2. Body(g, n) = Body(f, n)
      <4>1. CASE n = 0
        BY <4>1 DEF Body
      <4>2. CASE n # 0
        BY <3>1, <4>2 DEF Body
      <4> QED
        BY <4>1, <4>2
    <3>3. n = m + 1 \/ n \in 0..m
      BY <2>0
    <3> QED
      BY <2>2, <2>3, <2>4, <3>2, <3>3
  <2>6. g = [n \in 0..(m + 1) |-> g[n]]
    OBVIOUS
  <2>7. Eq(g, m + 1)
    <3> HIDE DEF g
    <3> QED
      BY <2>5, <2>6
  <2> HIDE DEF Eq, g
  <2> QED
    BY <2>0, <2>7
<1>3. N \in H
  <2> HIDE DEF H
  <2>1. \A k \in 0..N : k \in H
    BY <1>0, <1>1, <1>2, Upward
  <2> QED
    BY <1>0, <2>1
<1> DEFINE upTo[n \in 0..Span[Levels]] ==
        CASE n = 0 -> [t |-> [p \in 0..NPages |-> ZeroPage], u |-> {Root}]
          [] n > 0 /\ n - 1 \in BootMap -> BootAdd(upTo[n - 1], n - 1)
          [] OTHER -> upTo[n - 1]
<1>4. \E f : f = [n \in 0..Span[Levels] |->
                     CASE n = 0 -> [t |-> [p \in 0..NPages |-> ZeroPage], u |-> {Root}]
                       [] n > 0 /\ n - 1 \in BootMap -> BootAdd(f[n - 1], n - 1)
                       [] OTHER -> f[n - 1]]
  BY <1>3 DEF N
<1>5. upTo = [n \in 0..Span[Levels] |->
                 CASE n = 0 -> [t |-> [p \in 0..NPages |-> ZeroPage], u |-> {Root}]
                   [] n > 0 /\ n - 1 \in BootMap -> BootAdd(upTo[n - 1], n - 1)
                   [] OTHER -> upTo[n - 1]]
  BY <1>4
<1>6. BootTables = upTo[Span[Levels]]
  BY DEF BootTables
<1> HIDE DEF upTo
<1>7. \A n \in 0..N : upTo[n] = Body(upTo, n)
  BY <1>5 DEF N
<1> HIDE DEF First
<1>8. upTo[0] = First
  <2>1. upTo[0] = Body(upTo, 0)
    <3> HIDE DEF Body
    <3> QED
      BY <1>0, <1>7
  <2> QED
    BY <2>1
<1>9. ASSUME NEW n \in 1..N
      PROVE  upTo[n] = IF n - 1 \in BootMap THEN BootAdd(upTo[n - 1], n - 1) ELSE upTo[n - 1]
  <2>1. n \in 0..N /\ n # 0 /\ n > 0
    BY <1>0
  <2>2. upTo[n] = Body(upTo, n)
    <3> HIDE DEF Body
    <3> QED
      BY <1>7, <2>1
  <2> QED
    BY <2>1, <2>2
<1> QED
  BY <1>6, <1>8, <1>9 DEF First, N

(* The tables made at boot map the boot pages and nothing else, unless the  *)
(* pages ran out.                                                           *)
LEMMA BootForest == BootMaps(BootTables, BootMap)
<1> DEFINE N == Span[Levels]
<1>0. N \in Nat /\ Ipa = 0..(N - 1)
  BY SpanIs, LevelsAre DEF Ipa
<1>1. PICK up : /\ BootTables = up[N]
                /\ up[0] = [t |-> [p \in 0..NPages |-> ZeroPage], u |-> {Root}]
                /\ \A n \in 1..N : up[n] = IF n - 1 \in BootMap THEN BootAdd(up[n - 1], n - 1) ELSE up[n - 1]
  BY BootTablesSteps
<1> HIDE DEF N
<1> DEFINE B(n) == {i \in BootMap : i < n}
           G == {n \in 0..N : BootMaps(up[n], B(n))}
<1>2. 0 \in G
  <2> DEFINE t == [p \in Table |-> ZeroPage]
             u == {Root}
             lev == [p \in Table |-> 1]
             reach == [p \in Table |-> Ipa]
             none == {}
  <2>1. up[0].t = t /\ up[0].u = u
    BY <1>1 DEF Table
  <2>2. /\ t \in [Table -> [Slot -> Entry]]
        /\ \A p \in Table, x \in Slot : t[p][x] = Invalid /\ ~IsLink(t[p][x]) /\ t[p][x].kind # "leaf"
        /\ Clear(t, u)
    BY Kinds DEF Clear
  <2>3. /\ lev \in [Table -> 1..Levels] /\ reach \in [Table -> SUBSET Ipa]
        /\ lev[Root] = 1 /\ reach[Root] = Ipa /\ \A p \in Table : lev[p] = 1
    BY LevelsAre, TablePages
  <2>4. u \in SUBSET (0..(NPages - 1)) /\ Root \in u
    BY LevelsAre DEF Root
  <2>5. \A p \in Table : 1..(lev[p] - 1) = {}
    BY <2>3
  <2> HIDE DEF t, lev, reach, none
  <2>6. Forest(t, u, none, lev, reach)
    <3>1. ForestType(t, u, lev, reach)
      BY <2>2, <2>3, <2>4 DEF ForestType
    <3>2. Links(t, u, lev, reach) /\ Leaves(t, u, lev, reach) /\ OneLink(t)
      BY <2>2 DEF Links, Leaves, OneLink
    <3>3. Agree(lev, reach)
      BY <2>5 DEF Agree
    <3>4. Loose(t, u, none)
      BY DEF Loose, none
    <3> QED
      BY <3>1, <3>2, <3>3, <3>4 DEF Forest
  <2>7. ASSUME NEW i \in Ipa PROVE Walk(t, i) = Invalid
    <3>1. PteOffset(i, Levels) \in Slot
      BY OffsetSlot, LevelsAre DEF Ipa, Slot
    <3>2. u \subseteq Table
      BY <2>4, TablePages
    <3> HIDE DEF u
    <3> QED
      BY <2>2, <2>6, <3>1, <3>2, WalkForest
  <2>8. \A i \in Ipa : i \notin B(0)
    BY <1>0
  <2>9. BootMaps(up[0], B(0))
    <3>1. \E l2, r2 : Forest(up[0].t, up[0].u, {}, l2, r2)
      BY <2>1, <2>6 DEF none
    <3> HIDE DEF u
    <3> HIDE DEF B
    <3> QED
      BY <2>1, <2>2, <2>7, <2>8, <3>1 DEF BootMaps
  <2> QED
    BY <1>0, <2>9
<1>3. ASSUME NEW k \in 0..(N - 1), k \in G PROVE k + 1 \in G
  <2>1. k + 1 \in 1..N /\ k + 1 \in 0..N /\ (k + 1) - 1 = k /\ k \in Ipa
    BY <1>0
  <2>2. BootMaps(up[k], B(k))
    BY <1>3
  <2>3. BootMap \subseteq Nat
    BY Stage2Assumption DEF Ipa
  <2>4. CASE k \in BootMap
    <3>1. B(k + 1) = B(k) \cup {k}
      <4>1. \A i \in BootMap : i < k + 1 <=> i < k \/ i = k
        BY <2>3
      <4> QED
        BY <2>4, <4>1
    <3>2. up[k + 1] = BootAdd(up[k], k)
      BY <1>1, <2>1, <2>4
    <3> DEFINE s == up[k]
               C == B(k)
    <3>3. BootMaps(s, C)
      BY <2>2
    <3> HIDE DEF s, C
    <3>4. BootMaps(BootAdd(s, k), C \cup {k})
      BY <2>4, <3>3, BootAddIs
    <3>5. BootMaps(up[k + 1], B(k + 1))
      BY <3>1, <3>2, <3>4 DEF s, C
    <3> QED
      BY <2>1, <3>5
  <2>5. CASE k \notin BootMap
    <3>1. B(k + 1) = B(k)
      <4>1. \A i \in BootMap : i < k + 1 <=> i < k
        BY <2>3, <2>5
      <4> QED
        BY <4>1
    <3>2. up[k + 1] = up[k]
      BY <1>1, <2>1, <2>5
    <3>3. BootMaps(up[k + 1], B(k + 1))
      BY <2>2, <3>1, <3>2
    <3> QED
      BY <2>1, <3>3
  <2> QED
    BY <2>4, <2>5
<1>4. BootMaps(up[N], B(N))
  <2>1. \A k \in 0..N : k \in G
    <3> HIDE DEF G
    <3> QED
      BY <1>0, <1>2, <1>3, Upward
  <2>2. N \in G
    <3>1. N \in 0..N
      BY <1>0
    <3> HIDE DEF G
    <3> QED
      BY <2>1, <3>1
  <2> HIDE DEF B
  <2> QED
    BY <2>2
<1>5. B(N) = BootMap
  <2>1. \A i \in BootMap : i < N
    BY <1>0, Stage2Assumption
  <2> QED
    BY <2>1
<1> QED
  BY <1>1, <1>4, <1>5

-----------------------------------------------------------------------------
(* The handlers at the tables                                               *)

(* stage2_map runs under g_s2_lock, for the page that faulted.              *)
S2Inv ==
    /\ s2lock \in Vcpu \cup {None}
    /\ walk = [v \in Vcpu |-> walk[v]]
    /\ \A v \in Vcpu :
          /\ walk[v] = [ipa |-> walk[v].ipa, level |-> walk[v].level, page |-> walk[v].page, fresh |-> walk[v].fresh]
          /\ st[v].pc = "map" <=> s2lock = v
          /\ st[v].pc # "map" => walk[v] = Idle
          /\ st[v].pc = "map" => walk[v].ipa = st[v].acc.ipa

(* What a step on the tables does to the walk of the vCPU that makes it.    *)
WalkTo(v, w) == walk'[v] = w /\ walk' = [u \in Vcpu |-> walk'[u]] /\ \A u \in Vcpu : u # v => walk'[u] = walk[u]

Entered(ipa) == [ipa |-> ipa, level |-> 1, page |-> Root, fresh |-> {}]

(* The steps on the tables: all but the first two by the vCPU that holds    *)
(* the lock.                                                                *)
NoTables(v) == UNCHANGED <<tbl, used, s2lock, walk>> /\ \E from, to \in Pc \ {"map"} : Moves(v, from, to)
Locks(v) ==
    /\ Moves(v, "trans", "map") /\ FindRegion(st[v].acc.ipa) # {}
    /\ UNCHANGED <<tbl, used>> /\ s2lock = None /\ s2lock' = v
    /\ WalkTo(v, Entered(st[v].acc.ipa))
Slice(w) == PteOffset(w.ipa, w.level)
Takes(v) ==
    LET w == walk[v]
        n == AllocOnePage(used)
    IN  /\ st[v].pc = "map" /\ UNCHANGED <<st, s2lock>>
        /\ w.level < Levels /\ w.fresh = {} /\ ~IsLink(tbl[w.page][Slice(w)])
        /\ tbl' = [tbl EXCEPT ![n] = ZeroPage] /\ used' = used \cup {n}
        /\ WalkTo(v, [ipa |-> w.ipa, level |-> w.level, page |-> w.page, fresh |-> {n}])
Enters(v) ==
    LET w == walk[v]
    IN  /\ st[v].pc = "map" /\ UNCHANGED <<st, used, s2lock>>
        /\ \E f \in w.fresh : tbl' = [tbl EXCEPT ![w.page][Slice(w)] = TableAt(f)]
        /\ WalkTo(v, [ipa |-> w.ipa, level |-> w.level, page |-> w.page, fresh |-> {}])
Descends(v) ==
    LET w == walk[v]
    IN  /\ st[v].pc = "map" /\ UNCHANGED <<st, tbl, used, s2lock>>
        /\ w.level < Levels /\ w.fresh = {} /\ IsLink(tbl[w.page][Slice(w)])
        /\ WalkTo(v, [ipa |-> w.ipa, level |-> w.level + 1, page |-> tbl[w.page][Slice(w)].page, fresh |-> {}])
Writes(v) ==
    LET w == walk[v]
    IN  /\ Moves(v, "map", "walk") /\ UNCHANGED used /\ s2lock' = None /\ w.level = Levels
        /\ \E e \in EntryFor(st[v].acc.ipa) : tbl' = [tbl EXCEPT ![w.page][PteOffset(w.ipa, Levels)] = e]
        /\ WalkTo(v, Idle)

(* A step of a vCPU is one of these.                                        *)
LEMMA S2Steps ==
    ASSUME StInv, S2Inv, NEW v \in Vcpu, Issue(v) \/ Step(v)
    PROVE  NoTables(v) \/ Locks(v) \/ Takes(v) \/ Enters(v) \/ Descends(v) \/ Writes(v)
<1> DEFINE w == walk[v]
<1>0. /\ walk = [u \in Vcpu |-> walk[u]]
      /\ w = [ipa |-> w.ipa, level |-> w.level, page |-> w.page, fresh |-> w.fresh]
  BY DEF S2Inv
<1>1. ASSUME NEW a, walk' = [walk EXCEPT ![v] = a] PROVE WalkTo(v, a)
  <2>1. walk' = [u \in Vcpu |-> IF u = v THEN a ELSE walk[u]]
    BY <1>0, <1>1
  <2> QED
    BY <2>1 DEF WalkTo
<1>2. ASSUME NEW F, walk' = [walk EXCEPT ![v].fresh = F]
      PROVE  WalkTo(v, [ipa |-> w.ipa, level |-> w.level, page |-> w.page, fresh |-> F])
  <2>1. walk' = [walk EXCEPT ![v] = [w EXCEPT !.fresh = F]]
    BY <1>2
  <2>2. [w EXCEPT !.fresh = F] = [ipa |-> w.ipa, level |-> w.level, page |-> w.page, fresh |-> F]
    <3> HIDE DEF w
    <3> QED
      BY <1>0
  <2> QED
    BY <1>1, <2>1, <2>2
<1>3. \A ipa : [Idle EXCEPT !.ipa = ipa] = Entered(ipa)
  BY DEF Idle, Entered
<1> USE DEF Pc
<1>4. CASE Issue(v) /\ Moves(v, "run", "walk")
  BY <1>4 DEF Issue, s2Vars, NoTables
<1>5. CASE Translate(v) /\ \/ Moves(v, "walk", "trans") \/ Moves(v, "walk", "access") \/ Moves(v, "walk", "run")
  BY <1>5 DEF Translate, s2Vars, NoTables
<1>6. CASE Moves(v, "trans", "dead") /\ UNCHANGED s2Vars
  BY <1>6 DEF s2Vars, NoTables
<1>7. CASE Moves(v, "trans", "map") /\ FindRegion(st[v].acc.ipa) # {} /\ S2Lock(v, st[v].acc.ipa)
  <2>1. WalkTo(v, Entered(st[v].acc.ipa))
    BY <1>1, <1>3, <1>7 DEF S2Lock
  <2> QED
    BY <1>7, <2>1 DEF S2Lock, Locks
<1>8. CASE MapLevel(v) /\ st[v].pc = "map" /\ UNCHANGED st
  <2>1. CASE AllocTable(v)
    BY <1>2, <1>8, <2>1 DEF AllocTable, IsLink, Takes, Slice
  <2>2. CASE LinkTable(v)
    BY <1>2, <1>8, <2>2 DEF LinkTable, Enters, Slice
  <2>3. CASE NextLevelMap(v)
    BY <1>1, <1>8, <2>3 DEF NextLevelMap, IsLink, Descends, Slice
  <2> QED
    BY <1>8, <2>1, <2>2, <2>3 DEF MapLevel
<1>9. CASE MapLeaf(v) /\ Moves(v, "map", "walk")
  <2>1. PICK e \in EntryFor(st[v].acc.ipa) : WriteLeaf(v, e)
    BY <1>9 DEF MapLeaf
  <2>2. WalkTo(v, Idle)
    BY <1>1, <2>1 DEF WriteLeaf
  <2> QED
    BY <1>9, <2>1, <2>2 DEF WriteLeaf, Writes
<1>10. CASE EmulateFails(v) /\ Moves(v, "access", "dead")
  BY <1>10 DEF EmulateFails, s2Vars, NoTables
<1>11. CASE EmulateRead(v) /\ Moves(v, "access", "run")
  BY <1>11 DEF EmulateRead, s2Vars, NoTables
<1>12. CASE EmulateLoad(v) /\ Moves(v, "access", "store")
  BY <1>12 DEF EmulateLoad, s2Vars, NoTables
<1>13. CASE EmulateStore(v) /\ Moves(v, "store", "run")
  BY <1>13 DEF EmulateStore, s2Vars, NoTables
<1>14. CASE EmulateUart(v) /\ Moves(v, "access", "run")
  BY <1>14 DEF EmulateUart, s2Vars, NoTables
<1> QED
  BY StMoves, <1>4, <1>5, <1>6, <1>7, <1>8, <1>9, <1>10, <1>11, <1>12, <1>13, <1>14

(* The lock has one holder, and only the holder is inside stage2_map.       *)
LEMMA S2InvStep ==
    ASSUME StInv, S2Inv, NEW v \in Vcpu, Issue(v) \/ Step(v)
    PROVE  S2Inv'
<1>0. /\ s2lock \in Vcpu \cup {None} /\ None \notin Vcpu
      /\ walk = [u \in Vcpu |-> walk[u]]
      /\ \A u \in Vcpu :
            /\ walk[u] = [ipa |-> walk[u].ipa, level |-> walk[u].level, page |-> walk[u].page, fresh |-> walk[u].fresh]
            /\ st[u].pc = "map" <=> s2lock = u
            /\ st[u].pc # "map" => walk[u] = Idle
            /\ st[u].pc = "map" => walk[u].ipa = st[u].acc.ipa
  BY Stage2Assumption DEF S2Inv
<1>1. ASSUME NEW w, WalkTo(v, w), UNCHANGED st, s2lock' = s2lock, st[v].pc = "map", w.ipa = walk[v].ipa,
             w = [ipa |-> w.ipa, level |-> w.level, page |-> w.page, fresh |-> w.fresh]
      PROVE  S2Inv'
  BY <1>0, <1>1 DEF WalkTo, S2Inv
<1>2. CASE NoTables(v)
  <2>1. PICK from \in Pc \ {"map"}, to \in Pc \ {"map"} : Moves(v, from, to)
    BY <1>2 DEF NoTables
  <2>2. \A u \in Vcpu : (st'[u].pc = "map" <=> st[u].pc = "map") /\ (st[u].pc = "map" => st'[u].acc = st[u].acc)
    BY <2>1 DEF Moves
  <2> QED
    BY <1>0, <1>2, <2>2 DEF NoTables, S2Inv
<1>3. CASE Locks(v)
  <2>1. s2lock = None /\ s2lock' = v /\ st'[v].pc = "map" /\ st'[v].acc = st[v].acc /\ \A u \in Vcpu : u # v => st'[u] = st[u]
    BY <1>3 DEF Locks, Moves
  <2>2. WalkTo(v, Entered(st[v].acc.ipa))
    BY <1>3 DEF Locks
  <2>3. walk'[v] = Entered(st[v].acc.ipa) /\ walk' = [u \in Vcpu |-> walk'[u]] /\ \A u \in Vcpu : u # v => walk'[u] = walk[u]
    BY <2>2 DEF WalkTo
  <2>4. \A u \in Vcpu : st[u].pc # "map"
    BY <1>0, <2>1
  <2> QED
    BY <1>0, <2>1, <2>3, <2>4 DEF S2Inv, Entered
<1>4. CASE Takes(v)
  <2> DEFINE w == [ipa |-> walk[v].ipa, level |-> walk[v].level, page |-> walk[v].page, fresh |-> {AllocOnePage(used)}]
  <2>1. WalkTo(v, w) /\ UNCHANGED st /\ s2lock' = s2lock /\ st[v].pc = "map"
    BY <1>4 DEF Takes
  <2>2. w.ipa = walk[v].ipa /\ w = [ipa |-> w.ipa, level |-> w.level, page |-> w.page, fresh |-> w.fresh]
    OBVIOUS
  <2> HIDE DEF w
  <2> QED
    BY <1>1, <2>1, <2>2
<1>5. CASE Enters(v)
  <2> DEFINE w == [ipa |-> walk[v].ipa, level |-> walk[v].level, page |-> walk[v].page, fresh |-> {}]
  <2>1. WalkTo(v, w) /\ UNCHANGED st /\ s2lock' = s2lock /\ st[v].pc = "map"
    BY <1>5 DEF Enters
  <2>2. w.ipa = walk[v].ipa /\ w = [ipa |-> w.ipa, level |-> w.level, page |-> w.page, fresh |-> w.fresh]
    OBVIOUS
  <2> HIDE DEF w
  <2> QED
    BY <1>1, <2>1, <2>2
<1>6. CASE Descends(v)
  <2> DEFINE w == [ipa |-> walk[v].ipa, level |-> walk[v].level + 1,
                   page |-> tbl[walk[v].page][Slice(walk[v])].page, fresh |-> {}]
  <2>1. WalkTo(v, w) /\ UNCHANGED st /\ s2lock' = s2lock /\ st[v].pc = "map"
    BY <1>6 DEF Descends
  <2>2. w.ipa = walk[v].ipa /\ w = [ipa |-> w.ipa, level |-> w.level, page |-> w.page, fresh |-> w.fresh]
    OBVIOUS
  <2> HIDE DEF w
  <2> QED
    BY <1>1, <2>1, <2>2
<1>7. CASE Writes(v)
  <2>1. WalkTo(v, Idle) /\ s2lock' = None /\ st[v].pc = "map" /\ st'[v].pc = "walk" /\ \A u \in Vcpu : u # v => st'[u] = st[u]
    BY <1>7 DEF Writes, Moves
  <2>2. walk'[v] = Idle /\ walk' = [u \in Vcpu |-> walk'[u]] /\ \A u \in Vcpu : u # v => walk'[u] = walk[u]
    BY <2>1 DEF WalkTo
  <2>3. \A u \in Vcpu : u # v => st[u].pc # "map"
    BY <1>0, <2>1
  <2>4. Idle = [ipa |-> Idle.ipa, level |-> Idle.level, page |-> Idle.page, fresh |-> Idle.fresh]
    BY DEF Idle
  <2> QED
    BY <1>0, <2>1, <2>2, <2>3, <2>4 DEF S2Inv
<1> QED
  BY S2Steps, <1>2, <1>3, <1>4, <1>5, <1>6, <1>7

FreshPages == UNION {walk[v].fresh : v \in Vcpu}

(* Where a walk is in the forest.                                           *)
Holder(t, u, w, lev, reach) ==
    /\ w.page \in u \ w.fresh /\ w.level = lev[w.page] /\ w.ipa \in reach[w.page]
    /\ w.fresh # {} => w.level < Levels /\ ~IsLink(t[w.page][Slice(w)]) /\ \E n : w.fresh = {n}

(* The tables are a forest, the walk of the holder is at a table of it that *)
(* reaches the page that faulted, and the boot pages stay mapped.           *)
TreeInv ==
    NPages \notin used =>
        /\ \E lev, reach :
              /\ Forest(tbl, used, FreshPages, lev, reach)
              /\ \A v \in Vcpu : Holder(tbl, used, walk[v], lev, reach)
        /\ \A i \in BootMap : Walk(tbl, i).kind = "leaf"

Wild(a) ==
    \/ FindRegion(a.ipa) = {}
    \/ a.op = "fetch" /\ \E r \in FindRegion(a.ipa) : r.attr = "NONE"

(* What is known of the page a handler is at work for.                      *)
WildInv ==
    NPages \notin used =>
        \A v \in Vcpu :
            /\ st[v].pc \in {"trans", "map"} => st[v].acc.ipa \notin BootMap
            /\ st[v].pc = "access" => \E r \in FindRegion(st[v].acc.ipa) : r.attr = "NONE"
            /\ st[v].pc = "dead" => Wild(st[v].acc)

(* How a step may change what the hardware finds.                           *)
ViewMoves ==
    \/ \A i \in Ipa : Walk(tbl', i) = Walk(tbl, i)
    \/ \E ipa \in Ipa \ BootMap : \E e \in EntryFor(ipa) :
          Walk(tbl', ipa) = e /\ \A i \in Ipa : i # ipa => Walk(tbl', i) = Walk(tbl, i)

(* The holder's loose page is the only one.                                 *)
LEMMA FreshOf ==
    ASSUME NEW W, NEW v \in Vcpu, \A u \in Vcpu : u # v => W[u].fresh = {}
    PROVE  UNION {W[u].fresh : u \in Vcpu} = W[v].fresh
OBVIOUS

(* map_stage2_page knows at most one leaf for a page, and one if it is in a *)
(* region.                                                                  *)
LEMMA EntryLeaf ==
    ASSUME NEW ipa \in Ipa
    PROVE  /\ \A e \in EntryFor(ipa) : e \in Leaf
           /\ \A e, f \in EntryFor(ipa) : e = f
           /\ FindRegion(ipa) # {} => EntryFor(ipa) # {}
<1>1. \A r, q \in FindRegion(ipa) : r = q
  BY DEF FindRegion
<1>2. \A a : MakeStage2Entry(ipa, a) \in Leaf
  <2> SUFFICES ASSUME NEW a PROVE MakeStage2Entry(ipa, a) \in Leaf
    OBVIOUS
  <2> DEFINE b == a # "NONE"
  <2>1. b \in BOOLEAN
    OBVIOUS
  <2> HIDE DEF b
  <2>2. [kind |-> "leaf", hpa |-> ipa, af |-> b] \in Leaf
    BY <2>1 DEF Leaf
  <2> QED
    BY <2>2 DEF MakeStage2Entry, b
<1> QED
  BY <1>1, <1>2 DEF EntryFor

(* Steps that leave the tables alone, and every walk where it may be.       *)
LEMMA TreeSame ==
    ASSUME TreeInv, UNCHANGED <<tbl, used>>, \A u \in Vcpu : walk'[u].fresh = walk[u].fresh,
           NPages \notin used,
           \A lev, reach : /\ Forest(tbl, used, FreshPages, lev, reach)
                           /\ \A u \in Vcpu : Holder(tbl, used, walk[u], lev, reach)
                           => \A u \in Vcpu : Holder(tbl, used, walk'[u], lev, reach)
    PROVE  TreeInv' /\ ViewMoves
<1>1. FreshPages' = FreshPages
  BY DEF FreshPages
<1>2. PICK lev, reach : /\ Forest(tbl, used, FreshPages, lev, reach)
                        /\ \A u \in Vcpu : Holder(tbl, used, walk[u], lev, reach)
  BY DEF TreeInv
<1>3. \A u \in Vcpu : Holder(tbl', used', walk'[u], lev, reach)
  BY <1>2
<1>4. Forest(tbl', used', FreshPages', lev, reach)
  BY <1>1, <1>2
<1>5. \A i : Walk(tbl', i) = Walk(tbl, i)
  BY DEF Walk
<1>6. \A i \in BootMap : Walk(tbl', i).kind = "leaf"
  BY <1>5 DEF TreeInv
<1> QED
  BY <1>3, <1>4, <1>5, <1>6 DEF TreeInv, ViewMoves

(* A step of the fault handlers keeps the tables a forest, and changes at   *)
(* most one translation: that of a page that faulted, to its region's.      *)
LEMMA TreeStep ==
    ASSUME StInv, S2Inv, TreeInv, WildInv, NEW v \in Vcpu, Issue(v) \/ Step(v), NPages \notin used'
    PROVE  NPages \notin used /\ TreeInv' /\ ViewMoves
<1> DEFINE w == walk[v]
<1>0. NPages \notin used
  BY S2Steps DEF NoTables, Locks, Takes, Enters, Descends, Writes
<1>1. PICK lev, reach : /\ Forest(tbl, used, FreshPages, lev, reach)
                        /\ \A u \in Vcpu : Holder(tbl, used, walk[u], lev, reach)
  BY <1>0 DEF TreeInv
<1>2. /\ tbl \in [Table -> [Slot -> Entry]] /\ used \in SUBSET (0..(NPages - 1)) /\ used \subseteq Table
      /\ lev \in [Table -> 1..Levels] /\ reach \in [Table -> SUBSET Ipa]
      /\ Root \in used /\ lev[Root] = 1 /\ reach[Root] = Ipa
  BY <1>1, TablePages DEF Forest, ForestType
<1>3. /\ w.page \in used \ w.fresh /\ w.page \in Table /\ w.level = lev[w.page] /\ w.level \in 1..Levels
      /\ w.ipa \in reach[w.page] /\ w.ipa \in Ipa /\ w.ipa \in Nat
  BY <1>1, <1>2 DEF Holder, Ipa
<1>4. Slice(w) \in Slot
  BY <1>3, OffsetSlot DEF Slice, Slot
<1>5. \A u \in Vcpu : u # v => walk'[u] = walk[u]
  BY S2Steps DEF NoTables, Locks, Takes, Enters, Descends, Writes, WalkTo
<1>6. Idle.fresh = {} /\ Idle.page = Root /\ Idle.level = 1 /\ Idle.ipa = 0 /\ 0 \in Ipa
  <2>1. Span[Levels] \in Nat \ {0}
    BY SpanIs, LevelsAre
  <2> QED
    BY <2>1 DEF Idle, Ipa
<1>7. st[v].pc = "map" => \A u \in Vcpu : u # v => walk[u] = Idle
  BY DEF S2Inv
<1>8. st[v].pc = "map" => FreshPages = w.fresh
  BY <1>6, <1>7, FreshOf DEF FreshPages
<1>9. \A t, u, l2, r2 : Root \in u /\ l2[Root] = 1 /\ r2[Root] = Ipa => Holder(t, u, Idle, l2, r2)
  BY <1>6 DEF Holder
<1>10. CASE NoTables(v)
  <2>1. UNCHANGED <<tbl, used, walk>>
    BY <1>10 DEF NoTables
  <2> QED
    BY <1>0, <2>1, TreeSame
<1>11. CASE Locks(v)
  <2> DEFINE ipa == st[v].acc.ipa
  <2>1. UNCHANGED <<tbl, used>> /\ walk'[v] = Entered(ipa) /\ st[v].pc = "trans"
    BY <1>11 DEF Locks, WalkTo, Moves
  <2>2. ipa \in Ipa
    BY <2>1, AccessIs DEF StInv
  <2>3. walk[v].fresh = {}
    BY <1>6, <2>1 DEF S2Inv
  <2> HIDE DEF ipa
  <2>4. ASSUME NEW l2, NEW r2, Forest(tbl, used, FreshPages, l2, r2), \A u \in Vcpu : Holder(tbl, used, walk[u], l2, r2)
        PROVE  \A u \in Vcpu : Holder(tbl, used, walk'[u], l2, r2)
    <3>1. Root \in used /\ l2[Root] = 1 /\ r2[Root] = Ipa
      BY <2>4 DEF Forest, ForestType
    <3>2. Holder(tbl, used, Entered(ipa), l2, r2)
      BY <2>2, <3>1 DEF Holder, Entered
    <3> QED
      BY <1>5, <2>1, <2>4, <3>2
  <2>5. \A u \in Vcpu : walk'[u].fresh = walk[u].fresh
    <3>1. Entered(ipa).fresh = {}
      BY DEF Entered
    <3> QED
      BY <1>5, <2>1, <2>3, <3>1
  <2> QED
    BY <1>0, <2>1, <2>4, <2>5, TreeSame
<1>12. CASE Takes(v)
  <2> DEFINE n == AllocOnePage(used)
             w2 == [ipa |-> w.ipa, level |-> w.level, page |-> w.page, fresh |-> {n}]
             s == [tbl EXCEPT ![n] = ZeroPage]
  <2>1. /\ st[v].pc = "map" /\ w.level < Levels /\ w.fresh = {} /\ ~IsLink(tbl[w.page][Slice(w)])
        /\ tbl' = s /\ used' = used \cup {n} /\ walk'[v] = w2
    BY <1>12 DEF Takes, WalkTo
  <2>2. n \in (0..(NPages - 1)) \ used
    BY <1>2, <2>1, AllocIs
  <2> HIDE DEF n
  <2>3. w2.fresh = {n} /\ w2.page = w.page /\ w2.level = w.level /\ w2.ipa = w.ipa /\ Slice(w2) = Slice(w)
    BY DEF Slice
  <2> HIDE DEF w2
  <2>4. FreshPages = {}
    BY <1>8, <2>1
  <2>5. FreshPages' = FreshPages \cup {n}
    <3>1. \A u \in Vcpu : u # v => walk'[u].fresh = {}
      BY <1>5, <1>6, <1>7, <2>1
    <3>2. UNION {walk'[u].fresh : u \in Vcpu} = walk'[v].fresh
      BY <3>1, FreshOf
    <3> QED
      BY <2>1, <2>3, <2>4, <3>2 DEF FreshPages
  <2>6. Forest(s, used \cup {n}, FreshPages \cup {n}, lev, reach) /\ \A p \in Table : p # n => s[p] = tbl[p]
    BY <1>1, <2>2, ForestAlloc
  <2>7. \A i \in Ipa : Walk(s, i) = Walk(tbl, i)
    BY <1>1, <2>2, AllocKeepsWalks
  <2> HIDE DEF s
  <2>8. Holder(s, used \cup {n}, w2, lev, reach)
    <3>1. w.page # n
      BY <1>3, <2>2
    <3>2. s[w.page] = tbl[w.page]
      BY <1>3, <2>6, <3>1
    <3> HIDE DEF w
    <3> QED
      BY <1>3, <2>1, <2>3, <3>1, <3>2 DEF Holder
  <2>9. \A u \in Vcpu : Holder(s, used \cup {n}, walk'[u], lev, reach)
    BY <1>2, <1>5, <1>7, <1>9, <2>1, <2>8
  <2>10. Forest(tbl', used', FreshPages', lev, reach) /\ \A u \in Vcpu : Holder(tbl', used', walk'[u], lev, reach)
    BY <2>1, <2>5, <2>6, <2>9
  <2>11. \A i \in BootMap : Walk(tbl', i).kind = "leaf"
    BY <1>0, <2>1, <2>7, Stage2Assumption DEF TreeInv
  <2>12. ViewMoves
    BY <2>1, <2>7 DEF ViewMoves
  <2> QED
    BY <1>0, <2>10, <2>11, <2>12 DEF TreeInv
<1>13. CASE Enters(v)
  <2> DEFINE x == Slice(w)
             w2 == [ipa |-> w.ipa, level |-> w.level, page |-> w.page, fresh |-> {}]
  <2>1. st[v].pc = "map" /\ used' = used /\ walk'[v] = w2
    BY <1>13 DEF Enters, WalkTo
  <2>2. PICK f \in w.fresh : tbl' = [tbl EXCEPT ![w.page][x] = TableAt(f)]
    BY <1>13 DEF Enters
  <2>3. w.fresh = {f} /\ w.level < Levels /\ ~IsLink(tbl[w.page][x])
    BY <1>1, <2>2 DEF Holder
  <2>4. w2.fresh = {} /\ w2.page = w.page /\ w2.level = w.level /\ w2.ipa = w.ipa
    OBVIOUS
  <2> HIDE DEF w2
  <2>5. FreshPages = {f}
    BY <1>8, <2>1, <2>3
  <2>6. FreshPages' = FreshPages \ {f}
    <3>1. \A u \in Vcpu : u # v => walk'[u].fresh = {}
      BY <1>5, <1>6, <1>7, <2>1
    <3>2. UNION {walk'[u].fresh : u \in Vcpu} = walk'[v].fresh
      BY <3>1, FreshOf
    <3> QED
      BY <2>1, <2>4, <2>5, <3>2 DEF FreshPages
  <2> DEFINE p == w.page
             s == [tbl EXCEPT ![p][x] = TableAt(f)]
             l2 == [lev EXCEPT ![f] = lev[p] + 1]
             r2 == [reach EXCEPT ![f] = {i \in reach[p] : PteOffset(i, lev[p]) = x}]
  <2>7. /\ p \in used \ FreshPages /\ x \in Slot /\ lev[p] < Levels /\ ~IsLink(tbl[p][x]) /\ f \in FreshPages
        /\ p \in Table /\ p # f /\ f # Root /\ f \in Table
    <3>1. f # Root /\ f \in used
      BY <1>1, <2>5 DEF Forest, Loose
    <3> QED
      BY <1>2, <1>3, <1>4, <2>3, <2>5, <3>1
  <2>8. tbl' = s
    BY <2>2
  <2> HIDE DEF p, x
  <2>9. Forest(s, used, FreshPages \ {f}, l2, r2)
    <3> DEFINE t == tbl
               fr == FreshPages
    <3>1. /\ Forest(t, used, fr, lev, reach) /\ p \in used \ fr /\ x \in Slot /\ lev[p] < Levels
          /\ ~IsLink(t[p][x]) /\ f \in fr
      BY <1>1, <2>7
    <3> HIDE DEF t, fr
    <3>2. Forest([t EXCEPT ![p][x] = TableAt(f)], used, fr \ {f}, [lev EXCEPT ![f] = lev[p] + 1],
                 [reach EXCEPT ![f] = {i \in reach[p] : PteOffset(i, lev[p]) = x}])
      BY <3>1, ForestLink
    <3> QED
      BY <3>2 DEF t, fr
  <2>10. \A i \in Ipa : Walk(s, i) = Walk(tbl, i)
    BY <1>1, <2>7, LinkKeepsWalks
  <2>11. \A q \in Table : q # f => l2[q] = lev[q] /\ r2[q] = reach[q]
    BY <1>2
  <2> HIDE DEF s, l2, r2
  <2>12. Holder(s, used, w2, l2, r2)
    <3>1. l2[p] = lev[p] /\ r2[p] = reach[p]
      BY <2>7, <2>11
    <3>2. w2.page = p /\ w2.level = lev[p] /\ w2.ipa \in reach[p] /\ p \in used
      BY <1>3, <2>4, <2>7 DEF p
    <3> QED
      BY <2>4, <3>1, <3>2 DEF Holder
  <2>13. \A u \in Vcpu : Holder(s, used, walk'[u], l2, r2)
    <3>1. l2[Root] = 1 /\ r2[Root] = Ipa
      BY <1>2, <2>7, <2>11
    <3> QED
      BY <1>2, <1>5, <1>7, <1>9, <2>1, <2>12, <3>1
  <2>14. Forest(tbl', used', FreshPages', l2, r2) /\ \A u \in Vcpu : Holder(tbl', used', walk'[u], l2, r2)
    BY <2>1, <2>6, <2>8, <2>9, <2>13
  <2>15. \A i \in BootMap : Walk(tbl', i).kind = "leaf"
    BY <1>0, <2>8, <2>10, Stage2Assumption DEF TreeInv
  <2>16. ViewMoves
    BY <2>8, <2>10 DEF ViewMoves
  <2> QED
    BY <1>0, <2>14, <2>15, <2>16 DEF TreeInv
<1>14. CASE Descends(v)
  <2> DEFINE k == tbl[w.page][Slice(w)].page
             w2 == [ipa |-> w.ipa, level |-> w.level + 1, page |-> k, fresh |-> {}]
  <2>1. /\ st[v].pc = "map" /\ UNCHANGED <<tbl, used>> /\ walk'[v] = w2
        /\ w.fresh = {} /\ IsLink(tbl[w.page][Slice(w)])
    BY <1>14 DEF Descends, WalkTo
  <2>2. w2.fresh = {} /\ w2.page = k /\ w2.level = w.level + 1 /\ w2.ipa = w.ipa
    OBVIOUS
  <2> HIDE DEF w2
  <2>3. \A u \in Vcpu : walk'[u].fresh = walk[u].fresh
    BY <1>5, <2>1, <2>2
  <2>4. ASSUME NEW l2, NEW r2, Forest(tbl, used, FreshPages, l2, r2), \A u \in Vcpu : Holder(tbl, used, walk[u], l2, r2)
        PROVE  \A u \in Vcpu : Holder(tbl, used, walk'[u], l2, r2)
    <3>1. w.level = l2[w.page] /\ w.ipa \in r2[w.page]
      BY <2>4 DEF Holder
    <3>2. k \in used /\ l2[k] = l2[w.page] + 1 /\ r2[k] = {i \in r2[w.page] : PteOffset(i, l2[w.page]) = Slice(w)}
      BY <1>3, <1>4, <2>1, <2>4 DEF Forest, Links
    <3>3. w.ipa \in r2[k]
      <4>1. PteOffset(w.ipa, l2[w.page]) = Slice(w)
        BY <3>1 DEF Slice
      <4> QED
        BY <3>1, <3>2, <4>1
    <3> HIDE DEF k
    <3>4. Holder(tbl, used, w2, l2, r2)
      BY <2>2, <3>1, <3>2, <3>3 DEF Holder
    <3> QED
      BY <1>5, <2>1, <2>4, <3>4
  <2> QED
    BY <1>0, <2>1, <2>3, <2>4, TreeSame
<1>15. CASE Writes(v)
  <2> DEFINE p == w.page
             ipa == w.ipa
  <2>1. st[v].pc = "map" /\ used' = used /\ walk'[v] = Idle /\ w.level = Levels
    BY <1>15 DEF Writes, WalkTo, Moves
  <2>2. PICK e \in EntryFor(st[v].acc.ipa) : tbl' = [tbl EXCEPT ![p][PteOffset(ipa, Levels)] = e]
    BY <1>15 DEF Writes
  <2>3. ipa = st[v].acc.ipa /\ ipa \notin BootMap
    BY <1>0, <2>1 DEF S2Inv, WildInv
  <2>4. e \in Leaf /\ e \in LeafOf(ipa) /\ e \in EntryFor(ipa)
    BY <1>3, <2>2, <2>3, EntryLeaf DEF LeafOf
  <2>5. w.fresh = {}
    BY <1>1, <2>1, LevelsAre DEF Holder
  <2>6. FreshPages = {}
    BY <1>8, <2>1, <2>5
  <2>7. FreshPages' = {}
    BY <1>5, <1>6, <1>7, <2>1 DEF FreshPages
  <2> DEFINE s == [tbl EXCEPT ![p][PteOffset(ipa, Levels)] = e]
  <2>8. p \in used \ FreshPages /\ lev[p] = Levels /\ ipa \in reach[p] /\ ipa \in Ipa
    BY <1>3, <2>1, <2>6
  <2>9. tbl' = s
    BY <2>2
  <2> HIDE DEF p, ipa
  <2>10. /\ Forest(s, used, FreshPages, lev, reach) /\ s[p][PteOffset(ipa, Levels)] = e
         /\ \A q \in Table : \A y \in Slot : (q # p \/ y # PteOffset(ipa, Levels)) => s[q][y] = tbl[q][y]
    BY <1>1, <2>4, <2>8, ForestLeaf
  <2> HIDE DEF s
  <2>11. Walk(s, ipa) = e /\ \A j \in Ipa : j # ipa => Walk(s, j) = Walk(tbl, j)
    BY <1>1, <2>8, <2>10, LeafChangesWalk
  <2>12. \A u \in Vcpu : Holder(s, used, walk'[u], lev, reach)
    BY <1>2, <1>5, <1>7, <1>9, <2>1
  <2>13. Forest(tbl', used', FreshPages', lev, reach) /\ \A u \in Vcpu : Holder(tbl', used', walk'[u], lev, reach)
    BY <2>1, <2>6, <2>7, <2>9, <2>10, <2>12
  <2>14. \A i \in BootMap : Walk(tbl', i).kind = "leaf"
    BY <1>0, <2>3, <2>9, <2>11, Stage2Assumption DEF TreeInv
  <2>15. ViewMoves
    BY <2>3, <2>4, <2>8, <2>9, <2>11 DEF ViewMoves
  <2> QED
    BY <1>0, <2>13, <2>14, <2>15 DEF TreeInv
<1> QED
  BY S2Steps, <1>10, <1>11, <1>12, <1>13, <1>14, <1>15

(* A region whose pages trap has a device.                                  *)
LEMMA TrapsAreDevices ==
    ASSUME NEW ipa \in Nat, NEW r \in FindRegion(ipa), r.attr = "NONE"
    PROVE  r.ops
<1>1. PICK k \in {1, 2, 3} : r = Regions[k]
  BY RegionHolds
<1>2. Regions[1].ops /\ Regions[2].ops /\ Regions[3].attr # "NONE"
  BY DEF Regions
<1> QED
  BY <1>1, <1>2

(* A handler gives up only on what the vCPU should not have touched.        *)
LEMMA WildStep ==
    ASSUME StInv, S2Inv, TreeInv, WildInv, NEW v \in Vcpu, Issue(v) \/ Step(v), NPages \notin used'
    PROVE  WildInv'
<1> DEFINE a == st[v].acc
<1>0. NPages \notin used
  BY TreeStep
<1>1. \A u \in Vcpu :
          /\ st[u].pc \in {"trans", "map"} => st[u].acc.ipa \notin BootMap
          /\ st[u].pc = "access" => \E r \in FindRegion(st[u].acc.ipa) : r.attr = "NONE"
          /\ st[u].pc = "dead" => Wild(st[u].acc)
  BY <1>0 DEF WildInv
<1>2. PICK lev, reach : Forest(tbl, used, FreshPages, lev, reach)
  BY <1>0 DEF TreeInv
<1>3. st[v].pc # "run" => a \in Access(v) /\ a.ipa \in Ipa /\ a.ipa \in Nat
  BY AccessIs DEF StInv
<1>4. ASSUME UNCHANGED st PROVE WildInv'
  BY <1>1, <1>4 DEF WildInv
<1>5. ASSUME NEW from, NEW to, Moves(v, from, to),
             to \in {"trans", "map"} => st'[v].acc.ipa \notin BootMap,
             to = "access" => \E r \in FindRegion(st'[v].acc.ipa) : r.attr = "NONE",
             to = "dead" => Wild(st'[v].acc)
      PROVE  WildInv'
  <2>1. st'[v].pc = to /\ \A u \in Vcpu : u # v => st'[u] = st[u]
    BY <1>5 DEF Moves
  <2>2. \A u \in Vcpu :
          /\ st'[u].pc \in {"trans", "map"} => st'[u].acc.ipa \notin BootMap
          /\ st'[u].pc = "access" => \E r \in FindRegion(st'[u].acc.ipa) : r.attr = "NONE"
          /\ st'[u].pc = "dead" => Wild(st'[u].acc)
    BY <1>1, <1>5, <2>1
  <2> QED
    BY <2>2 DEF WildInv
<1>6. CASE \E from : \E to \in {"run", "walk", "store"} : Moves(v, from, to)
  BY <1>5, <1>6
<1>7. CASE Moves(v, "walk", "trans") /\ Walk(tbl, a.ipa).kind # "leaf"
  <2>1. a.ipa \notin BootMap
    BY <1>0, <1>7 DEF TreeInv
  <2>2. st'[v].acc = a
    BY <1>7 DEF Moves
  <2> QED
    BY <1>5, <1>7, <2>1, <2>2
<1>8. CASE Moves(v, "walk", "access") /\ Walk(tbl, a.ipa).kind = "leaf" /\ ~Walk(tbl, a.ipa).af
  <2>1. st'[v].acc = a /\ st[v].pc = "walk"
    BY <1>8 DEF Moves
  <2>2. a.ipa \in Ipa
    BY <1>3, <2>1
  <2> HIDE DEF a
  <2>3. Walk(tbl, a.ipa) \in LeafOf(a.ipa)
    BY <1>2, <1>8, <2>2, WalkLeaf, Kinds
  <2>4. a.ipa \notin BootMap
    <3> SUFFICES ASSUME a.ipa \in BootMap PROVE FALSE
      OBVIOUS
    <3>1. Walk(tbl, a.ipa) = MakeStage2Entry(a.ipa, "RWX")
      BY <2>3 DEF LeafOf, IdentityOf
    <3>2. MakeStage2Entry(a.ipa, "RWX").af
      BY DEF MakeStage2Entry
    <3> QED
      BY <1>8, <3>1, <3>2
  <2>5. PICK r \in FindRegion(a.ipa) : Walk(tbl, a.ipa) = MakeStage2Entry(a.ipa, r.attr)
    BY <2>3, <2>4 DEF LeafOf, EntryFor
  <2>6. MakeStage2Entry(a.ipa, r.attr).af = (r.attr # "NONE")
    BY DEF MakeStage2Entry
  <2>7. r.attr = "NONE"
    BY <1>8, <2>5, <2>6
  <2> QED
    BY <1>5, <1>8, <2>1, <2>7
<1>9. CASE Moves(v, "trans", "dead") /\ FindRegion(a.ipa) = {}
  <2>1. st'[v].acc = a
    BY <1>9 DEF Moves
  <2> QED
    BY <1>5, <1>9, <2>1 DEF Wild
<1>10. CASE Moves(v, "trans", "map")
  <2>1. st'[v].acc = a /\ st[v].pc = "trans"
    BY <1>10 DEF Moves
  <2> QED
    BY <1>1, <1>5, <1>10, <2>1
<1>11. CASE EmulateFails(v) /\ Moves(v, "access", "dead")
  <2>1. st'[v].acc = a /\ st[v].pc = "access" /\ ~Emulated(a)
    BY <1>11 DEF Moves, EmulateFails
  <2>2. PICK r \in FindRegion(a.ipa) : r.attr = "NONE"
    BY <1>1, <2>1
  <2>3. r.ops
    BY <1>3, <2>1, <2>2, TrapsAreDevices
  <2>4. a.op = "fetch"
    BY <2>1, <2>3 DEF Emulated
  <2>5. Wild(st'[v].acc)
    BY <2>1, <2>2, <2>4 DEF Wild
  <2> QED
    BY <1>5, <1>11, <2>5
<1> QED
  BY StMoves, <1>4, <1>6, <1>7, <1>8, <1>9, <1>10, <1>11

(* What the fault handlers rely on.                                         *)
FaultInv == StInv /\ S2Inv /\ TreeInv /\ WildInv

(* The tables that enable_stage2_traslation leaves are a forest.            *)
LEMMA FaultStart == GmInit => FaultInv
<1> SUFFICES ASSUME GmInit PROVE FaultInv
  OBVIOUS
<1>1. StInv
  BY StStart
<1>2. tbl = BootTables.t /\ used = BootTables.u /\ s2lock = None /\ walk = [v \in Vcpu |-> Idle]
  BY DEF GmInit, S2Init
<1>3. \A v \in Vcpu : st[v].pc = "run"
  BY DEF GmInit
<1>4. S2Inv
  <2>1. Idle = [ipa |-> Idle.ipa, level |-> Idle.level, page |-> Idle.page, fresh |-> Idle.fresh]
    BY DEF Idle
  <2> QED
    BY <1>2, <1>3, <2>1, Stage2Assumption DEF S2Inv
<1>5. WildInv
  BY <1>3 DEF WildInv
<1>6. TreeInv
  <2> SUFFICES ASSUME NPages \notin used
               PROVE  /\ \E lev, reach : /\ Forest(tbl, used, FreshPages, lev, reach)
                                         /\ \A v \in Vcpu : Holder(tbl, used, walk[v], lev, reach)
                      /\ \A i \in BootMap : Walk(tbl, i).kind = "leaf"
    BY DEF TreeInv
  <2>1. /\ \E lev, reach : Forest(tbl, used, {}, lev, reach)
        /\ \A i \in Ipa : Walk(tbl, i) = IF i \in BootMap THEN MakeStage2Entry(i, "RWX") ELSE Invalid
    BY <1>2, BootForest DEF BootMaps
  <2>2. PICK lev, reach : Forest(tbl, used, {}, lev, reach)
    BY <2>1
  <2>3. FreshPages = {}
    BY <1>2 DEF FreshPages, Idle
  <2>4. \A v \in Vcpu : Holder(tbl, used, walk[v], lev, reach)
    <3>1. Root \in used /\ lev[Root] = 1 /\ reach[Root] = Ipa
      BY <2>2 DEF Forest, ForestType
    <3>2. 0 \in Ipa
      BY SpanIs, LevelsAre DEF Ipa
    <3>3. Holder(tbl, used, Idle, lev, reach)
      BY <3>1, <3>2 DEF Holder, Idle
    <3> QED
      BY <1>2, <3>3
  <2>5. \A i \in BootMap : Walk(tbl, i).kind = "leaf"
    <3>1. \A i \in BootMap : Walk(tbl, i) = MakeStage2Entry(i, "RWX")
      BY <2>1, Stage2Assumption
    <3> QED
      BY <3>1 DEF MakeStage2Entry
  <2> QED
    BY <2>2, <2>3, <2>4, <2>5
<1> QED
  BY <1>1, <1>4, <1>5, <1>6 DEF FaultInv

(* ... and every step keeps it.                                             *)
LEMMA FaultStep ==
    ASSUME FaultInv, [GmNext]_gmVars
    PROVE  FaultInv'
<1>1. CASE UNCHANGED gmVars
  <2>1. UNCHANGED <<tbl, used, s2lock, walk, st>>
    BY <1>1 DEF gmVars, s2Vars
  <2>2. StInv'
    BY StStep DEF FaultInv
  <2>3. S2Inv'
    BY <2>1 DEF FaultInv, S2Inv
  <2>4. WildInv'
    BY <2>1 DEF FaultInv, WildInv
  <2>5. FreshPages' = FreshPages
    BY <2>1 DEF FreshPages
  <2>6. TreeInv'
    <3>1. \A i : Walk(tbl', i) = Walk(tbl, i)
      BY <2>1 DEF Walk
    <3> QED
      BY <2>1, <2>5, <3>1 DEF FaultInv, TreeInv
  <2> QED
    BY <2>2, <2>3, <2>4, <2>6 DEF FaultInv
<1>2. ASSUME NEW v \in Vcpu, Issue(v) \/ Step(v) PROVE FaultInv'
  <2> USE <1>2 DEF FaultInv
  <2>1. StInv'
    BY StMoves
  <2>2. S2Inv'
    BY S2InvStep
  <2>3. CASE NPages \notin used'
    BY <2>1, <2>2, <2>3, TreeStep, WildStep
  <2>4. CASE NPages \in used'
    BY <2>1, <2>2, <2>4 DEF TreeInv, WildInv
  <2> QED
    BY <2>3, <2>4
<1> QED
  BY <1>1, <1>2 DEF GmNext

(* The invariant holds in every reachable state.                            *)
THEOREM FaultInductive == GmSpec => []FaultInv
<1>1. FaultInv /\ [GmNext]_gmVars => FaultInv'
  BY FaultStep
<1> QED
  BY <1>1, FaultStart, PTL DEF GmSpec

(* As long as alloc_one_page has pages to give, the walks of stage2_map     *)
(* stay inside the tables and on their levels, whoever faults meanwhile.    *)
THEOREM GuestMemTypes == GmSpec => [](NPages \notin used => GmTypeOK)
<1>1. FaultInv => (NPages \notin used => GmTypeOK)
  <2> SUFFICES ASSUME FaultInv, NPages \notin used PROVE GmTypeOK
    OBVIOUS
  <2>1. PICK lev, reach : /\ Forest(tbl, used, FreshPages, lev, reach)
                          /\ \A v \in Vcpu : Holder(tbl, used, walk[v], lev, reach)
    BY DEF FaultInv, TreeInv
  <2>2. used \in SUBSET (0..(NPages - 1)) /\ used \subseteq Table /\ lev \in [Table -> 1..Levels]
    BY <2>1, TablePages DEF Forest, ForestType
  <2>3. \A v \in Vcpu : walk[v].page \in used /\ walk[v].level \in 1..Levels
    BY <2>1, <2>2 DEF Holder
  <2>4. \A v \in Vcpu : st[v].pc \in {"run", "walk", "trans", "map", "access", "store", "dead"}
    BY DEF FaultInv, StInv, Pc
  <2> QED
    BY <2>2, <2>3, <2>4 DEF FaultInv, S2Inv, GmTypeOK
<1> QED
  BY <1>1, FaultInductive, PTL

(* As long as there are pages, g_s2_lock keeps the stage-2 tables a tree    *)
(* over exactly the pages taken for them, however vCPUs fault together.     *)
THEOREM TablesStayTree == GmSpec => [](NPages \notin used => TablesAreTree)
<1>1. FaultInv => (NPages \notin used => TablesAreTree)
  <2> SUFFICES ASSUME FaultInv, NPages \notin used PROVE TablesAreTree
    OBVIOUS
  <2>1. PICK lev, reach : Forest(tbl, used, FreshPages, lev, reach)
    BY DEF FaultInv, TreeInv
  <2> DEFINE links == {e \in Table \X Slot : IsLink(tbl[e[1]][e[2]])}
             pages == {tbl[e[1]][e[2]].page : e \in links}
  <2>2. \A e \in links : /\ e[1] \in Table /\ e[2] \in Slot /\ e = <<e[1], e[2]>>
                         /\ IsLink(tbl[e[1]][e[2]])
    OBVIOUS
  <2>3. \A p \in Table, x \in Slot : IsLink(tbl[p][x]) => <<p, x>> \in links
    OBVIOUS
  <2>4. \A q : q \in pages <=> Linked(tbl, q)
    <3>1. ASSUME NEW q \in pages PROVE Linked(tbl, q)
      BY <2>2 DEF Linked
    <3>2. ASSUME NEW q, Linked(tbl, q) PROVE q \in pages
      <4>1. PICK p \in Table, x \in Slot : IsLink(tbl[p][x]) /\ tbl[p][x].page = q
        BY <3>2 DEF Linked
      <4>2. <<p, x>> \in links /\ tbl[<<p, x>>[1]][<<p, x>>[2]].page = q
        BY <2>3, <4>1
      <4> QED
        BY <4>2
    <3> QED
      BY <3>1, <3>2
  <2> HIDE DEF pages
  <2>5. Root \in used /\ \A q : Linked(tbl, q) => q \in used
    BY <2>1 DEF Forest, ForestType, Links, Linked
  <2>6. used = {Root} \cup pages \cup FreshPages
    BY <2>1, <2>4, <2>5 DEF Forest, Loose
  <2> HIDE DEF links
  <2>7. \A e, f \in links : tbl[e[1]][e[2]].page = tbl[f[1]][f[2]].page => e = f
    <3> SUFFICES ASSUME NEW e \in links, NEW f \in links, tbl[e[1]][e[2]].page = tbl[f[1]][f[2]].page
                 PROVE  e = f
      OBVIOUS
    <3>1. e[1] = f[1] /\ e[2] = f[2]
      BY <2>1, <2>2 DEF Forest, OneLink
    <3> QED
      BY <2>2, <3>1
  <2>8. \A e \in links : tbl[e[1]][e[2]].page # Root /\ e[1] \in used
    BY <2>1, <2>2 DEF Forest, Links
  <2> QED
    BY <2>6, <2>7, <2>8 DEF TablesAreTree, FreshPages, links, pages, IsLink, Table, Slot
<1> QED
  BY <1>1, FaultInductive, PTL

(* As long as there are pages, a vCPU brings the hypervisor down only by    *)
(* touching a page of no region or fetching from a device.                  *)
THEOREM PanicsAreWild == GmSpec => [](NPages \notin used => OnlyWildPanics)
<1>1. FaultInv => (NPages \notin used => OnlyWildPanics)
  BY DEF FaultInv, WildInv, Wild, OnlyWildPanics
<1> QED
  BY <1>1, FaultInductive, PTL

(* What the hardware finds for the guest.                                   *)
Seen == [i \in Ipa |-> {Walk(tbl, i)} \ {Invalid}]

(* A step of the implementation is a page that appears, or nothing.         *)
LEMMA SeenStep ==
    ASSUME FaultInv, [GmNext]_gmVars, NPages \notin used'
    PROVE  [\E i \in Ipa : View!Appears(i)]_Seen
<1>1. CASE UNCHANGED gmVars
  <2>1. tbl' = tbl
    BY <1>1 DEF gmVars, s2Vars
  <2>2. Seen' = Seen
    BY <2>1 DEF Seen, Walk
  <2> QED
    BY <2>2
<1>2. ASSUME NEW v \in Vcpu, Issue(v) \/ Step(v) PROVE [\E i \in Ipa : View!Appears(i)]_Seen
  <2>1. NPages \notin used /\ ViewMoves
    BY <1>2, TreeStep DEF FaultInv
  <2>2. Seen' = [i \in Ipa |-> {Walk(tbl', i)} \ {Invalid}]
    BY DEF Seen
  <2>3. CASE \A i \in Ipa : Walk(tbl', i) = Walk(tbl, i)
    <3>1. Seen' = Seen
      BY <2>2, <2>3 DEF Seen
    <3> QED
      BY <3>1
  <2>4. ASSUME NEW ipa \in Ipa \ BootMap, NEW e \in EntryFor(ipa), Walk(tbl', ipa) = e,
               \A i \in Ipa : i # ipa => Walk(tbl', i) = Walk(tbl, i)
        PROVE  [\E i \in Ipa : View!Appears(i)]_Seen
    <3>1. PICK lev, reach : Forest(tbl, used, FreshPages, lev, reach)
      BY <2>1 DEF FaultInv, TreeInv
    <3>2. EntryFor(ipa) = {e} /\ e # Invalid
      BY EntryLeaf, Kinds
    <3>3. Walk(tbl, ipa) = Invalid \/ Walk(tbl, ipa) = e
      <4>1. Walk(tbl, ipa) = Invalid \/ (Walk(tbl, ipa).kind = "leaf" /\ Walk(tbl, ipa) \in LeafOf(ipa))
        BY <3>1, WalkLeaf
      <4> QED
        BY <3>2, <4>1 DEF LeafOf
    <3>4. CASE Walk(tbl, ipa) = e
      <4>1. \A i \in Ipa : Walk(tbl', i) = Walk(tbl, i)
        BY <2>4, <3>4
      <4> QED
        BY <2>3, <4>1
    <3>5. CASE Walk(tbl, ipa) = Invalid
      <4>1. Seen[ipa] = {} /\ EntryFor(ipa) # {}
        BY <3>2, <3>5 DEF Seen
      <4>2. Seen' = [Seen EXCEPT ![ipa] = EntryFor(ipa)]
        BY <2>2, <2>4, <3>2 DEF Seen
      <4>3. View!Appears(ipa)
        BY <4>1, <4>2 DEF View!Appears, Seen
      <4> QED
        BY <4>3
    <3> QED
      BY <3>3, <3>4, <3>5
  <2> QED
    BY <2>1, <2>3, <2>4 DEF ViewMoves
<1> QED
  BY <1>1, <1>2 DEF GmNext

(* The tables implement the guest's view for as long as there are pages:    *)
(* pages appear one at a time, each where its region leads, and none that   *)
(* is there is lost or changed.                                             *)
THEOREM TablesAreView == GmSpec /\ [](NPages \notin used) => ViewGrows
<1>1. GmInit /\ NPages \notin used => View!ViewInit
  <2> SUFFICES ASSUME GmInit, NPages \notin used PROVE View!ViewInit
    OBVIOUS
  <2>1. \A i \in Ipa : Walk(tbl, i) = IF i \in BootMap THEN MakeStage2Entry(i, "RWX") ELSE Invalid
    BY BootForest DEF GmInit, S2Init, BootMaps
  <2>2. \A i : MakeStage2Entry(i, "RWX") # Invalid
    BY DEF MakeStage2Entry, Invalid
  <2>3. \A i \in Ipa : {Walk(tbl, i)} \ {Invalid} = IF i \in BootMap THEN IdentityOf(i) ELSE {}
    BY <2>1, <2>2 DEF IdentityOf
  <2> QED
    BY <2>3 DEF View!ViewInit
<1>2. FaultInv /\ [GmNext]_gmVars /\ (NPages \notin used)' =>
          [\E i \in Ipa : View!Appears(i)]_[i \in Ipa |-> {Walk(tbl, i)} \ {Invalid}]
  BY SeenStep DEF Seen
<1> QED
  BY <1>1, <1>2, FaultInductive, PTL DEF GmSpec, ViewGrows, View!ViewSpec
=============================================================================
