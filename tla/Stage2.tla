------------------------------- MODULE Stage2 -------------------------------
(***************************************************************************)
(* The stage-2 tables that all vCPUs share (src/arch/aarch64/               *)
(* page_table_s2.c, lpae.c, enable_stage2_traslation of mm.c).  stage2_map  *)
(* holds g_s2_lock; inside, it goes down level by level, and each level is  *)
(* a step here, so that what the lock is for can be seen.  A page is named  *)
(* by its number, and an index by the digits of the IPA in base Fanout.     *)
(* stage2_unmap has no caller and is left out.                              *)
(***************************************************************************)
EXTENDS Integers, FiniteSetsExt

CONSTANTS
    Vcpu,           \* vCPUs, each on a pCPU of its own
    Fanout,         \* entries of a table
    Levels,         \* levels from lookup_level to 3
    NPages,         \* pages of the page allocator
    BootMap,        \* IPA pages that enable_stage2_traslation maps
    None            \* no vCPU

(* Pages that k levels of tables span, as ARM_PT_LEVEL_SHIFT counts them.   *)
Span[k \in 0..Levels] == IF k = 0 THEN 1 ELSE Fanout * Span[k - 1]

Ipa == 0..(Span[Levels] - 1)

ASSUME Stage2Assumption ==
    /\ Fanout \in Nat \ {0, 1} /\ Levels \in Nat \ {0} /\ NPages \in Nat \ {0}
    /\ None \notin Vcpu
    /\ BootMap \subseteq Ipa

VARIABLES
    tbl,            \* contents of the pages, as tables
    used,           \* pages taken from the page allocator
    s2lock,         \* who holds g_s2_lock
    walk            \* per vCPU: where stage2_map_4k is: [ipa, level,
                    \* page, fresh: a table not entered yet]

s2Vars == <<tbl, used, s2lock, walk>>

Root == 0

(* pte_offset                                                               *)
PteOffset(ipa, level) == (ipa \div Span[Levels - level]) % Fanout

Idle == [ipa |-> 0, level |-> 1, page |-> Root, fresh |-> {}]

Invalid == [kind |-> "none"]
TableAt(page) == [kind |-> "table", page |-> page]

(* make_stage2_entry: access NONE clears the access flag, so that the first *)
(* touch of an emulated device traps.                                       *)
MakeStage2Entry(hpa, access) == [kind |-> "leaf", hpa |-> hpa, af |-> access # "NONE"]

ZeroPage == [x \in 0..(Fanout - 1) |-> Invalid]

(* alloc_one_page: the lowest free page, or TOTAL_PAGES, which the callers  *)
(* take for a page as well.                                                 *)
AllocOnePage(taken) == IF Cardinality(taken) = NPages THEN NPages ELSE Min((0..(NPages - 1)) \ taken)

(* What the hardware's walk finds: a leaf, or nothing.                      *)
Walk(t, ipa) ==
    LET down[level \in 1..Levels] ==
            LET page == IF level = 1 THEN Root
                        ELSE IF down[level - 1].kind = "table" THEN down[level - 1].page ELSE NPages + 1
            IN  IF page > NPages THEN Invalid ELSE t[page][PteOffset(ipa, level)]
    IN  down[Levels]

-----------------------------------------------------------------------------
(* Faulty variant, for mutation runs: the lock is not taken.                *)
S2LockNever(v, ipa) ==
    /\ walk' = [walk EXCEPT ![v] = [Idle EXCEPT !.ipa = ipa]]
    /\ UNCHANGED <<tbl, used, s2lock>>

(* stage2_map up to its loop                                                *)
S2Lock(v, ipa) ==
    /\ s2lock = None
    /\ s2lock' = v
    /\ walk' = [walk EXCEPT ![v] = [Idle EXCEPT !.ipa = ipa]]
    /\ UNCHANGED <<tbl, used>>

(* s2_next_level_map of a table that is missing: a page is allocated and    *)
(* cleared ...                                                              *)
AllocTable(v) ==
    LET w    == walk[v]
        page == AllocOnePage(used)
    IN  /\ w.level < Levels /\ w.fresh = {}
        /\ tbl[w.page][PteOffset(w.ipa, w.level)].kind # "table"
        /\ walk' = [walk EXCEPT ![v].fresh = {page}]
        /\ tbl' = [tbl EXCEPT ![page] = ZeroPage]
        /\ used' = used \cup {page}
        /\ UNCHANGED s2lock

(* ... and entered.                                                         *)
LinkTable(v) ==
    LET w == walk[v]
    IN  /\ \E page \in w.fresh :
              tbl' = [tbl EXCEPT ![w.page][PteOffset(w.ipa, w.level)] = TableAt(page)]
        /\ walk' = [walk EXCEPT ![v].fresh = {}]
        /\ UNCHANGED <<used, s2lock>>

(* Faulty variant, for mutation runs: the walk goes one level too deep.     *)
NextLevelMapTooDeep(v) ==
    LET w    == walk[v]
        have == tbl[w.page][PteOffset(w.ipa, w.level)]
    IN  /\ w.fresh = {} /\ have.kind = "table"
        /\ walk' = [walk EXCEPT ![v].level = @ + 2, ![v].page = have.page]
        /\ UNCHANGED <<tbl, used, s2lock>>

(* The walk goes into the table that is there, or is there now.             *)
NextLevelMap(v) ==
    LET w    == walk[v]
        have == tbl[w.page][PteOffset(w.ipa, w.level)]
    IN  /\ w.level < Levels /\ w.fresh = {} /\ have.kind = "table"
        /\ walk' = [walk EXCEPT ![v] = [ipa |-> w.ipa, level |-> w.level + 1, page |-> have.page, fresh |-> {}]]
        /\ UNCHANGED <<tbl, used, s2lock>>

(* Faulty variant, for mutation runs: the entry of the next page.           *)
WriteLeafNext(v, entry) ==
    LET w == walk[v]
    IN  /\ w.level = Levels
        /\ tbl' = [tbl EXCEPT ![w.page][PteOffset(w.ipa + 1, Levels)] = entry]
        /\ s2lock' = None
        /\ walk' = [walk EXCEPT ![v] = Idle]
        /\ UNCHANGED used

(* The end of stage2_map_4k and stage2_map: the leaf is written, whatever   *)
(* it was, and the lock given back.                                         *)
WriteLeaf(v, entry) ==
    LET w == walk[v]
    IN  /\ w.level = Levels
        /\ tbl' = [tbl EXCEPT ![w.page][PteOffset(w.ipa, Levels)] = entry]
        /\ s2lock' = None
        /\ walk' = [walk EXCEPT ![v] = Idle]
        /\ UNCHANGED used

(* One level of stage2_map_4k at boot, when nobody else runs: p is what the *)
(* levels above left and the table they led to.                             *)
BootLevel(p, ipa, level) ==
    LET x == PteOffset(ipa, level)
        n == AllocOnePage(p.u)
    IN  CASE level = Levels ->
               [t |-> [p.t EXCEPT ![p.page][x] = MakeStage2Entry(ipa, "RWX")], u |-> p.u, page |-> p.page]
          [] level < Levels /\ p.t[p.page][x].kind = "table" ->
               [t |-> p.t, u |-> p.u, page |-> p.t[p.page][x].page]
          [] OTHER ->
               [t |-> [p.t EXCEPT ![p.page][x] = TableAt(n)], u |-> p.u \cup {n}, page |-> n]

BootAdd(s, ipa) ==
    LET go[level \in 0..Levels] ==
            IF level = 0 THEN [t |-> s.t, u |-> s.u, page |-> Root]
            ELSE BootLevel(go[level - 1], ipa, level)
    IN  go[Levels]

(* enable_stage2_traslation: s2_alloc_root_pages, then the identity maps    *)
(* made before any vCPU runs.  The tables they need follow the root.        *)
BootTables ==
    LET upTo[n \in 0..Span[Levels]] ==
            CASE n = 0 -> [t |-> [p \in 0..NPages |-> ZeroPage], u |-> {Root}]
              [] n > 0 /\ n - 1 \in BootMap -> BootAdd(upTo[n - 1], n - 1)
              [] OTHER -> upTo[n - 1]
    IN  upTo[Span[Levels]]

S2Init ==
    /\ tbl = BootTables.t
    /\ used = BootTables.u
    /\ s2lock = None
    /\ walk = [v \in Vcpu |-> Idle]

-----------------------------------------------------------------------------
(* Tables are a tree over exactly the pages taken for them: vCPUs that      *)
(* fault at once never leave a table that nothing leads to, nor lead two    *)
(* entries to one table.                                                    *)
TablesAreTree ==
    LET links == {e \in (0..NPages) \X (0..(Fanout - 1)) : tbl[e[1]][e[2]].kind = "table"}
    IN  /\ used = {Root} \cup {tbl[e[1]][e[2]].page : e \in links} \cup UNION {walk[v].fresh : v \in Vcpu}
        /\ \A e, f \in links : tbl[e[1]][e[2]].page = tbl[f[1]][f[2]].page => e = f
        /\ \A e \in links : tbl[e[1]][e[2]].page # Root /\ e[1] \in used
=============================================================================
