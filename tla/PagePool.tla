------------------------------ MODULE PagePool ------------------------------
(***************************************************************************)
(* What the page allocator promises its callers (the boot code, kmalloc,    *)
(* and the page tables of every pCPU): a request for cnt pages gets the     *)
(* lowest free run that starts at an aligned page, and fails only when      *)
(* there is none.  The bitmap and the search are in PageAlloc.              *)
(***************************************************************************)
EXTENDS Integers, FiniteSets

CONSTANTS
    NPages,     \* TOTAL_PAGES, also the answer of a request that fails
    Align,      \* align_mask + 1
    Counts      \* the page counts that are asked for

ASSUME PagesAssumption  == NPages \in Nat \ {0}
ASSUME AlignAssumption  == Align \in Nat \ {0}
ASSUME CountsAssumption == Counts \subseteq Nat \ {0}

VARIABLES
    blocks,     \* what callers hold: records [pfn, cnt]
    got         \* what the last request answered

poolVars == <<blocks, got>>

Page == 0..(NPages - 1)
Block == [pfn : Page, cnt : Counts]

Pages(pfn, cnt) == pfn..(pfn + cnt - 1)

(* A run of cnt pages that could be handed out.                             *)
Fits(pfn, cnt) ==
    /\ pfn % Align = 0
    /\ pfn + cnt <= NPages
    /\ \A b \in blocks : Pages(pfn, cnt) \cap Pages(b.pfn, b.cnt) = {}

PoolInit == blocks = {} /\ got = NPages

PoolAlloc(cnt) ==
    \E pfn \in Page :
        /\ Fits(pfn, cnt)
        /\ \A p \in 0..(pfn - 1) : ~Fits(p, cnt)
        /\ blocks' = blocks \cup {[pfn |-> pfn, cnt |-> cnt]}
        /\ got' = pfn

PoolFail(cnt) ==
    /\ \A pfn \in Page : ~Fits(pfn, cnt)
    /\ got' = NPages
    /\ UNCHANGED blocks

PoolFree(b) ==
    /\ blocks' = blocks \ {b}
    /\ UNCHANGED got

PoolNext ==
    \/ \E cnt \in Counts : PoolAlloc(cnt) \/ PoolFail(cnt)
    \/ \E b \in blocks : PoolFree(b)

(* The allocator implements the pool: a request gets the lowest aligned run *)
(* that is free, as the test in src/arch/aarch64/mm.c (352-365) expects     *)
(* after a free, fails only when there is none, and a free gives back       *)
(* exactly the block.                                                       *)
PoolSpec == PoolInit /\ [][PoolNext]_poolVars

(* No page is in the hands of two callers, and every block lies in memory.  *)
Exclusive ==
    /\ \A b \in blocks : b \in Block /\ b.pfn + b.cnt <= NPages
    /\ \A b, c \in blocks : b # c => Pages(b.pfn, b.cnt) \cap Pages(c.pfn, c.cnt) = {}
=============================================================================
