----------------------------- MODULE KernelMem ------------------------------
(***************************************************************************)
(* The hypervisor's own memory once init_mm has run: the page allocator,    *)
(* and the kmalloc heap in a block of pages it never gives back.  The two   *)
(* have a lock each and share nothing after init_kmalloc, so a behaviour    *)
(* explores the callers of one of them, chosen when the heap is made.       *)
(***************************************************************************)
EXTENDS PageAlloc, Tlsf

CONSTANT HeapCnt    \* pages of KMALLOC_HEAP_SIZE

ASSUME HeapCntAssumption == HeapCnt \in Counts

VARIABLES
    heapPfn,        \* g_kmalloc_heap, NPages before init_kmalloc
    user            \* whose calls the behaviour explores

kmVars == <<vars, tlsfVars, heapPfn, user>>

KmInit ==
    /\ Init
    /\ heap = Empty /\ ptrs = {} /\ refused = {}
    /\ heapPfn = NPages
    /\ user = "boot"

(* init_kmalloc: alloc_mem_pool, then tlsf_create_with_pool on the pages.   *)
InitKmalloc ==
    /\ user = "boot"
    /\ AllocPagesCnt(HeapCnt)
    /\ heapPfn' = got'
    /\ heap' = Overwrite(AddPool(Empty))
    /\ UNCHANGED <<ptrs, refused>>
    /\ user' \in {"pages", "heap"}

PageCall ==
    /\ user = "pages"
    /\ \/ \E cnt \in Counts : AllocPagesCnt(cnt)
       \/ \E b \in {c \in blocks : c.pfn # heapPfn} : FreePagesCnt(b)
    /\ UNCHANGED <<tlsfVars, heapPfn, user>>

HeapCall == user = "heap" /\ TlsfNext /\ UNCHANGED <<vars, heapPfn, user>>

KmNext == InitKmalloc \/ PageCall \/ HeapCall

KmSpec == KmInit /\ [][KmNext]_kmVars

(* From init_kmalloc on, whatever is allocated, resized and freed, the      *)
(* structure that tlsf_check insists on holds: lists, bitmaps, marks and    *)
(* links agree, and free neighbours have been merged.                       *)
HeapSound == user # "boot" => HeapIntegrity
=============================================================================
