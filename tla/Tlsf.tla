-------------------------------- MODULE Tlsf --------------------------------
(***************************************************************************)
(* The TLSF heap of src/core/tlsf.c behind kmalloc (src/core/kmalloc.c).    *)
(* Sizes and addresses are in words of 8 bytes (ALIGN_SIZE), so the header  *)
(* overhead is 1, the smallest block 3 and a block_header_t 4.  A block is  *)
(* named by the word of its size field: its payload starts at the next      *)
(* word, its prev_phys_block is the word before, inside the previous block. *)
(* A free list is the sequence its next_free and prev_free fields link, so  *)
(* unlinking is one operation.  Each operator takes the heap h as the code  *)
(* finds it and gives it as the code leaves it; kmalloc and kfree hold      *)
(* g_kmalloc_lock around a call, so each call is one step.  kmalloc uses    *)
(* tlsf_malloc and tlsf_free only; memalign and realloc are the library's.  *)
(***************************************************************************)
EXTENDS Integers, Sequences, SequencesExt

CONSTANTS
    PoolWords,      \* words given to tlsf_add_pool
    SLLog,          \* SL_INDEX_COUNT_LOG2
    FLMax,          \* FL_INDEX_MAX, in words
    Sizes,          \* sizes that are asked for, in words
    Aligns          \* alignments that are asked for, in words

(* 1 << k, for the k that a size can need                                   *)
Pow2[k \in 0..(FLMax + 2)] == IF k = 0 THEN 1 ELSE 2 * Pow2[k - 1]

ASSUME TlsfAssumption ==
    /\ SLLog \in Nat /\ FLMax \in Nat /\ FLMax > SLLog
    /\ PoolWords \in Nat /\ PoolWords - 2 \in 3..Pow2[FLMax]
    /\ Sizes \subseteq 0..(Pow2[FLMax] - 1) /\ Aligns \subseteq Nat \ {0}

VARIABLES
    heap,           \* control_t and the headers in the pool
    ptrs,           \* payloads that callers hold
    refused         \* the last request, if it got no memory: {[n, align]}

tlsfVars == <<heap, ptrs, refused>>

MinSize == 3                            \* block_size_min
HeaderSize == 4                         \* sizeof(block_header_t)
SmallSize == Pow2[SLLog]                \* SMALL_BLOCK_SIZE
FLCount == FLMax - SLLog + 1            \* FL_INDEX_COUNT

Bigger(a, b) == IF a > b THEN a ELSE b

(* tlsf_fls_sizet and tlsf_ffs                                              *)
Fls(n) == CHOOSE k \in 0..FLMax + 1 : Pow2[k] <= n /\ n < Pow2[k + 1]
Ffs(bits) == CHOOSE b \in bits : \A c \in bits : b <= c

RoundUp(n, align) == ((n + align - 1) \div align) * align

(* adjust_request_size: 0 stands for a request that cannot be served.       *)
Adjust(n, align) ==
    IF n # 0 /\ RoundUp(n, align) < Pow2[FLMax] THEN Bigger(RoundUp(n, align), MinSize) ELSE 0

(* mapping_insert: the list a block of n words belongs to.                  *)
MappingInsert(n) ==
    IF n < SmallSize
    THEN [fl |-> 0, sl |-> n]
    ELSE [fl |-> Fls(n) - SLLog + 1, sl |-> (n \div Pow2[Fls(n) - SLLog]) - SmallSize]

(* Faulty variant, for mutation runs: rounded up one word too far.          *)
MappingSearchTooFar(n) ==
    MappingInsert(IF n >= SmallSize THEN n + Pow2[Fls(n) - SLLog] ELSE n)

(* mapping_search: the first list all of whose blocks have n words.         *)
MappingSearch(n) ==
    MappingInsert(IF n >= SmallSize THEN n + Pow2[Fls(n) - SLLog] - 1 ELSE n)

-----------------------------------------------------------------------------
(* Headers: block_size, block_next, and the marks of block_header_t.        *)
Size(h, b) == h.hdr[b].size
NextOf(h, b) == b + 1 + Size(h, b)
Is(h, b, flag) == h.hdr[b][flag]

(* block_set_size keeps the marks that the word happens to hold.            *)
SetSize(h, b, n) == [h EXCEPT !.hdr[b].size = n]
Mark(h, b, flag, value) == [h EXCEPT !.hdr[b][flag] = value]
LinkNext(h, b) == [h EXCEPT !.prev[NextOf(h, b)] = b]

MarkAsFree(h, b) ==
    Mark(Mark(LinkNext(h, b), NextOf(h, b), "prevFree", TRUE), b, "free", TRUE)

MarkAsUsed(h, b) ==
    Mark(Mark(h, NextOf(h, b), "prevFree", FALSE), b, "free", FALSE)

(* A list without a block that is in it                                     *)
Unlink(list, b) == RemoveAt(list, CHOOSE k \in DOMAIN list : list[k] = b)

(* remove_free_block: unlinked, and the bitmaps say when a list is empty.   *)
RemoveFreeBlock(h, b, i) ==
    LET rest == Unlink(h.list[i.fl][i.sl], b)
        sl   == IF rest = <<>> THEN h.sl[i.fl] \ {i.sl} ELSE h.sl[i.fl]
    IN  [h EXCEPT !.list[i.fl][i.sl] = rest,
                  !.sl[i.fl] = sl,
                  !.fl = IF sl = {} THEN @ \ {i.fl} ELSE @]

(* insert_free_block: at the head of the list.                              *)
InsertFreeBlock(h, b, i) ==
    [h EXCEPT !.list[i.fl][i.sl] = <<b>> \o @,
              !.sl[i.fl] = @ \cup {i.sl},
              !.fl = @ \cup {i.fl}]

BlockRemove(h, b) == RemoveFreeBlock(h, b, MappingInsert(Size(h, b)))
BlockInsert(h, b) == InsertFreeBlock(h, b, MappingInsert(Size(h, b)))

-----------------------------------------------------------------------------
(* block_can_split                                                          *)
CanSplit(h, b, n) == Size(h, b) >= HeaderSize + n

(* block_split: the first block gets n words, the rest is a free block.     *)
Rest(b, n) == b + 1 + n
Split(h, b, n) ==
    LET h1 == SetSize(h, Rest(b, n), Size(h, b) - (n + 1))
    IN  MarkAsFree(SetSize(h1, b, n), Rest(b, n))

(* block_absorb: the storage of b joins the free block before it.           *)
Absorb(h, p, b) == LinkNext(SetSize(h, p, Size(h, p) + Size(h, b) + 1), p)

(* block_merge_prev, and the block that holds the storage then              *)
MergedPrev(h, b) == IF Is(h, b, "prevFree") THEN h.prev[b] ELSE b
MergePrev(h, b) ==
    IF Is(h, b, "prevFree") THEN Absorb(BlockRemove(h, h.prev[b]), h.prev[b], b) ELSE h

(* Faulty variant, for mutation runs: the neighbour is not merged.          *)
MergeNextNever(h, b) == h

(* block_merge_next                                                         *)
MergeNext(h, b) ==
    IF Is(h, NextOf(h, b), "free") THEN Absorb(BlockRemove(h, NextOf(h, b)), b, NextOf(h, b)) ELSE h

(* block_trim_free, block_trim_used, block_trim_free_leading: what lies     *)
(* behind, or before, the part that is used goes back to the lists.         *)
TrimFree(h, b, n) ==
    IF ~CanSplit(h, b, n) THEN h
    ELSE LET r == Rest(b, n)
         IN  BlockInsert(Mark(LinkNext(Split(h, b, n), b), r, "prevFree", TRUE), r)

TrimUsed(h, b, n) ==
    IF ~CanSplit(h, b, n) THEN h
    ELSE LET r == Rest(b, n)
         IN  BlockInsert(MergeNext(Mark(Split(h, b, n), r, "prevFree", FALSE), r), r)

TrimFreeLeading(h, b, gap) ==
    BlockInsert(LinkNext(Mark(Split(h, b, gap - 1), Rest(b, gap - 1), "prevFree", TRUE), b), b)

(* search_suitable_block: the first list that is not empty, at i or above   *)
Suitable(h, i) ==
    LET same  == {s \in h.sl[i.fl] : s >= i.sl}
        above == {f \in h.fl : f > i.fl}
    IN  CASE same # {} -> {[fl |-> i.fl, sl |-> Ffs(same)]}
          [] same = {} /\ above # {} -> {[fl |-> Ffs(above), sl |-> Ffs(h.sl[Ffs(above)])]}
          [] OTHER -> {}

(* block_locate_free: the head of that list, if there is one.               *)
LocateFree(h, n) ==
    {[block |-> Head(h.list[j.fl][j.sl]), at |-> j] :
        j \in IF n = 0 \/ MappingSearch(n).fl >= FLCount THEN {} ELSE Suitable(h, MappingSearch(n))}

(* block_prepare_used                                                       *)
PrepareUsed(h, b, n) == MarkAsUsed(TrimFree(h, b, n), b)

(* tlsf_walk_pool: the blocks from the first to the sentinel                *)
Blocks(h) ==
    LET from[b \in 0..PoolWords] ==
            IF b >= PoolWords \/ Size(h, b) = 0 THEN {} ELSE {b} \cup from[NextOf(h, b)]
    IN  from[0]

Junk == [size |-> 0, free |-> TRUE, prevFree |-> TRUE]

(* What the rest of the pool holds: a caller may write anything into its    *)
(* payload, its last word included, where the next block has its link.  So  *)
(* a word that is not a header, and the link behind a used block, are junk. *)
Overwrite(h) ==
    LET all    == Blocks(h)
        header == all \cup {PoolWords - 1}
        behind == {NextOf(h, b) : b \in {c \in all : Is(h, c, "free")}}
    IN  [h EXCEPT !.hdr  = [w \in DOMAIN @ |-> IF w \in header THEN @[w] ELSE Junk],
                  !.prev = [w \in DOMAIN @ |-> IF w \in behind THEN @[w] ELSE PoolWords]]

-----------------------------------------------------------------------------
(* tlsf_create_with_pool: control_construct, then tlsf_add_pool makes one   *)
(* free block and the sentinel of size 0 behind it.                         *)
Empty ==
    [hdr  |-> [w \in 0..(PoolWords - 1) |-> Junk],
     prev |-> [w \in 0..(PoolWords - 1) |-> PoolWords],
     list |-> [f \in 0..(FLCount - 1) |-> [s \in 0..(SmallSize - 1) |-> <<>>]],
     fl   |-> {},
     sl   |-> [f \in 0..(FLCount - 1) |-> {}]]

AddPool(h) ==
    LET h1   == Mark(Mark(SetSize(h, 0, PoolWords - 2), 0, "free", TRUE), 0, "prevFree", FALSE)
        h2   == LinkNext(BlockInsert(h1, 0), 0)
        last == NextOf(h2, 0)
    IN  Mark(Mark(SetSize(h2, last, 0), last, "free", FALSE), last, "prevFree", TRUE)

(* tlsf_malloc, as kmalloc calls it under its lock                          *)
Malloc(n) ==
    LET found == LocateFree(heap, Adjust(n, 1))
    IN  \/ found = {} /\ refused' = {[n |-> n, align |-> 1]} /\ UNCHANGED <<heap, ptrs>>
        \/ \E f \in found :
              LET h == RemoveFreeBlock(heap, f.block, f.at)
              IN  /\ heap' = Overwrite(PrepareUsed(h, f.block, Adjust(n, 1)))
                  /\ ptrs' = ptrs \cup {f.block + 1}
                  /\ refused' = {}

(* tlsf_memalign: a gap that is too short for a block moves the payload to  *)
(* the next aligned place.                                                  *)
Asked(n, align) ==
    IF Adjust(n, 1) # 0 /\ align > 1 THEN Adjust(Adjust(n, 1) + align + HeaderSize, align)
    ELSE Adjust(n, 1)

Gap(ptr, align) ==
    LET gap == RoundUp(ptr, align) - ptr
    IN  IF gap \in 1..(HeaderSize - 1)
        THEN RoundUp(ptr + gap + Bigger(HeaderSize - gap, align), align) - ptr
        ELSE gap

Memalign(n, align) ==
    LET found == LocateFree(heap, Asked(n, align))
    IN  \/ found = {} /\ refused' = {[n |-> n, align |-> align]} /\ UNCHANGED <<heap, ptrs>>
        \/ \E f \in found :
              LET h   == RemoveFreeBlock(heap, f.block, f.at)
                  gap == Gap(f.block + 1, align)
                  cut == gap # 0 /\ CanSplit(h, f.block, gap)
                  b   == IF cut THEN Rest(f.block, gap - 1) ELSE f.block
                  h1  == IF cut THEN TrimFreeLeading(h, f.block, gap) ELSE h
              IN  /\ heap' = Overwrite(PrepareUsed(h1, b, Adjust(n, 1)))
                  /\ ptrs' = ptrs \cup {b + 1}
                  /\ refused' = {}

(* tlsf_free, as kfree calls it under its lock                              *)
Freed(h, p) ==
    LET h1 == MarkAsFree(h, p - 1)
        b  == MergedPrev(h1, p - 1)
    IN  BlockInsert(MergeNext(MergePrev(h1, p - 1), b), b)

Free(p) == heap' = Overwrite(Freed(heap, p)) /\ ptrs' = ptrs \ {p} /\ refused' = {}

(* tlsf_realloc of a payload that is held: moved when the next block cannot *)
(* give the room, else grown into it and trimmed.                           *)
ReallocMove(p, n) ==
    LET found == LocateFree(heap, Adjust(n, 1))
    IN  \/ found = {} /\ refused' = {[n |-> n, align |-> 1]} /\ UNCHANGED <<heap, ptrs>>
        \/ \E f \in found :
              LET h == RemoveFreeBlock(heap, f.block, f.at)
              IN  /\ heap' = Overwrite(Freed(PrepareUsed(h, f.block, Adjust(n, 1)), p))
                  /\ ptrs' = (ptrs \ {p}) \cup {f.block + 1}
                  /\ refused' = {}

ReallocInPlace(p, n) ==
    LET b  == p - 1
        h  == IF Adjust(n, 1) > Size(heap, b) THEN MarkAsUsed(MergeNext(heap, b), b) ELSE heap
    IN  /\ heap' = Overwrite(TrimUsed(h, b, Adjust(n, 1)))
        /\ refused' = {}
        /\ UNCHANGED ptrs

Realloc(p, n) ==
    LET b        == p - 1
        next     == NextOf(heap, b)
        combined == Size(heap, b) + Size(heap, next) + 1
        moves    == /\ Adjust(n, 1) > Size(heap, b)
                    /\ ~Is(heap, next, "free") \/ Adjust(n, 1) > combined
    IN  CASE n = 0 -> Free(p)
          [] n # 0 /\ moves -> ReallocMove(p, n)
          [] n # 0 /\ ~moves -> ReallocInPlace(p, n)

TlsfNext ==
    \/ \E n \in Sizes : Malloc(n)
    \/ \E n \in Sizes, align \in Aligns : Memalign(n, align)
    \/ \E p \in ptrs : Free(p)
    \/ \E p \in ptrs, n \in Sizes : Realloc(p, n)

-----------------------------------------------------------------------------
(* tlsf_check: the bitmaps say which lists are not empty; a list holds free *)
(* blocks of its size, and no free block touches another.                   *)
TlsfCheck(h) ==
    \A f \in DOMAIN h.list :
        /\ h.sl[f] = {s \in DOMAIN h.list[f] : h.list[f][s] # <<>>}
        /\ f \in h.fl <=> h.sl[f] # {}
        /\ \A s \in DOMAIN h.list[f] : \A b \in Range(h.list[f][s]) :
              /\ Is(h, b, "free") /\ ~Is(h, b, "prevFree")
              /\ ~Is(h, NextOf(h, b), "free") /\ Is(h, NextOf(h, b), "prevFree")
              /\ Size(h, b) >= MinSize
              /\ MappingInsert(Size(h, b)) = [fl |-> f, sl |-> s]

(* tlsf_check_pool with integrity_walker: a block knows of the one before.  *)
TlsfCheckPool(h) ==
    \A b \in Blocks(h) : Is(h, NextOf(h, b), "prevFree") <=> Is(h, b, "free")

(* The structure every call relies on: what tlsf_check and tlsf_check_pool  *)
(* insist on, and beyond it that the walk tiles the pool up to the          *)
(* sentinel, each free block is in the lists once and can be reached from   *)
(* the block behind it, and the used blocks are those that callers hold.    *)
(* It must survive every order of splits and merges.                        *)
HeapIntegrity ==
    LET all    == Blocks(heap)
        free   == {b \in all : Is(heap, b, "free")}
        listed == {i \in (DOMAIN heap.list) \X (0..(SmallSize - 1)) : heap.list[i[1]][i[2]] # <<>>}
    IN  /\ TlsfCheck(heap) /\ TlsfCheckPool(heap)
        /\ \A b \in all : NextOf(heap, b) \in all \cup {PoolWords - 1}
        /\ \A b \in free : heap.prev[NextOf(heap, b)] = b
        /\ free = UNION {Range(heap.list[i[1]][i[2]]) : i \in listed}
        /\ \A i \in listed : IsInjective(heap.list[i[1]][i[2]])
        /\ ptrs = {b + 1 : b \in all \ free}

Enough(n, align) ==
    LET z == Asked(n, align)
    IN  IF z = 0 THEN PoolWords
        ELSE IF z < SmallSize THEN z ELSE RoundUp(z, Pow2[Fls(z) - SLLog])

LeastOf(n) == IF n = 0 THEN PoolWords ELSE Adjust(n, 1)

H == INSTANCE HeapSpec WITH
        Least <- LeastOf,
        Aligns <- Aligns \cup {1},
        held <- {[at |-> p, size |-> Size(heap, p - 1)] : p \in ptrs}

(* The heap implements its promise: payloads never overlap, are as long as  *)
(* asked, and a request fails only when no free run is as long as the size  *)
(* class that block_locate_free searches.                                   *)
HeapPromise == H!HeapSpec
=============================================================================
