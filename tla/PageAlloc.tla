----------------------------- MODULE PageAlloc ------------------------------
(***************************************************************************)
(* The page allocator of src/core/page_alloc.c on the bitmap of             *)
(* src/core/bitmap.c.  A bitmap is the set of its bits that are 1; the      *)
(* search reads it word by word, as the code does.  Every operation holds   *)
(* g_page_lock from beginning to end, so it is one step, whichever pCPU     *)
(* makes it.                                                                *)
(***************************************************************************)
EXTENDS PagePool, FiniteSetsExt

CONSTANT W      \* BITS_PER_UINT64

ASSUME WordAssumption == W \in Nat \ {0}

VARIABLE map    \* g_page_allocator_bitmap

vars == <<map, blocks, got>>

(* Bits of word k, inverted when invert is TRUE, as the set of the 1s.      *)
Word(bitmap, k, invert) == {b \in (k * W)..(k * W + W - 1) : (b \in bitmap) # invert}

SmallerOf(a, b) == IF a < b THEN a ELSE b

(* _find_next_bit: the first word without the bits below start, then word   *)
(* after word while one begins below nbits.  A bit found behind nbits, in   *)
(* the word that nbits cuts, counts as none.                                *)
FindNext(bitmap, nbits, start, invert) ==
    LET scan[k \in 0..(nbits \div W + 1)] ==
            LET tmp == {b \in Word(bitmap, k, invert) : b >= start}
            IN  IF k * W >= nbits THEN nbits
                ELSE IF tmp # {} THEN SmallerOf(Min(tmp), nbits)
                ELSE scan[k + 1]
    IN  IF start >= nbits THEN nbits ELSE scan[start \div W]

AlignUp(index) == ((index + Align - 1) \div Align) * Align

(* Faulty variants of the next operator, for mutation runs: the run is      *)
(* checked from its second page on; the search gives up at the first run    *)
(* that is too short.                                                       *)
FindNextZeroAreaSkipFirst(bitmap, size, nr) ==
    LET again[start \in 0..size] ==
            LET index == AlignUp(FindNext(bitmap, size, start, TRUE))
                end   == index + nr
                i     == FindNext(bitmap, end, index + 1, FALSE)
            IN  IF end > size THEN end
                ELSE IF i < end THEN again[i + 1]
                ELSE index
    IN  again[0]
FindNextZeroAreaGiveUp(bitmap, size, nr) ==
    LET index == AlignUp(FindNext(bitmap, size, 0, TRUE))
        end   == index + nr
    IN  IF end > size \/ FindNext(bitmap, end, index, FALSE) < end THEN size ELSE index

(* bitmap_find_next_zero_area from bit 0: a zero bit, rounded up to the     *)
(* alignment, if nr zeros follow; else again behind the 1 in the way.  A    *)
(* run that would not fit ends the search with a number above size.         *)
FindNextZeroArea(bitmap, size, nr) ==
    LET again[start \in 0..size] ==
            LET index == AlignUp(FindNext(bitmap, size, start, TRUE))
                end   == index + nr
                i     == FindNext(bitmap, end, index, FALSE)
            IN  IF end > size THEN end
                ELSE IF i < end THEN again[i + 1]
                ELSE index
    IN  again[0]

(* init_page_allocator                                                      *)
Init == map = {} /\ PoolInit

(* alloc_pages_cnt, behind alloc_pages and alloc_one_page                   *)
AllocPagesCnt(cnt) ==
    LET start == FindNextZeroArea(map, NPages, cnt)
    IN  IF start >= NPages
        THEN got' = NPages /\ UNCHANGED <<map, blocks>>
        ELSE /\ map' = map \cup Pages(start, cnt)
             /\ blocks' = blocks \cup {[pfn |-> start, cnt |-> cnt]}
             /\ got' = start

(* Faulty variant, for mutation runs: one bit too many is cleared.          *)
FreePagesCntOneMore(b) ==
    /\ map' = map \ Pages(b.pfn, b.cnt + 1)
    /\ blocks' = blocks \ {b}
    /\ UNCHANGED got

(* free_pages_cnt of a block some caller holds                              *)
FreePagesCnt(b) ==
    /\ map' = map \ Pages(b.pfn, b.cnt)
    /\ blocks' = blocks \ {b}
    /\ UNCHANGED got

Next ==
    \/ \E cnt \in Counts : AllocPagesCnt(cnt)
    \/ \E b \in blocks : FreePagesCnt(b)

Spec == Init /\ [][Next]_vars

(* The bitmap says exactly which pages callers hold: none leaks when blocks *)
(* of different sizes are freed in any order, none is freed under another.  *)
MapIsBlocks == map = UNION {Pages(b.pfn, b.cnt) : b \in blocks}
=============================================================================
