------------------------------ MODULE HeapSpec ------------------------------
(***************************************************************************)
(* What the TLSF heap behind kmalloc promises its callers, in words of 8    *)
(* bytes: every payload they hold is disjoint from the others and from the  *)
(* one-word header before each, is at least as long as asked and not a      *)
(* whole header longer, and a request fails only when no free run is as     *)
(* long as the size class the request is rounded up to.  How blocks are     *)
(* split, merged and indexed is in Tlsf.                                    *)
(***************************************************************************)
EXTENDS Integers

CONSTANTS
    PoolWords,      \* words of the pool, the sentinel included
    Sizes, Aligns,  \* what callers ask for
    Least(_),       \* words that serve a request of this size
    Enough(_, _)    \* a free block this long always serves (size, align)

VARIABLES
    held,           \* payloads in the hands of callers: records [at, size]
    refused         \* the last request, if it got no memory: {[n, align]}

Extent(r) == (r.at - 1)..(r.at + r.size - 1)

(* No room for a free block of z words between its header and the next.     *)
NoRun(z) ==
    \A a \in 0..(PoolWords - z - 2) :
        \E r \in held : Extent(r) \cap (a..(a + z + 1)) # {}

Grants(n, align, others) ==
    {r \in [at : 1..(PoolWords - 1), size : Least(n)..(Least(n) + 3)] :
        /\ r.at % align = 0
        /\ r.at + r.size <= PoolWords - 1
        /\ \A o \in others : Extent(o) \cap Extent(r) = {}}

HeapInit == held = {} /\ refused = {}

HeapAlloc(n, align) ==
    \E r \in Grants(n, align, held) : held' = held \cup {r} /\ refused' = {}

HeapFail(n, align) ==
    /\ NoRun(Enough(n, align))
    /\ refused' = {[n |-> n, align |-> align]}
    /\ UNCHANGED held

HeapFree(r) == held' = held \ {r} /\ refused' = {}

(* A payload keeps its place or moves; one that cannot grow stays.          *)
HeapRealloc(r, n) ==
    \/ \E new \in Grants(n, 1, held \ {r}) :
              held' = (held \ {r}) \cup {new} /\ refused' = {}
    \/ HeapFail(n, 1)

HeapNext ==
    \/ \E n \in Sizes, align \in Aligns : HeapAlloc(n, align) \/ HeapFail(n, align)
    \/ \E r \in held : HeapFree(r) \/ \E n \in Sizes : HeapRealloc(r, n)

HeapSpec == HeapInit /\ [][HeapNext]_<<held, refused>>
=============================================================================
