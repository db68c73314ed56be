---------------------------- MODULE MCPageAlloc -----------------------------
(* The page allocator on a small memory, with words that cut it unevenly,  *)
(* and the heap in a pool of two lists per power of two.                  *)
EXTENDS KernelMem
=============================================================================
