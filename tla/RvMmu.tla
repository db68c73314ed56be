-------------------------------- MODULE RvMmu -------------------------------
(***************************************************************************)
(* RISC-V page tables (src/arch/riscv64/mmu.c): the host's Sv48 tables and  *)
(* the guest's Sv48x4 tables are filled by one function, __pg_map, a page   *)
(* or a block at a time.  The tables' shape, the page allocator and the     *)
(* record of a call under way are those of HostMap; here an entry leads on  *)
(* to a table as long as it has no permission bit.                          *)
(***************************************************************************)
EXTENDS HostMap

CONSTANT PageBytes      \* bytes of a page

ASSUME RvMmuAssumption == PageBytes \in Nat \ {0}

BlockBytes == Fan * PageBytes       \* MB_2

(* page_table_root, page_stage2_table_root                                  *)
HostRoot   == Static(0)
Stage2Root == Static(1)

(* make_pg_entry, write_pte: the latter sets permissions, a leaf            *)
MakePgEntry(base) == [valid |-> TRUE, table |-> TRUE, base |-> base]
WritePte(base) == [MakePgEntry(base) EXCEPT !.table = FALSE]

(* A call of __pg_map under way, down to level `end`.                       *)
PgCall(root, end, va, pa) == [end |-> end, va |-> va, pa |-> pa, path |-> <<root>>]

(* __pg_map, a level at a time: pg_next_level allocates and clears what is  *)
(* missing; under a block ("walk block desc") it stays in the table it was  *)
(* in.  The last entry is written whatever it held.                         *)
PgMapLevel(m, t) ==
    LET e   == Entry(m, t)
        new == AllocOnePage(m.used)
    IN  CASE Level(t) = t.end -> [mem |-> Fill(m, t, WritePte(t.pa)), rest |-> <<>>]
          [] Level(t) < t.end /\ ~e.valid ->
                [mem |-> [Fill(m, t, MakePgEntry(new)) EXCEPT !.used = @ \cup {new}, !.tbl[new] = ZeroTable],
                 rest |-> Down(t, new)]
          [] Level(t) < t.end /\ e.valid /\ ~e.table -> [mem |-> m, rest |-> Down(t, Last(t.path))]
          [] OTHER -> [mem |-> m, rest |-> Down(t, e.base)]

(* Faulty variant, for mutation runs: the size is rounded down.             *)
PgMapDown(root, va, pa, size) ==
    [i \in 1..(size \div PageBytes) |-> PgCall(root, 3, va \div PageBytes + i - 1, pa \div PageBytes + i - 1)]

(* pg_map: pages of 4 KB, the size rounded up                               *)
PgMap(root, va, pa, size) ==
    [i \in 1..((size + PageBytes - 1) \div PageBytes) |->
        PgCall(root, 3, va \div PageBytes + i - 1, pa \div PageBytes + i - 1)]

(* pg_map_huge: blocks of 2 MB, everything rounded to them                  *)
PgMapHuge(root, va, pa, size) ==
    [i \in 1..((size + BlockBytes - 1) \div BlockBytes) |->
        PgCall(root, 2, (va \div BlockBytes + i - 1) * Fan, (pa \div BlockBytes + i - 1) * Fan)]

(* The walk of the hardware, a level at a time, from a root; <<>> is a      *)
(* fault.                                                                   *)
PtwStep(m, va, above, level) ==
    IF above.e.valid /\ above.e.table
    THEN [e |-> m.tbl[above.e.base][Index(va, level)], span |-> LevelSpan(level)]
    ELSE above
PtwWalk(m, root, va) ==
    LET first == PtwStep(m, va, [e |-> MakePgEntry(root), span |-> 0], 0)
        end   == PtwStep(m, va, PtwStep(m, va, PtwStep(m, va, first, 1), 2), 3)
    IN  IF end.e.valid /\ ~end.e.table THEN <<end.e.base + (va % end.span)>> ELSE <<>>

-----------------------------------------------------------------------------
(* Table entries that lead on, under a root.                                *)
PgLinks(m, root) ==
    LET On(T) == {e \in T \X (0..(Fan - 1)) : m.tbl[e[1]][e[2]].valid /\ m.tbl[e[1]][e[2]].table}
        Base(L) == {m.tbl[e[1]][e[2]].base : e \in L}
        first == On({root})
        second == On(Base(first))
    IN  first \cup second \cup On(Base(second))
=============================================================================
