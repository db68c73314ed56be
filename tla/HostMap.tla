------------------------------ MODULE HostMap -------------------------------
(***************************************************************************)
(* The hypervisor's own address space on aarch64 (src/arch/aarch64/         *)
(* page_table.c, lpae.c, mm.c; src/core/ioremap.c): static tables for the   *)
(* image, the fixed UART and the direct mapping, and below them 4 KB maps   *)
(* whose tables come from the page allocator and go back to it.  A virtual  *)
(* page is the number of its four indices in base Fan; a physical page is   *)
(* its number: the allocator's NPages from Fan on, then the static tables,  *)
(* the image and the devices wherever the constants say.                    *)
(* Everything runs on the boot CPU, so a call is an operator that turns one *)
(* state of memory into the next.                                           *)
(***************************************************************************)
EXTENDS Integers, SequencesExt, FiniteSetsExt

CONSTANTS
    Fan,            \* entries of a table
    NPages,         \* pages of the page allocator
    ImageAt, ImageSize,     \* MEM_VIRT_START = MEM_PHYS_START, pages of the image
    UartAt,         \* the page of the fixed UART map, virtual and physical
    DirectAt,       \* PAGE_VIRT_OFFSET
    KmapAt, KmapSize,       \* the window of ioremap, and its pages
    Cleared         \* bits of the window that create_bitmap clears

(* Pages under an entry of a level; level 0 is the root.                    *)
LevelSpan(level) == <<Fan * Fan * Fan, Fan * Fan, Fan, 1>>[level + 1]
VaPages == 0..(Fan * LevelSpan(0) - 1)

ASSUME HostMapAssumption ==
    /\ {Fan, NPages, ImageSize, KmapSize, Cleared} \subseteq Nat \ {0}
    /\ {ImageAt, UartAt, DirectAt, KmapAt} \subseteq VaPages

(* pte_offset                                                               *)
Index(va, level) == (va \div LevelSpan(level)) % Fan

(* The static tables: boot_pgtable, boot_first, boot_second, boot_third[],  *)
(* boot_fix, pages_direct_mapping_L1 and _L2.                               *)
Static(i) == Fan + NPages + 1 + i
BootPgtable == Static(0)
BootFirst   == Static(1)
BootSecond  == Static(2)
BootFix     == Static(3)
DirectL1    == Static(4)
DirectL2    == Static(5)
BootThird(i) == Static(6 + i)

Zero == [valid |-> FALSE, table |-> FALSE, base |-> 0]

(* make_stage1_entry: valid, and a table or a page until told otherwise     *)
MakeStage1Entry(base) == [valid |-> TRUE, table |-> TRUE, base |-> base]
Block(base) == [MakeStage1Entry(base) EXCEPT !.table = FALSE]

ZeroTable == [x \in 0..(Fan - 1) |-> Zero]

(* m: the tables, the pages taken, and whether hyper_fatal stopped the      *)
(* machine.                                                                 *)
NoMemory == [tbl |-> [p \in Fan..BootThird(ImageSize) |-> ZeroTable], used |-> {},
             fatal |-> FALSE]

Put(m, t, x, entry) == [m EXCEPT !.tbl[t][x] = entry]

(* build_hyper_table, build_s2_table                                        *)
BuildTable(m, t, next, va, level) == Put(m, t, Index(va, level), MakeStage1Entry(next))

(* A loop that writes the entries of a table, from index `from` on.         *)
FillRow(m, t, from, entries) ==
    [m EXCEPT !.tbl[t] = [x \in 0..(Fan - 1) |-> IF x - from \in DOMAIN entries THEN entries[x - from] ELSE @[x]]]

(* __build_hyp_two_level_page_table: blocks of one level-2 entry each, from *)
(* the block that holds pa.                                                 *)
BuildTwoLevel(m, va, pa, blocks, l0, l1, l2) ==
    LET linked == BuildTable(BuildTable(m, l0, l1, va, 0), l1, l2, va, 1)
    IN  FillRow(linked, l2, Index(va, 2), [i \in 0..(blocks - 1) |-> Block((pa \div Fan + i) * Fan)])

(* __build_hyp_three_level_page_table: the third level is an array of       *)
(* tables, filled as one.                                                   *)
BuildThreeLevel(m, va, pa, pages, l0, l1, l2) ==
    LET linked == BuildTable(BuildTable(m, l0, l1, va, 0), l1, l2, va, 1)
        first  == (va \div Fan) * Fan
        thirds == (va + pages - 1 - first) \div Fan + 1
        second == FillRow(linked, l2, Index(va, 2), [i \in 0..(thirds - 1) |-> MakeStage1Entry(BootThird(i))])
        Nth(t, x) == (t - BootThird(0)) * Fan + x - Index(va, 3)
    IN  [second EXCEPT !.tbl = [t \in DOMAIN @ |-> [x \in 0..(Fan - 1) |->
            IF Nth(t, x) \in 0..(pages - 1) THEN MakeStage1Entry(pa + Nth(t, x)) ELSE @[t][x]]]]

(* __fix_map of slot 0                                                      *)
FixMap(m, va, pa, l0, l1, fix) ==
    Put(BuildTable(BuildTable(m, l0, l1, va, 0), l1, fix, va, 1), fix, Index(va, 2), Block((pa \div Fan) * Fan))

(* __walk_page_table, as the hardware does it: the page, or <<>>            *)
WalkPageTable(m, va) ==
    LET down[level \in 0..3] ==
            LET above == IF level = 0 THEN MakeStage1Entry(BootPgtable) ELSE down[level - 1]
            IN  IF above.valid /\ above.table THEN m.tbl[above.base][Index(va, level)] ELSE above
        e == down[3]
    IN  CASE ~e.valid -> <<>>
          [] e.valid /\ e.table -> <<e.base>>
          [] OTHER -> <<e.base + (va % Fan)>>

-----------------------------------------------------------------------------
Pool == Fan..(Fan + NPages - 1)

(* Faulty variant, for mutation runs: the allocator's first page is not     *)
(* added to the index.                                                      *)
AllocPagesCntIndex(used, cnt) ==
    LET fit == {p \in Pool : /\ (p - Fan) % 2 = 0
                             /\ p..(p + cnt - 1) \subseteq Pool \ used}
    IN  IF fit = {} THEN NPages ELSE Min(fit) - Fan

(* alloc_pages_cnt: the first run of free pages that begins at an even one, *)
(* or TOTAL_PAGES, which the callers' tests for a negative number let       *)
(* through (PageAlloc has the search itself).                               *)
AllocPagesCnt(used, cnt) ==
    LET fit == {p \in Pool : /\ (p - Fan) % 2 = 0
                             /\ p..(p + cnt - 1) \subseteq Pool \ used}
    IN  IF fit = {} THEN Fan + NPages ELSE Min(fit)
AllocOnePage(used) == AllocPagesCnt(used, 1)

Stop(m) == [m EXCEPT !.fatal = TRUE]

(* A call of __ptw_map_4k_page or __ptw_unmap_4k_page under way.  path: the *)
(* tables from the root to where the recursion is; keep: boot never unmaps  *)
(* the page.  host_map_pages and host_unmap_pages make a sequence of them.  *)
Call(op, va, pa, keep) == [op |-> op, va |-> va, pa |-> pa, keep |-> keep, path |-> <<BootPgtable>>]
MapPages(va, pa, pages, keep) == [i \in 1..pages |-> Call("map", va + i - 1, pa + i - 1, keep)]
UnmapPages(va, pages) == [i \in 1..pages |-> Call("unmap", va + i - 1, 0, FALSE)]

Level(t) == Len(t.path) - 1
Entry(m, t) == m.tbl[Last(t.path)][Index(t.va, Level(t))]
Fill(m, t, entry) == Put(m, Last(t.path), Index(t.va, Level(t)), entry)
Absent(e) == ~e.valid \/ e.base = 0
Down(t, next) == <<[t EXCEPT !.path = Append(@, next)]>>

(* One level of __ptw_map_4k_page, and what is left of the call: a missing  *)
(* table is allocated, cleared and entered; an entry of the last level that *)
(* is taken stops the machine.                                              *)
MapLevel(m, t) ==
    LET e   == Entry(m, t)
        new == AllocOnePage(m.used)
    IN  CASE Level(t) = 3 /\ e # Zero -> [mem |-> Stop(m), rest |-> <<>>]
          [] Level(t) = 3 /\ e = Zero -> [mem |-> Fill(m, t, MakeStage1Entry(t.pa)), rest |-> <<>>]
          [] Level(t) < 3 /\ Absent(e) ->
                [mem |-> [Fill(m, t, MakeStage1Entry(new)) EXCEPT !.used = @ \cup {new}, !.tbl[new] = ZeroTable],
                 rest |-> Down(t, new)]
          [] OTHER -> [mem |-> m, rest |-> Down(t, e.base)]

(* One level of __ptw_unmap_4k_page on the way down: a hole stops the       *)
(* machine.                                                                 *)
UnmapLevel(m, t) ==
    LET e == Entry(m, t)
    IN  CASE Absent(e) -> [mem |-> Stop(m), rest |-> <<>>]
          [] ~Absent(e) /\ Level(t) = 3 -> [mem |-> Fill(m, t, Zero), rest |-> <<[t EXCEPT !.op = "free"]>>]
          [] OTHER -> [mem |-> m, rest |-> Down(t, e.base)]

(* Faulty variant, for mutation runs: the table is freed with its first     *)
(* entry.                                                                   *)
FreeLevelEager(m, t) ==
    LET up   == [t EXCEPT !.path = Front(@)]
        next == Last(t.path)
    IN  [mem  |-> IF Entry(m, t) = Zero /\ next \in Pool
                  THEN [Fill(m, up, Zero) EXCEPT !.used = @ \ {next}] ELSE m,
         rest |-> IF Level(t) = 1 THEN <<>> ELSE <<up>>]

(* One level on the way back: a table with no valid entry is freed and      *)
(* taken out of the one above.                                              *)
FreeLevel(m, t) ==
    LET up   == [t EXCEPT !.path = Front(@)]
        next == Last(t.path)
    IN  [mem  |-> IF \A x \in 0..(Fan - 1) : ~m.tbl[next][x].valid
                  THEN [Fill(m, up, Zero) EXCEPT !.used = @ \ {next}] ELSE m,
         rest |-> IF Level(t) = 1 THEN <<>> ELSE <<up>>]

(* create_bitmap: what is behind the bits it clears is as kmalloc left it.  *)
CreateBitmap(junk) == {b \in junk : b >= Cleared}

(* bitmap_alloc_range: the first run of free bits; with none,               *)
(* bitmap_find_next_zero_area answers with an index at or behind the end,   *)
(* and set_bits and the caller go on from there.                            *)
VmallocBit(window, pages) ==
    LET fit == {b \in 0..(KmapSize - pages) : \A i \in 0..(pages - 1) : b + i \notin window}
    IN  IF fit = {} THEN KmapSize ELSE Min(fit)
Vmalloc(window, pages) == window \cup {VmallocBit(window, pages) + i : i \in 0..(pages - 1)}

(* ioremap, ioremap_page: where the pages go; iounmap keeps the addresses.  *)
IoremapAt(window, pages) == KmapAt + VmallocBit(window, pages)

-----------------------------------------------------------------------------
(* The table entries above the last level: where tables are linked from.    *)
Links(m) ==
    LET Below(T) == {e \in T \X (0..(Fan - 1)) : m.tbl[e[1]][e[2]].valid /\ m.tbl[e[1]][e[2]].table}
        Base(L)  == {m.tbl[e[1]][e[2]].base : e \in L}
        first    == Below({BootPgtable})
        second   == Below(Base(first))
    IN  first \cup second \cup Below(Base(second))

(* Everything that boot means to keep mapped is mapped, to the page it      *)
(* meant; the tables of the allocator are linked once each, are just the    *)
(* pages taken for them and, but on the path of the call under way, are not *)
(* empty; no page taken for other things is given back with them.  kept:    *)
(* pairs of pages, others: pages taken for other things.                    *)
MapSound(m, kept, others, path) ==
    LET tables == {m.tbl[e[1]][e[2]].base : e \in Links(m)}
    IN  /\ \A k \in kept : WalkPageTable(m, k[1]) = <<k[2]>>
        /\ others \subseteq m.used
        /\ tables \cap Pool = m.used \ others
        /\ Cardinality(tables) = Cardinality(Links(m))
        /\ \A t \in (tables \cap Pool) \ Range(path) : \E x \in 0..(Fan - 1) : m.tbl[t][x].valid
=============================================================================
