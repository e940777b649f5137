----------------------------- MODULE PageTable ------------------------------
(***************************************************************************)
(* The page tables of an address space, mm/page_table.c: a tree of page    *)
(* table pages whose leaves are the entries of single pages.  Addresses    *)
(* count pages; the index at a level is a digit of the address in base     *)
(* Fanout (512 in the code, with four levels).  A page table page is named *)
(* by its level and the digits that lead to it, since get_next_ptp()       *)
(* allocates one exactly where an entry is invalid.                        *)
(***************************************************************************)
EXTENDS Integers

CONSTANTS Levels, Fanout

ASSUME PageTableAssumption == Levels \in Nat \ {0} /\ Fanout \in Nat \ {0}

\* L3_PER_ENTRY_PAGES to L0_PER_ENTRY_PAGES: the pages below an entry n levels above
\* the last one, and below the whole table
PerEntryPages[n \in 0..Levels] == IF n = 0 THEN 1 ELSE Fanout * PerEntryPages[n - 1]

Pages == 0..(PerEntryPages[Levels] - 1)

\* The page table page of a level on the way to a page; that of level 0 is the root.
Ptp(level, page) == <<level, page \div PerEntryPages[Levels - level]>>

\* A table: its page table pages, and the entries of the last level, which keep
\* their contents when they are made invalid.
EmptyTable == [ptps |-> {Ptp(0, 0)},
               ptes |-> [page \in Pages |-> [valid |-> FALSE]]]

\* get_next_ptp() with alloc, from the root to the last level
Walked(t, pages) ==
    [t EXCEPT !.ptps = @ \cup {Ptp(level, page) : level \in 0..(Levels - 1), page \in pages}]

\* Whether get_next_ptp() without alloc finds its way to a page.
Reaches(t, page) == \A level \in 0..(Levels - 1) : Ptp(level, page) \in t.ptps

\* query_in_pgtbl(): the set of entries found, at most one
Query(t, page) ==
    {e \in {t.ptes[page]} : Reaches(t, page) /\ e.valid}

\* map_range_in_pgtbl(): an entry that was valid is replaced
MapRange(t, pages, frame, perm) ==
    [Walked(t, pages) EXCEPT !.ptes = [page \in Pages |->
        IF page \in pages THEN [valid |-> TRUE, frame |-> frame[page], perm |-> perm]
        ELSE @[page]]]

\* Mutant: only the first page is made invalid.
UnmapRangeFirst(t, pages) ==
    [Walked(t, pages) EXCEPT !.ptes = [page \in Pages |->
        IF page \in pages /\ \A other \in pages : page <= other
        THEN [valid |-> FALSE] ELSE @[page]]]

\* unmap_range_in_pgtbl(): it allocates on its way, too
UnmapRange(t, pages) ==
    [Walked(t, pages) EXCEPT !.ptes = [page \in Pages |->
        IF page \in pages THEN [valid |-> FALSE] ELSE @[page]]]
=============================================================================
