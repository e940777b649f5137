-------------------------------- MODULE Buddy --------------------------------
(***************************************************************************)
(* The buddy allocator of physical pages, mm/buddy.c.  A page is the index *)
(* of its struct page in page_metadata; only the first page of a chunk has *)
(* metadata that is kept up to date.  Calls run under the big kernel lock. *)
(***************************************************************************)
EXTENDS Integers, SequencesExt

CONSTANTS NPages,   \* the pages of the pool
          Base,     \* the frame number of its first page; 24M / 4K in mm.c,
                    \* which is not a multiple of the largest chunk
          MaxOrder  \* BUDDY_MAX_ORDER

ASSUME PoolAssumption == NPages \in Nat \ {0} /\ Base \in Nat /\ MaxOrder \in Nat \ {0}

Pages  == 0..(NPages - 1)
Orders == 0..(MaxOrder - 1)
NULL   == -1

VARIABLES pool,   \* the metadata of the pages and the free lists
          held,   \* the pages that callers got and have not given back
          result  \* what buddy_get_pages() returned last

buddy == <<pool, held, result>>

-----------------------------------------------------------------------------
\* 1UL << order, the pages of a chunk
ChunkSize[order \in 0..MaxOrder] == IF order = 0 THEN 1 ELSE 2 * ChunkSize[order - 1]

\* get_buddy_chunk() for a chunk of the given order: chunk_addr ^ size, or NULL
\* if that is outside the pool.
BuddyChunk(page, order) ==
    LET size == ChunkSize[order]
        b    == IF ((Base + page) \div size) % 2 = 0 THEN page + size ELSE page - size
    IN  IF b \in Pages THEN b ELSE NULL

\* list_add() and list_del(), which finds the list from the node
ListAdd(lists, order, page) == [lists EXCEPT ![order] = <<page>> \o @]
ListDel(lists, page) == [order \in Orders |-> RemoveFirst(lists[order], page)]

\* One level of split_page(): a free chunk becomes two of the next lower order,
\* of which page is the lower one (a chunk is aligned to its size).
SplitOnce(p, page) ==
    LET order == p.order[page] - 1
        b     == BuddyChunk(page, order)
    IN  [allocated |-> [p.allocated EXCEPT ![b] = FALSE],
         order     |-> [p.order EXCEPT ![page] = order, ![b] = order],
         list      |-> ListAdd(ListAdd(ListDel(p.list, page), order, page), order, b),
         nr_free   |-> [p.nr_free EXCEPT ![order + 1] = @ - 1, ![order] = @ + 2]]

\* split_page(): page is split until it is of the given order, one order at a time
SplitPage(p, order, page) ==
    LET levels == p.order[page] - order
        split[n \in 0..levels] == IF n = 0 THEN p ELSE SplitOnce(split[n - 1], page)
    IN  split[levels]

\* Mutant: only the free list of the requested order is looked at.
FittingExact(p, order) == {k \in {order} : p.nr_free[k] >= 1}

\* The lowest order that has a free chunk of at least the requested one.
Fitting(p, order) ==
    {k \in order..(MaxOrder - 1) :
        p.nr_free[k] >= 1 /\ \A j \in order..k - 1 : p.nr_free[j] = 0}

\* The pool after page, a chunk of its free lists, is taken out of them.
Take(p, page) ==
    [p EXCEPT !.allocated[page] = TRUE,
              !.list = ListDel(@, page),
              !.nr_free[p.order[page]] = @ - 1]

\* buddy_get_pages()
Get(order) ==
    \/ /\ Fitting(pool, order) = {}
       /\ result' = NULL
       /\ UNCHANGED <<pool, held>>
    \/ \E k \in Fitting(pool, order) :
          LET page == Head(pool.list[k])
          IN  /\ pool' = Take(SplitPage(pool, order, page), page)
              /\ held' = held \cup {page}
              /\ result' = page

\* Mutant: the order of the buddy is not compared.
MergeableAnyOrder(p, page) ==
    LET b == BuddyChunk(page, p.order[page])
    IN  /\ p.order[page] < MaxOrder - 1 /\ ~p.allocated[page]
        /\ b # NULL
        /\ ~p.allocated[b]

\* merge_page() goes on as long as this holds.
Mergeable(p, page) ==
    LET b == BuddyChunk(page, p.order[page])
    IN  /\ p.order[page] < MaxOrder - 1 /\ ~p.allocated[page]
        /\ b # NULL
        /\ ~p.allocated[b] /\ p.order[b] = p.order[page]

\* Mutant: the buddy stays in its free list.
MergeOnceKeepsBuddy(p, page) ==
    LET order  == p.order[page]
        b      == BuddyChunk(page, order)
        merged == IF b < page THEN b ELSE page
    IN  [pool |-> [p EXCEPT !.order[merged] = order + 1,
                            !.list = ListAdd(ListDel(@, page), order + 1, merged),
                            !.nr_free[order] = @ - 2,
                            !.nr_free[order + 1] = @ + 1],
         page |-> merged]

\* One level of merge_page(): the pool, and the lower of the two pages.
MergeOnce(p, page) ==
    LET order  == p.order[page]
        b      == BuddyChunk(page, order)
        merged == IF b < page THEN b ELSE page
    IN  [pool |-> [p EXCEPT !.order[merged] = order + 1,
                            !.list = ListAdd(ListDel(ListDel(@, page), b), order + 1, merged),
                            !.nr_free[order] = @ - 2,
                            !.nr_free[order + 1] = @ + 1],
         page |-> merged]

\* Mutant: the merged chunk is not merged further.
MergePageOnce(p, page) ==
    IF Mergeable(p, page) THEN MergeOnce(p, page).pool ELSE p

\* merge_page(), at most one merge per order
MergePage(p, page) ==
    LET merge[n \in 0..MaxOrder] ==
            IF n = 0 THEN [pool |-> p, page |-> page]
            ELSE LET m == merge[n - 1]
                 IN  IF Mergeable(m.pool, m.page) THEN MergeOnce(m.pool, m.page) ELSE m
    IN  merge[MaxOrder].pool

\* The pool after buddy_free_pages().
FreePages(p, page) ==
    MergePage([p EXCEPT !.allocated[page] = FALSE,
                        !.list = ListAdd(@, p.order[page], page),
                        !.nr_free[p.order[page]] = @ + 1],
              page)

\* buddy_free_pages() of a page that its caller got and has not given back
Free(page) == /\ pool' = FreePages(pool, page)
              /\ held' = held \ {page}
              /\ UNCHANGED result

\* init_buddy(): every page, in order, is freed from an empty pool
InitPool ==
    LET empty == [allocated |-> [page \in Pages |-> TRUE],
                  order     |-> [page \in Pages |-> 0],
                  list      |-> [order \in Orders |-> <<>>],
                  nr_free   |-> [order \in Orders |-> 0]]
        freed[n \in 0..NPages] ==
            IF n = 0 THEN empty ELSE FreePages(freed[n - 1], n - 1)
    IN  freed[NPages]

Init == pool = InitPool /\ held = {} /\ result = NULL

Next == \/ \E order \in Orders : Get(order)
        \/ \E page \in held : Free(page)

Spec == Init /\ [][Next]_buddy

-----------------------------------------------------------------------------
Chunk(page) == page..(page + ChunkSize[pool.order[page]] - 1)

FreeHeads == UNION {ToSet(pool.list[order]) : order \in Orders}

\* The free chunks and the chunks that callers hold partition the pool: each
\* page is in one of them, none is lost and none is in two.
ChunksTilePool ==
    /\ FreeHeads \cap held = {}
    /\ UNION {Chunk(page) : page \in FreeHeads \cup held} = Pages
    /\ \A p, q \in FreeHeads \cup held : p # q => Chunk(p) \cap Chunk(q) = {}

\* The free lists agree with their counters and with the metadata of the pages:
\* list_del() on a page that is in no list would corrupt one.
ListsExact ==
    \A order \in Orders :
        /\ pool.nr_free[order] = Len(pool.list[order])
        /\ IsInjective(pool.list[order])
        /\ \A page \in ToSet(pool.list[order]) :
              pool.order[page] = order /\ ~pool.allocated[page]

\* Freed memory is merged as far as it goes: no free chunk has a free buddy.
FullyMerged ==
    \A page \in FreeHeads : ~Mergeable(pool, page)

Allocator == INSTANCE PageAllocator
    WITH Frames <- {Base + page : page \in Pages},
         Size   <- ChunkSize,
         owned  <- {[head |-> Base + page, order |-> pool.order[page]] : page \in held},
         result <- IF result = NULL THEN NULL ELSE Base + result

\* buddy.c hands out aligned blocks that do not overlap, and returns NULL only
\* if the pool has no free block of that size.
ImplementsAllocator == Allocator!Spec
=============================================================================
