------------------------------- MODULE Kmalloc -------------------------------
(***************************************************************************)
(* Kernel memory: kmalloc() and kfree() (mm/kmalloc.c) on top of the slab  *)
(* allocator (mm/slab.c) and the buddy allocator (Buddy).  Sizes and       *)
(* addresses count the smallest objects told apart, from the start of the  *)
(* pool: PageSize of them make a page, where the code has 4096 bytes.      *)
(***************************************************************************)
EXTENDS Buddy

CONSTANTS PageSize,             \* BUDDY_PAGE_SIZE
          SlabMin, SlabMax,     \* SLAB_MIN_ORDER, SLAB_MAX_ORDER
          SlabPages,            \* the order of SLAB_INIT_SIZE in pages
          Sizes                 \* the sizes that callers ask kmalloc() for

\* order_to_size(): 1UL << order.  size_to_order() counts the bits of an int, of which the
\* highest is bit 30.
OrderToSize[order \in 0..30] == IF order = 0 THEN 1 ELSE 2 * OrderToSize[order - 1]

\* A page is larger than the objects of a slab, and both are powers of two.
ASSUME SizesAssumption ==
    /\ SlabMin \in Nat /\ SlabMax \in 0..30 /\ SlabMin <= SlabMax
    /\ PageSize \in Nat /\ PageSize >= 2 * OrderToSize[SlabMax]
    /\ SlabPages \in Orders
    /\ Sizes \subseteq 1..OrderToSize[30]

Classes == SlabMin..SlabMax

VARIABLES slabs,     \* slabs[order]: the slabs of a class, the newest first
          slots,     \* free_list_head of the slab that starts on a page
          slab,      \* page->slab, as the first page of the slab
          live,      \* the objects that callers have not freed
          hung       \* BUG_ON: no memory for a slab

heap == <<slabs, slots, slab, live, hung>>
vars == <<buddy, heap>>

PageToVirt(page) == page * PageSize
VirtToPage(addr) == addr \div PageSize

\* tmp of size_to_order(), after each turn of its loop
Halved(size) ==
    LET tmp[turn \in 0..30] == IF turn = 0 THEN size ELSE tmp[turn - 1] \div 2 IN tmp

\* size_to_order(): the logarithm of size, and one more if it is not a power of 2
SizeToOrder(size) ==
    LET order == Min({turn \in 0..30 : Halved(size)[turn] <= 1})
    IN  IF size > OrderToSize[order] THEN order + 1 ELSE order

\* Mutant: a request is rounded down to whole pages.
SizeToPageOrderDown(size) == SizeToOrder(size \div PageSize)

\* size_to_page_order(): the same on the number of pages, rounded up
SizeToPageOrder(size) == SizeToOrder((size + PageSize - 1) \div PageSize)

\* The class of slab for a small object.
SlabClass(size) ==
    IF SizeToOrder(size) < SlabMin THEN SlabMin ELSE SizeToOrder(size)

-----------------------------------------------------------------------------
(* The slab allocator *)

\* init_slab_cache(): the objects of a new slab; the first one is its header.
NewSlots(head, class) ==
    [i \in 1..((ChunkSize[SlabPages] * PageSize) \div OrderToSize[class] - 1) |->
        PageToVirt(head) + i * OrderToSize[class]]

\* alloc_slab_memory(): every page of the slab points to its head
Mark(m, head) == [page \in Pages |-> IF page \in head..(head + ChunkSize[SlabPages] - 1)
                                     THEN head ELSE m[page]]

\* The newest slab of a class that has a free object, if there is one.
UsableSlab(class) ==
    LET withFree == {i \in 1..Len(slabs[class]) : slots[slabs[class][i]] # <<>>}
    IN  {slabs[class][i] : i \in {j \in withFree : \A k \in withFree : j <= k}}

\* An object is handed out.
Handed(addr, size) == live' = live \cup {[addr |-> addr, size |-> size]}

\* alloc_in_slab() from a slab that exists
AllocFromSlab(size) ==
    \E head \in UsableSlab(SlabClass(size)) :
        /\ slots' = [slots EXCEPT ![head] = Tail(@)]
        /\ Handed(Head(slots[head]), size)
        /\ UNCHANGED <<buddy, slabs, slab, hung>>

\* init_slab_cache() with a chunk of the buddy allocator: a new slab in front of
\* those of its class, without its first n objects.  BUG_ON(1) if there is no memory.
NewSlab(class, n) ==
    /\ Get(SlabPages)
    /\ \/ /\ result' = NULL
          /\ hung' = TRUE
          /\ UNCHANGED <<slabs, slots, slab>>
       \/ /\ result' # NULL
          /\ slabs' = [slabs EXCEPT ![class] = <<result'>> \o @]
          /\ slab' = Mark(slab, result')
          /\ LET new == NewSlots(result', class)
             IN  slots' = [slots EXCEPT ![result'] = SubSeq(new, n + 1, Len(new))]
          /\ UNCHANGED hung

\* alloc_in_slab() when the slabs of the class are used up
AllocFromNewSlab(size) ==
    /\ UsableSlab(SlabClass(size)) = {}
    /\ NewSlab(SlabClass(size), 1)
    /\ IF hung' THEN UNCHANGED live
       ELSE Handed(Head(NewSlots(result', SlabClass(size))), size)

\* Mutant: the object goes to the newest slab of the class.
FreeInSlabNewest(addr) ==
    /\ slots' = [slots EXCEPT ![Head(slabs[SlabMin])] = <<addr>> \o @]
    /\ UNCHANGED <<buddy, slabs, slab, hung>>

\* free_in_slab()
FreeInSlab(addr) ==
    /\ slots' = [slots EXCEPT ![slab[VirtToPage(addr)]] = <<addr>> \o @]
    /\ UNCHANGED <<buddy, slabs, slab, hung>>

-----------------------------------------------------------------------------
(* kmalloc.c *)

\* The whole pages of kmalloc() and get_pages().  Out of memory they return
\* page_to_virt(NULL), which is not NULL; what a caller does with that address is
\* not modelled.
AllocPages(order, size) ==
    /\ Get(order)
    /\ IF result' = NULL THEN UNCHANGED live ELSE Handed(PageToVirt(result'), size)
    /\ UNCHANGED <<slabs, slots, slab, hung>>

\* kmalloc(); get_pages(order) is kmalloc() of that many pages
Kmalloc(size) ==
    /\ ~hung
    /\ IF size <= OrderToSize[SlabMax] THEN AllocFromSlab(size) \/ AllocFromNewSlab(size)
       ELSE AllocPages(IF size <= PageSize THEN 0 ELSE SizeToPageOrder(size), size)

\* kfree() and, for whole pages, free_pages()
Kfree(obj) ==
    /\ ~hung
    /\ live' = live \ {obj}
    /\ IF slab[VirtToPage(obj.addr)] # NULL
       THEN FreeInSlab(obj.addr)
       ELSE Free(VirtToPage(obj.addr)) /\ UNCHANGED <<slabs, slots, slab, hung>>

\* init_slab_cache() at boot, when init_slab() comes to this class
InitSlab(class) ==
    /\ ~hung
    /\ slabs[class] = <<>> /\ \A c \in SlabMin..class - 1 : slabs[c] # <<>>
    /\ NewSlab(class, 0)
    /\ UNCHANGED live

\* mm_init() after init_buddy()
KmallocInit == /\ Init
               /\ slabs = [class \in Classes |-> <<>>]
               /\ slots = [page \in Pages |-> <<>>]
               /\ slab = [page \in Pages |-> NULL]
               /\ live = {}
               /\ hung = FALSE

Booted == \A class \in Classes : slabs[class] # <<>>

KmallocNext == \/ \E class \in Classes : InitSlab(class)
               \/ Booted /\ \E size \in Sizes : Kmalloc(size)
               \/ \E obj \in live : Kfree(obj)

KmallocSpec == KmallocInit /\ [][KmallocNext]_vars

-----------------------------------------------------------------------------
Addrs == 0..(NPages * PageSize - 1)

Slabs == {page \in Pages : \E class \in Classes : page \in ToSet(slabs[class])}

\* The memory of an object, of a free object of a slab, and of a header.
Bytes(obj) == obj.addr..(obj.addr + obj.size - 1)
FreeBytes(class) ==
    UNION {a..(a + OrderToSize[class] - 1) :
               a \in UNION {ToSet(slots[h]) : h \in ToSet(slabs[class])}}
HeaderBytes(class) ==
    UNION {PageToVirt(h)..(PageToVirt(h) + OrderToSize[class] - 1) : h \in ToSet(slabs[class])}

\* The objects in use never share memory with one another, with the header of a
\* slab, with a free object, or with a page that belongs to nobody.
ObjectsDisjoint ==
    /\ \A o, p \in live : o # p => Bytes(o) \cap Bytes(p) = {}
    /\ \A o \in live :
          /\ \A class \in Classes :
                Bytes(o) \cap (FreeBytes(class) \cup HeaderBytes(class)) = {}
          /\ \A b \in Bytes(o) :
                b \in Addrs /\ \E page \in held : VirtToPage(b) \in Chunk(page)

\* Every object of a slab is in use or on the free list of that slab, once: kfree()
\* gives back what kmalloc() took, to the allocator and the slab it came from.  And
\* no page leaks: what the buddy allocator handed out is a slab or an object of
\* whole pages.
MemoryConserved ==
    /\ \A class \in Classes : \A head \in ToSet(slabs[class]) :
          LET objects == ToSet(NewSlots(head, class))
              used    == {o.addr : o \in live} \cap objects
          IN  /\ IsInjective(slots[head])
              /\ used \cap ToSet(slots[head]) = {}
              /\ used \cup ToSet(slots[head]) = objects
    /\ held = Slabs \cup {VirtToPage(o.addr) : o \in {p \in live : slab[VirtToPage(p.addr)] = NULL}}
=============================================================================
