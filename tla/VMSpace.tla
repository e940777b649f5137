------------------------------ MODULE VMSpace -------------------------------
(***************************************************************************)
(* Address spaces: mm/vmregion.c, the system calls of mm/vm_syscall.c that *)
(* change them, and the page fault handler of exception/pgfault.c, on top  *)
(* of PageTable.  An address space is a list of regions, each a window on  *)
(* a memory object, and a page table: memory objects of type PMO_DATA are  *)
(* mapped at once, those of type PMO_ANONYM page by page when they are     *)
(* touched.  Sizes and addresses count pages.  A kernel entry is one step. *)
(***************************************************************************)
EXTENDS PageTable, Sequences, SequencesExt, FiniteSets

CONSTANTS Spaces,
          Pmos,         \* the memory objects that programs create
          PmoType,      \* their types,
          PmoSize,      \*   and sizes, which do not change
          HeapPmo,      \* HeapPmo[s]: the memory object of the heap of a space
          HeapStart,    \* HEAP_START
          Starts,       \* the addresses that programs map at
          Perms         \* permissions; VMR_READ | VMR_WRITE is one of them

HeapPmos == {HeapPmo[s] : s \in Spaces}

ASSUME VMSpaceAssumption ==
    /\ HeapStart \in Pages /\ Starts \subseteq Pages
    /\ \A o \in Pmos : PmoType[o] \in {"DATA", "ANONYM", "DEVICE"} /\ PmoSize[o] \in Nat \ {0}
    /\ HeapPmos \cap Pmos = {} /\ "rw" \in Perms

VARIABLES vmrs,      \* vmrs[s]: vmspace->vmr_list, the newest region first
          pgtbl,     \* vmspace->pgtbl
          heap       \* heap[s]: the size of heap_vmr, or -1 before it is made

vars == <<vmrs, pgtbl, heap>>

Type(o) == IF o \in HeapPmos THEN "ANONYM" ELSE PmoType[o]

Covered(vmr) == {page \in Pages : vmr.start <= page /\ page < vmr.start + vmr.size}

Regions(s) == {vmrs[s][i] : i \in DOMAIN vmrs[s]}

\* The memory behind a page of a region.  That of a PMO_DATA object belongs to the
\* object; of a PMO_ANONYM object every region has its own, since the fault handler
\* does not record in the object what it allocates.
Frame(vmr, page) == [pmo |-> vmr.pmo, index |-> page - vmr.start]
-----------------------------------------------------------------------------
(* vmregion.c *)

\* Mutant: the end of the new region is not looked at.
IntersectsStart(s, first, size) ==
    \E vmr \in Regions(s) : vmr.start <= first /\ first < vmr.start + vmr.size

\* check_vmr_intersect(): whether an end of the new region lies in another one
Intersects(s, first, size) ==
    \E vmr \in Regions(s), end \in {first, first + size - 1} :
        vmr.start <= end /\ end < vmr.start + vmr.size

\* find_vmr_for_va(): the position of the first region on the list that covers a page
FindVmr(s, page) ==
    {i \in DOMAIN vmrs[s] :
        /\ page \in Covered(vmrs[s][i])
        /\ \A j \in 1..(i - 1) : page \notin Covered(vmrs[s][j])}

\* add_vmr_to_vmspace() and fill_page_table() of vmspace_map_range()
MapRegion(s, vmr) ==
    /\ ~Intersects(s, vmr.start, vmr.size)
    /\ vmrs' = [vmrs EXCEPT ![s] = <<vmr>> \o @]
    /\ pgtbl' = IF Type(vmr.pmo) = "DATA"
                THEN [pgtbl EXCEPT ![s] =
                        MapRange(@, Covered(vmr),
                                 [page \in Covered(vmr) |-> Frame(vmr, page)], vmr.perm)]
                ELSE pgtbl
-----------------------------------------------------------------------------
(* System calls and page faults *)

\* sys_map_pmo(); the capability is copied in Capability
MapPmo(s, first, o, perm) ==
    /\ MapRegion(s, [start |-> first, size |-> PmoSize[o], pmo |-> o, perm |-> perm])
    /\ UNCHANGED heap

\* sys_unmap_pmo() and vmspace_unmap_range(): the region that covers the page
\* goes, and so do as many entries as the memory object has pages
UnmapPmo(s, page, o) ==
    \E i \in FindVmr(s, page) :
        /\ page = vmrs[s][i].start \/ PmoSize[o] = vmrs[s][i].size
        /\ vmrs' = [vmrs EXCEPT ![s] = RemoveAt(@, i)]
        /\ pgtbl' = [pgtbl EXCEPT ![s] =
                        UnmapRange(@, {p \in Pages : page <= p /\ p < page + PmoSize[o]})]
        /\ UNCHANGED heap

\* sys_handle_brk(0) and init_heap_vmr(): an empty region, whose end is one page
\* before its start when it is compared with the others
InitHeap(s) ==
    /\ ~Intersects(s, HeapStart, 0)
    /\ vmrs' = [vmrs EXCEPT ![s] =
                  <<[start |-> HeapStart, size |-> 0, pmo |-> HeapPmo[s], perm |-> "rw"]>> \o @]
    /\ heap' = [heap EXCEPT ![s] = 0]
    /\ UNCHANGED pgtbl

\* sys_handle_brk(): the heap region grows in place and is not compared with the
\* others; a smaller size is refused.  Before brk(0) heap_vmr is not initialised.
GrowHeap(s, size) ==
    /\ heap[s] >= 0 /\ size >= heap[s]
    /\ heap' = [heap EXCEPT ![s] = size]
    /\ vmrs' = [vmrs EXCEPT ![s] = [i \in DOMAIN @ |->
                  IF @[i].pmo = HeapPmo[s] THEN [@[i] EXCEPT !.size = size] ELSE @[i]]]
    /\ UNCHANGED pgtbl

\* Mutant: the page is mapped at the start of its region.
PageFaultAtStart(s, page) ==
    /\ Query(pgtbl[s], page) = {}
    /\ \E i \in FindVmr(s, page) :
          LET vmr == vmrs[s][i] IN
          /\ Type(vmr.pmo) = "ANONYM"
          /\ pgtbl' = [pgtbl EXCEPT ![s] =
                MapRange(@, {vmr.start}, [p \in {vmr.start} |-> Frame(vmr, page)], vmr.perm)]
    /\ UNCHANGED <<vmrs, heap>>

\* handle_trans_fault(): a page without an entry is touched, and its region is
\* backed on demand.  Any other fault ends the thread (sys_exit() in Capability).
PageFault(s, page) ==
    /\ Query(pgtbl[s], page) = {}
    /\ \E i \in FindVmr(s, page) :
          LET vmr == vmrs[s][i] IN
          /\ Type(vmr.pmo) = "ANONYM"
          /\ pgtbl' = [pgtbl EXCEPT ![s] =
                MapRange(@, {page}, [p \in {page} |-> Frame(vmr, p)], vmr.perm)]
    /\ UNCHANGED <<vmrs, heap>>
-----------------------------------------------------------------------------
\* vmspace_init()
Init ==
    /\ vmrs = [s \in Spaces |-> <<>>]
    /\ pgtbl = [s \in Spaces |-> EmptyTable]
    /\ heap = [s \in Spaces |-> -1]

\* What programs keep to.  The kernel does not see these cases; see the README.
\* A region does not enclose another one,
Encloses(s, first, size) ==
    \E vmr \in Regions(s) : first <= vmr.start /\ vmr.start + vmr.size <= first + size

\*   the heap does not grow over other regions,
HeapFits(s, size) ==
    \A vmr \in Regions(s) : vmr.pmo # HeapPmo[s] =>
        \/ vmr.start + vmr.size <= HeapStart
        \/ HeapStart + size <= vmr.start

\*   it is made once, and what is unmapped is what was mapped.
Mapped(s, page, o) == \E vmr \in Regions(s) : vmr.start = page /\ vmr.pmo = o

MapAny == \E s \in Spaces, first \in Starts, o \in Pmos, perm \in Perms :
              /\ first + PmoSize[o] - 1 \in Pages
              /\ ~Encloses(s, first, PmoSize[o])
              /\ MapPmo(s, first, o, perm)

UnmapMapped == \E s \in Spaces, page \in Starts, o \in Pmos :
                   Mapped(s, page, o) /\ UnmapPmo(s, page, o)

UnmapAny == \E s \in Spaces, page \in Pages, o \in Pmos : UnmapPmo(s, page, o)

HeapAndFaults ==
    \E s \in Spaces :
        \/ heap[s] = -1 /\ InitHeap(s)
        \/ \E size \in 1..(PerEntryPages[Levels] - HeapStart) : HeapFits(s, size) /\ GrowHeap(s, size)
        \/ \E page \in Pages : PageFault(s, page)

Next == MapAny \/ UnmapMapped \/ HeapAndFaults

Spec == Init /\ [][Next]_vars

\* Programs may also unmap inside a region, or with another memory object.
SpecAnyUnmap == Init /\ [][MapAny \/ UnmapAny \/ HeapAndFaults]_vars
-----------------------------------------------------------------------------
(* Properties *)

\* No page is covered by two regions, which would leave it to the order of the
\* list which of them a fault is resolved from.  heap_vmr is on the list of its space
\* with the size that sys_handle_brk() compares addresses with.
RegionsDisjoint ==
    \A s \in Spaces :
        /\ \A i, j \in DOMAIN vmrs[s] :
              i # j => Covered(vmrs[s][i]) \cap Covered(vmrs[s][j]) = {}
        /\ {vmr.size : vmr \in {r \in Regions(s) : r.pmo = HeapPmo[s]}} = {heap[s]} \ {-1}

\* The page table and the list of regions agree ("we only support unmap a whole
\* vmregion now", vmregion.c:198): an entry is valid only inside a region, with
\* its page and permissions, and all pages of a PMO_DATA region have one.
TableMatchesRegions ==
    \A s \in Spaces, page \in Pages :
        LET around == {vmr \in Regions(s) : page \in Covered(vmr)}
            entries == Query(pgtbl[s], page)
        IN  /\ \A e \in entries : \E vmr \in around :
                  e.frame = Frame(vmr, page) /\ e.perm = vmr.perm
            /\ \A vmr \in around : Type(vmr.pmo) = "DATA" => entries # {}

\* What a program sees in its pages: the entries, and for pages that have none
\* what a fault would put there.
Seen(s) ==
    LET Fact(page, frame, perm) ==
            [page |-> page, of |-> frame.pmo, index |-> frame.index, perm |-> perm]
        onDemand == {vmr \in Regions(s) : Type(vmr.pmo) = "ANONYM"}
        entries == UNION {{Fact(page, e.frame, e.perm) : e \in Query(pgtbl[s], page)} :
                             page \in Pages}
        faults == UNION {{Fact(page, Frame(vmr, page), vmr.perm) :
                             page \in {p \in Covered(vmr) : Query(pgtbl[s], p) = {}}} :
                            vmr \in onDemand}
    IN  entries \cup faults

View == INSTANCE AddressSpace WITH
            view <- [s \in Spaces |-> Seen(s)], Sources <- Pmos \cup HeapPmos

\* Mapping, unmapping and growing show as such to the program, and finding
\* memory for a page does not show.
ImplementsAddressSpace == View!Spec
=============================================================================
