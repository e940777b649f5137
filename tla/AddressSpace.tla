---------------------------- MODULE AddressSpace ----------------------------
(***************************************************************************)
(* What an address space promises to a program: a page shows what was     *)
(* mapped there until that mapping is removed as a whole.  When physical   *)
(* memory is found for a page is not visible.                              *)
(***************************************************************************)
EXTENDS Integers

CONSTANTS Spaces, Pages,   \* address spaces, and the numbers of their pages
          Sources, Perms   \* what can be mapped, and with which permissions

\* view[s]: which pages show something, and what; a page of a source, with permissions
VARIABLE view

Facts == [page : Pages, of : Sources, index : Pages, perm : Perms]

SameMapping(x, y) ==
    x.of = y.of /\ x.perm = y.perm /\ x.page - x.index = y.page - y.index

Together(pages) ==
    \A m, n \in pages, page \in Pages : m < page /\ page < n => page \in pages

\* A run of pages of a source appears where nothing was mapped.
Map(before, after) ==
    LET new == after \ before IN
    /\ before \subseteq after
    /\ new \subseteq Facts
    /\ \A x, y \in new : SameMapping(x, y)
    /\ \A x \in new, y \in before : x.page # y.page
    /\ Together({x.page : x \in new})

\* All that a mapping showed disappears, and nothing else.
Unmap(before, after) ==
    \E x \in before : after = {y \in before : ~SameMapping(x, y)}

Init == view = [s \in Spaces |-> {}]

Next == \E s \in Spaces :
            /\ \A other \in Spaces \ {s} : view'[other] = view[other]
            /\ Map(view[s], view'[s]) \/ Unmap(view[s], view'[s])

Spec == Init /\ [][Next]_view
=============================================================================
