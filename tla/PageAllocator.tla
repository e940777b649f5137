---------------------------- MODULE PageAllocator ----------------------------
(***************************************************************************)
(* What a physical page allocator promises: blocks of the sizes it knows,  *)
(* aligned to their size, that never overlap; and NULL only if no such     *)
(* block is free.  It is the abstract specification that Buddy implements. *)
(***************************************************************************)
EXTENDS Integers

CONSTANTS Frames,    \* the frame numbers of the pool
          MaxOrder,  \* blocks have orders below MaxOrder
          Size,      \* the frames in a block of each order
          NULL

VARIABLES owned,     \* the blocks that were handed out
          result     \* what the last call returned

vars == <<owned, result>>

Block(b) == b.head..(b.head + Size[b.order] - 1)

Blocks(order) == {[head |-> h, order |-> order] : h \in {f \in Frames : f % Size[order] = 0}}

Used == UNION {Block(b) : b \in owned}

Available(order) == {b \in Blocks(order) : Block(b) \subseteq Frames \ Used}

Init == owned = {} /\ result = NULL

Get(order) ==
    \/ \E b \in Available(order) : owned' = owned \cup {b} /\ result' = b.head
    \/ Available(order) = {} /\ result' = NULL /\ UNCHANGED owned

Free(b) == b \in owned /\ owned' = owned \ {b} /\ UNCHANGED result

Next == \/ \E order \in 0..(MaxOrder - 1) : Get(order)
        \/ \E b \in owned : Free(b)

Spec == Init /\ [][Next]_vars
=============================================================================
