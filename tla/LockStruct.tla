----------------------------- MODULE LockStruct -----------------------------
(***************************************************************************)
(* `struct lock` of kernel/common/lock.h: the two counters of a ticket     *)
(* lock.  TicketLock and KernelEntry both extend this, the one with the    *)
(* instructions of lock.c and the other with the paths through the kernel  *)
(* that use it.                                                            *)
(*                                                                         *)
(* `owner` and `next` are u32 in the code; W stands for 2^32.              *)
(***************************************************************************)
EXTENDS Naturals

CONSTANTS N,   \* PLAT_CPU_NUM
          W    \* the number of values of a u32

\* Every waiting CPU holds a ticket and one value must stay free, otherwise a
\* full queue looks like an empty one.  4 CPUs and 2^32 in the code.
ASSUME WidthAssumption == N \in Nat \ {0} /\ W \in Nat /\ N < W

VARIABLES owner,   \* lock->owner
          next     \* lock->next

CPUs == 0..(N - 1)

\* u32 arithmetic: the increment wraps
Succ(n) == IF n = W - 1 THEN 0 ELSE n + 1

\* How many increments lead from owner to ticket t.
Distance(t) == IF owner <= t THEN t - owner ELSE t + W - owner
QueueLength == Distance(next)
=============================================================================
