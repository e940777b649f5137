----------------------------- MODULE TicketLock -----------------------------
(***************************************************************************)
(* The ticket lock of kernel/common/lock.c, instruction by instruction:    *)
(* lock(), try_lock() and unlock() on one `struct lock`,                   *)
(* called by CPUs that run concurrently.  Each action is one access to     *)
(* memory (ldaxr, stxr, ldar, a load or a store); the arithmetic between   *)
(* two accesses belongs to the action before or after it.                  *)
(***************************************************************************)
EXTENDS LockStruct, FiniteSets

VARIABLES reg,     \* the register of each CPU that holds lockval (or the
                   \* value unlock() loaded from owner)
          monitor, \* the CPUs whose exclusive monitor on next is still set
          pc       \* the next access of each CPU

vars == <<owner, next, reg, monitor, pc>>

\* lock_init()
Init == /\ owner = 0
        /\ next = 0
        /\ reg = [c \in CPUs |-> 0]
        /\ monitor = {}
        /\ pc = [c \in CPUs |-> "outside"]

Goto(c, from, to) == pc[c] = from /\ pc' = [pc EXCEPT ![c] = to]

-----------------------------------------------------------------------------
(* lock(): ldaxr/stxr until the increment of next goes through, then spin. *)

\* 1: ldaxr lockval, next        (ldaxr sets the monitor)
LockLoad(c) ==
    /\ Goto(c, "outside", "stxr") \/ Goto(c, "retry", "stxr")
    /\ reg' = [reg EXCEPT ![c] = next]
    /\ monitor' = monitor \cup {c}
    /\ UNCHANGED <<owner, next>>

\* Mutant: an ordinary store in place of the exclusive one.
LockStorePlain(c) ==
    /\ Goto(c, "stxr", "spin")
    /\ next' = Succ(reg[c])
    /\ monitor' = {}
    /\ UNCHANGED <<owner, reg>>

\* stxr newval, next: a store clears the monitors of every CPU
LockStore(c) ==
    /\ Goto(c, "stxr", "spin")
    /\ c \in monitor
    /\ next' = Succ(reg[c])
    /\ monitor' = {}
    /\ UNCHANGED <<owner, reg>>

\* The exclusive store failed: cbnz 1b.  It must fail once the monitor is
\* lost; the architecture lets it fail at any other time too.
LockStoreFails(c) ==
    /\ Goto(c, "stxr", "retry")
    /\ UNCHANGED <<owner, next, reg, monitor>>

\* 2: ldar owner; cmp; b.ne 2b
LockSpin(c) ==
    /\ Goto(c, "spin", "cs")
    /\ owner = reg[c]
    /\ UNCHANGED <<owner, next, reg, monitor>>

-----------------------------------------------------------------------------
(* try_lock(): one attempt, 0 if the lock was free and the store won.      *)

TryLoad(c) ==
    /\ Goto(c, "outside", "tryldar")
    /\ reg' = [reg EXCEPT ![c] = next]
    /\ monitor' = monitor \cup {c}
    /\ UNCHANGED <<owner, next>>

\* Mutant: try_lock() that does not look at owner.
TryCompareSkipped(c) ==
    /\ Goto(c, "tryldar", "trystxr")
    /\ UNCHANGED <<owner, next, reg, monitor>>

\* ldar ownerval; cmp lockval, ownerval; b.ne 1f
TryCompare(c) ==
    /\ \/ owner = reg[c] /\ Goto(c, "tryldar", "trystxr")
       \/ owner # reg[c] /\ Goto(c, "tryldar", "outside")
    /\ UNCHANGED <<owner, next, reg, monitor>>

TryStore(c) ==
    /\ Goto(c, "trystxr", "cs")
    /\ c \in monitor
    /\ next' = Succ(reg[c])
    /\ monitor' = {}
    /\ UNCHANGED <<owner, reg>>

\* Mutant: cbnz for cbz, a failed store is reported as success.
TryStoreFailsAsSuccess(c) ==
    /\ Goto(c, "trystxr", "cs")
    /\ UNCHANGED <<owner, next, reg, monitor>>

TryStoreFails(c) ==
    /\ Goto(c, "trystxr", "outside")
    /\ UNCHANGED <<owner, next, reg, monitor>>

-----------------------------------------------------------------------------
(* unlock(): lock->owner++ is a load and a store, not one atomic access.   *)

UnlockLoad(c) ==
    /\ Goto(c, "cs", "unlocking")
    /\ reg' = [reg EXCEPT ![c] = owner]
    /\ UNCHANGED <<owner, next, monitor>>

\* Mutant: unlock() that forgets to store.
UnlockStoreLost(c) ==
    /\ Goto(c, "unlocking", "outside")
    /\ UNCHANGED <<owner, next, reg, monitor>>

UnlockStore(c) ==
    /\ Goto(c, "unlocking", "outside")
    /\ owner' = Succ(reg[c])
    /\ UNCHANGED <<next, reg, monitor>>

-----------------------------------------------------------------------------
Lock(c)    == LockLoad(c) \/ LockStore(c) \/ LockStoreFails(c) \/ LockSpin(c)
TryLock(c) == TryLoad(c) \/ TryCompare(c) \/ TryStore(c) \/ TryStoreFails(c)
Unlock(c)  == UnlockLoad(c) \/ UnlockStore(c)

Next == \E c \in CPUs : Lock(c) \/ TryLock(c) \/ Unlock(c)

Spec == Init /\ [][Next]_vars

\* A CPU that spins keeps spinning and a critical section ends.  Nothing
\* obliges a CPU to call lock(), and nothing is assumed of the exclusive store.
Fairness == \A c \in CPUs : WF_vars(LockSpin(c)) /\ WF_vars(Unlock(c))

FairSpec == Spec /\ Fairness

-----------------------------------------------------------------------------
PCs == {"outside", "stxr", "retry", "spin", "cs", "unlocking",
        "tryldar", "trystxr"}

TypeOK == /\ owner \in 0..(W - 1)
          /\ next \in 0..(W - 1)
          /\ reg \in [CPUs -> 0..(W - 1)]
          /\ monitor \subseteq CPUs
          /\ pc \in [CPUs -> PCs]

Holding == {c \in CPUs : pc[c] \in {"cs", "unlocking"}}
Queued  == {c \in CPUs : pc[c] \in {"spin", "cs", "unlocking"}}

\* At most one CPU is between the end of lock() (or a successful try_lock())
\* and the end of unlock(), whatever the interleaving of their accesses.
MutualExclusion == \A c, d \in Holding : c = d

\* next - owner counts the CPUs that hold or await the lock: tickets are
\* neither lost nor handed out twice, so the lock can always be granted again.
TicketsExact == Cardinality(Queued) = QueueLength

\* Taking a ticket is enough: lock() returns once the CPUs with earlier
\* tickets have released (no lost wake-up between unlock() and the spin).
EveryTicketServed == \A c \in CPUs : pc[c] = "spin" ~> pc[c] = "cs"

-----------------------------------------------------------------------------
(* The inductive invariant behind MutualExclusion and TicketsExact.        *)

\* The tickets between owner and next are those of the queued CPUs, one each.
TicketsIssued  == \A c \in Queued : Distance(reg[c]) < QueueLength
TicketsUnique  == \A c, d \in Queued : reg[c] = reg[d] => c = d
TicketsHeld    == \A t \in 0..(W - 1) :
                     Distance(t) < QueueLength => \E c \in Queued : reg[c] = t

\* Whoever holds the lock has the ticket that owner names.
HolderIsOwner  == \A c \in Holding : reg[c] = owner

\* As long as its monitor is set, what a CPU loaded from next is still there,
\* and a try_lock() that saw a free lock still sees one.
MonitorGuards  == \A c \in monitor :
                     /\ pc[c] \in {"stxr", "tryldar", "trystxr"} => reg[c] = next
                     /\ pc[c] = "trystxr" => owner = next

\* The strengthening of MutualExclusion that every step preserves: tickets are
\* unique, dense between owner and next, and the holder has the oldest one.
IInv == /\ TypeOK
        /\ TicketsIssued
        /\ TicketsUnique
        /\ TicketsHeld
        /\ HolderIsOwner
        /\ MonitorGuards

-----------------------------------------------------------------------------
(* The lock as a queue: position i of the abstract queue belongs to the    *)
(* CPU whose ticket is owner + i - 1.                                      *)

AbsQueue == [i \in 1..QueueLength |->
               CHOOSE c \in Queued : Distance(reg[c]) = i - 1]

Abs == INSTANCE FifoLock WITH queue <- AbsQueue, inCS <- Holding # {}

\* lock.c implements the first-come first-served lock of FifoLock.
ImplementsFifo == Abs!Spec
=============================================================================
