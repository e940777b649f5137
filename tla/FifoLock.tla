------------------------------ MODULE FifoLock ------------------------------
(***************************************************************************)
(* What kernel/common/lock.c promises: a mutual-exclusion lock that is     *)
(* granted in the order in which the CPUs asked for it, and a try_lock     *)
(* that enters only when nobody holds the lock or waits for it.  It is     *)
(* the abstract specification that TicketLock implements.                  *)
(***************************************************************************)
EXTENDS Naturals, Sequences

CONSTANT CPUs

VARIABLES queue,   \* the CPUs that were promised the lock, in order of arrival
          inCS     \* whether the head of the queue has entered

vars == <<queue, inCS>>

Waiting(c) == \E i \in 1..Len(queue) : queue[i] = c

Init == queue = <<>> /\ inCS = FALSE

Request(c) == /\ ~Waiting(c)
              /\ queue' = Append(queue, c)
              /\ UNCHANGED inCS

TryEnter(c) == /\ queue = <<>>
               /\ queue' = <<c>>
               /\ inCS' = TRUE

Enter(c) == /\ queue # <<>> /\ Head(queue) = c
            /\ ~inCS
            /\ inCS' = TRUE
            /\ UNCHANGED queue

Release(c) == /\ inCS /\ Head(queue) = c
              /\ queue' = Tail(queue)
              /\ inCS' = FALSE

Next == \E c \in CPUs : Request(c) \/ TryEnter(c) \/ Enter(c) \/ Release(c)

Spec == Init /\ [][Next]_vars
=============================================================================
