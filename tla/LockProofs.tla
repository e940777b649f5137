----------------------------- MODULE LockProofs -----------------------------
(***************************************************************************)
(* The ticket lock and the kernel around it, proved for every number of    *)
(* CPUs below the width of the counters.  First lock.c, instruction by     *)
(* instruction: the inductive invariant IInv of TicketLock, and from it    *)
(* type correctness, mutual exclusion, the exactness of the tickets, and   *)
(* that lock.c implements FifoLock.  Then boot and the discipline of the   *)
(* big kernel lock: the inductive invariant EntryInv, and from it the      *)
(* safety properties of KernelEntry.                                       *)
(***************************************************************************)
EXTENDS TicketLock, KernelEntry, Integers, Functions, Sequences, FiniteSetTheorems, TLAPS

\* CPU 0 exists, and so do two tickets.
LEMMA Widths == /\ N \in Nat /\ W \in Nat /\ 0 < N /\ N < W
                /\ 0 \in CPUs /\ CPUs \subseteq Nat
                /\ IsFiniteSet(CPUs) /\ Cardinality(CPUs) = N
<1>1. N \in Nat /\ W \in Nat /\ 0 < N /\ N < W
  BY WidthAssumption
<1>2. IsFiniteSet(CPUs) /\ Cardinality(CPUs) = N
  BY <1>1, FS_Interval DEF CPUs
<1> QED
  BY <1>1, <1>2 DEF CPUs

\* The counters have at least one value.
LEMMA WidthPositive == W \in Nat /\ W > 0
BY Widths

\* How many tickets lie between owner and a ticket is below W, and two tickets
\* at the same distance are the same ticket.
LEMMA DistanceApart ==
  ASSUME owner \in 0..(W - 1), next \in 0..(W - 1)
  PROVE  /\ \A t \in 0..(W - 1) : Distance(t) \in 0..(W - 1)
         /\ \A t, u \in 0..(W - 1) : Distance(t) = Distance(u) => t = u
         /\ \A n \in 0..(W - 1) : \E t \in 0..(W - 1) : Distance(t) = n
         /\ QueueLength \in 0..(W - 1)
<1> USE WidthPositive DEF Distance
<1>1. \A t \in 0..(W - 1) : Distance(t) \in 0..(W - 1)
  OBVIOUS
<1>2. \A t, u \in 0..(W - 1) : Distance(t) = Distance(u) => t = u
  OBVIOUS
<1>3. ASSUME NEW n \in 0..(W - 1)
      PROVE  \E t \in 0..(W - 1) : Distance(t) = n
  <2>1. CASE owner + n < W
    <3>1. owner + n \in 0..(W - 1) /\ Distance(owner + n) = n
      BY <2>1
    <3> QED
      BY <3>1
  <2>2. CASE owner + n >= W
    <3>1. owner + n - W \in 0..(W - 1) /\ Distance(owner + n - W) = n
      BY <2>2
    <3> QED
      BY <3>1
  <2> QED
    BY <2>1, <2>2
<1> QED
  BY <1>1, <1>2, <1>3 DEF QueueLength

\* The distances of the tickets.
LEMMA DistanceType ==
  ASSUME TypeOK
  PROVE  /\ \A t \in 0..(W - 1) : Distance(t) \in 0..(W - 1)
         /\ \A t, u \in 0..(W - 1) : Distance(t) = Distance(u) => t = u
         /\ \A n \in 0..(W - 1) : \E t \in 0..(W - 1) : Distance(t) = n
BY DistanceApart DEF TypeOK

\* A CPU that is not queued leaves one of the W tickets unissued: this is where
\* the assumption that there are more tickets than CPUs is used.
LEMMA NeverFull ==
  ASSUME IInv, NEW c \in CPUs, c \notin Queued
  PROVE  QueueLength < W - 1
<1> USE WidthPositive
<1>1. TypeOK
  BY DEF IInv
<1>2. QueueLength \in 0..(W - 1)
  BY <1>1, DistanceType DEF QueueLength, TypeOK
<1>3. SUFFICES ASSUME QueueLength = W - 1
               PROVE  FALSE
  BY <1>2
<1> DEFINE f == [d \in CPUs |-> IF d \in Queued THEN reg[d] ELSE next]
<1>4. f \in Surjection(CPUs, 0..(W - 1))
  <2>1. f \in [CPUs -> 0..(W - 1)]
    BY <1>1 DEF TypeOK
  <2>2. ASSUME NEW t \in 0..(W - 1)
        PROVE  \E d \in CPUs : f[d] = t
    <3>1. CASE t = next
      BY <3>1
    <3>2. CASE t # next
      <4>1. Distance(t) < QueueLength
        BY <3>2, <1>1, <1>3, DistanceType DEF QueueLength, TypeOK
      <4>2. PICK d \in Queued : reg[d] = t
        BY <4>1 DEF IInv, TicketsHeld
      <4> QED
        BY <4>2 DEF Queued
    <3> QED
      BY <3>1, <3>2
  <2> QED
    BY <2>1, <2>2 DEF Surjection
<1>5. Cardinality(0..(W - 1)) <= Cardinality(CPUs)
  BY <1>4, Widths, FS_Surjection
<1>6. Cardinality(0..(W - 1)) = W
  BY FS_Interval
<1>7. Cardinality(CPUs) \in Nat
  BY Widths, FS_CardinalityType
<1> QED
  BY <1>5, <1>6, <1>7, Widths

\* Taking the ticket `next` (the store of lock(), or of a try_lock() that wins)
\* keeps the tickets exact: c joins the queue with the ticket it loaded.
LEMMA TakeTicket ==
  ASSUME IInv, NEW c \in CPUs, NEW to \in {"spin", "cs"},
         pc[c] \in {"stxr", "trystxr"}, c \in monitor,
         to = "cs" => pc[c] = "trystxr",
         pc' = [pc EXCEPT ![c] = to],
         next' = Succ(reg[c]), monitor' = {}, UNCHANGED <<owner, reg>>
  PROVE  IInv'
<1> USE WidthPositive
<1>1. TypeOK /\ reg[c] = next /\ (to = "cs" => owner = next)
  BY DEF IInv, MonitorGuards
<1>2. c \notin Queued
  BY DEF Queued
<1>3. QueueLength < W - 1
  BY <1>2, NeverFull
<1>4. TypeOK'
  BY <1>1 DEF TypeOK, Succ, PCs
<1>5. Queued' = Queued \cup {c}
  BY <1>1 DEF Queued, TypeOK
<1>6. Holding' = IF to = "cs" THEN Holding \cup {c} ELSE Holding
  BY <1>1 DEF Holding, TypeOK
<1>7. \A t \in 0..(W - 1) : Distance(t)' = Distance(t)
  BY DEF Distance
<1>8. QueueLength' = QueueLength + 1
  BY <1>1, <1>3 DEF QueueLength, Distance, TypeOK, Succ
<1>9. \A d \in Queued : reg[d] # next
  <2>1. QueueLength \in Nat
    BY <1>1, DistanceType DEF QueueLength, TypeOK
  <2> QED
    BY <2>1 DEF IInv, TicketsIssued, QueueLength
<1>10. TicketsIssued'
  <2> SUFFICES ASSUME NEW d \in Queued' PROVE (Distance(reg[d]) < QueueLength)'
    BY DEF TicketsIssued
  <2>1. QueueLength \in 0..(W - 1) /\ Distance(reg[d]) \in 0..(W - 1)
    BY <1>1, <1>5, DistanceType DEF QueueLength, TypeOK, Queued
  <2>2. CASE d = c
    BY <2>1, <2>2, <1>1, <1>7, <1>8 DEF QueueLength, TypeOK
  <2>3. CASE d # c
    <3>1. Distance(reg[d]) < QueueLength
      BY <2>3, <1>5 DEF IInv, TicketsIssued
    <3>2. (Distance(reg[d]))' = Distance(reg[d])
      BY DEF Distance
    <3> QED
      BY <2>1, <3>1, <3>2, <1>8
  <2> QED
    BY <2>2, <2>3
<1>11. TicketsUnique'
  BY <1>1, <1>5, <1>9 DEF IInv, TicketsUnique
<1>12. TicketsHeld'
  <2> SUFFICES ASSUME NEW t \in 0..(W - 1), Distance(t) < QueueLength + 1
               PROVE  \E d \in Queued \cup {c} : reg[d] = t
    BY <1>5, <1>7, <1>8 DEF TicketsHeld
  <2>1. CASE Distance(t) < QueueLength
    BY <2>1 DEF IInv, TicketsHeld
  <2>2. CASE ~(Distance(t) < QueueLength)
    <3>1. Distance(t) \in 0..(W - 1) /\ QueueLength \in 0..(W - 1)
      BY <1>1, DistanceType DEF QueueLength, TypeOK
    <3>2. Distance(t) = Distance(next)
      BY <2>2, <3>1 DEF QueueLength
    <3>3. t = next
      BY <3>2, <1>1, DistanceType DEF TypeOK
    <3> QED
      BY <3>3, <1>1
  <2> QED
    BY <2>1, <2>2
<1>13. HolderIsOwner'
  BY <1>1, <1>6 DEF IInv, HolderIsOwner
<1>14. MonitorGuards'
  BY DEF MonitorGuards
<1> QED
  BY <1>4, <1>10, <1>11, <1>12, <1>13, <1>14 DEF IInv

\* Serving the next ticket (the store of unlock()) keeps the tickets exact:
\* c, which holds the oldest ticket, leaves the queue.
LEMMA ServeNext ==
  ASSUME IInv, NEW c \in CPUs, UnlockStore(c)
  PROVE  IInv'
<1> USE WidthPositive
<1>1. /\ TypeOK
      /\ c \in Queued /\ c \in Holding
      /\ reg[c] = owner
      /\ owner' = Succ(owner)
      /\ pc' = [pc EXCEPT ![c] = "outside"]
      /\ UNCHANGED <<next, reg, monitor>>
  BY DEF IInv, HolderIsOwner, Holding, Queued, UnlockStore, Goto
<1>2. TypeOK'
  BY <1>1 DEF TypeOK, Succ, PCs
<1>3. Queued' = Queued \ {c}
  BY <1>1 DEF Queued, TypeOK
<1>4. Holding' = {}
  <2>1. \A d \in Holding : d = c
    BY <1>1 DEF IInv, HolderIsOwner, TicketsUnique, Holding, Queued
  <2>2. Holding' \subseteq Holding \ {c}
    BY <1>1 DEF Holding, TypeOK
  <2> QED
    BY <2>1, <2>2
<1>5. QueueLength > 0
  <2>1. Distance(owner) = 0
    BY <1>1 DEF Distance, TypeOK
  <2> QED
    BY <2>1, <1>1 DEF IInv, TicketsIssued
<1>6. \A t \in 0..(W - 1) :
         Distance(t)' = IF t = owner THEN W - 1 ELSE Distance(t) - 1
  BY <1>1 DEF TypeOK, Distance, Succ
<1>7. QueueLength' = QueueLength - 1
  <2>1. next # owner
    BY <1>1, <1>5 DEF QueueLength, Distance, TypeOK
  <2> QED
    BY <2>1, <1>1 DEF QueueLength, Distance, TypeOK, Succ
<1>8. \A d \in Queued \ {c} : reg[d] # owner
  BY <1>1 DEF IInv, TicketsUnique
<1>9. QueueLength \in 0..(W - 1)
  BY <1>1, DistanceType DEF QueueLength, TypeOK
<1>10. TicketsIssued'
  <2> SUFFICES ASSUME NEW d \in Queued \ {c}
               PROVE  Distance(reg[d])' < QueueLength - 1
    BY <1>1, <1>3, <1>7 DEF TicketsIssued, Distance
  <2>1. Distance(reg[d]) < QueueLength /\ reg[d] # owner
    BY <1>8 DEF IInv, TicketsIssued
  <2>2. reg[d] \in 0..(W - 1) /\ Distance(reg[d]) \in 0..(W - 1)
    BY <1>1, DistanceType DEF TypeOK, Queued
  <2>3. Distance(reg[d])' = Distance(reg[d]) - 1
    BY <1>1, <2>1, <2>2 DEF TypeOK, Distance, Succ
  <2> QED
    BY <2>1, <2>2, <2>3, <1>9
<1>11. TicketsUnique'
  BY <1>1, <1>3 DEF IInv, TicketsUnique
<1>12. TicketsHeld'
  <2> SUFFICES ASSUME NEW t \in 0..(W - 1), Distance(t)' < QueueLength - 1
               PROVE  \E d \in Queued \ {c} : reg[d] = t
    BY <1>1, <1>3, <1>7 DEF TicketsHeld
  <2>1. t # owner /\ Distance(t) < QueueLength
    <3>1. Distance(t) \in 0..(W - 1)
      BY <1>1, DistanceType
    <3> QED
      BY <3>1, <1>6, <1>9
  <2>2. PICK d \in Queued : reg[d] = t
    BY <2>1 DEF IInv, TicketsHeld
  <2> QED
    BY <2>1, <2>2, <1>1
<1>13. HolderIsOwner'
  BY <1>4 DEF HolderIsOwner
<1>14. MonitorGuards'
  <2>1. \A d \in monitor : pc[d] = "trystxr" => FALSE
    BY <1>1, <1>5 DEF IInv, MonitorGuards, QueueLength, Distance, TypeOK
  <2>2. \A d \in monitor : pc'[d] \in {"stxr", "tryldar", "trystxr"} => pc'[d] = pc[d]
    BY <1>1 DEF TypeOK
  <2> QED
    BY <1>1, <2>1, <2>2 DEF IInv, MonitorGuards
<1> QED
  BY <1>2, <1>10, <1>11, <1>12, <1>13, <1>14 DEF IInv

\* The other accesses change neither counter.
LEMMA QuietStep ==
  ASSUME IInv, NEW c \in CPUs,
         \/ LockLoad(c) \/ LockStoreFails(c) \/ LockSpin(c)
         \/ TryLoad(c) \/ TryCompare(c) \/ TryStoreFails(c)
         \/ UnlockLoad(c)
  PROVE  IInv'
<1> USE WidthPositive
<1>1. TypeOK /\ owner' = owner /\ next' = next
  BY DEF IInv, LockLoad, LockStoreFails, LockSpin, TryLoad, TryCompare,
         TryStoreFails, UnlockLoad
<1>2. TypeOK'
  BY <1>1 DEF TypeOK, PCs, Goto, LockLoad, LockStoreFails, LockSpin, TryLoad,
              TryCompare, TryStoreFails, UnlockLoad
<1>3. Queued' = Queued
  BY <1>1 DEF TypeOK, Queued, Goto, LockLoad, LockStoreFails, LockSpin, TryLoad,
              TryCompare, TryStoreFails, UnlockLoad
<1>4. \A d \in Queued : reg'[d] = reg[d]
  <2>1. CASE UnlockLoad(c)
    <3>1. reg[c] = owner
      BY <2>1 DEF IInv, HolderIsOwner, Holding, UnlockLoad, Goto
    <3> QED
      BY <2>1, <3>1, <1>1 DEF TypeOK, UnlockLoad
  <2>2. CASE LockLoad(c) \/ TryLoad(c)
    BY <2>2, <1>1 DEF TypeOK, LockLoad, TryLoad, Goto, Queued
  <2>3. CASE \/ LockStoreFails(c) \/ LockSpin(c) \/ TryCompare(c)
             \/ TryStoreFails(c)
    BY <2>3 DEF LockStoreFails, LockSpin, TryCompare, TryStoreFails
  <2> QED
    BY <2>1, <2>2, <2>3
<1>5. TicketsIssued' /\ TicketsUnique' /\ TicketsHeld'
  BY <1>1, <1>3, <1>4 DEF IInv, TicketsIssued, TicketsUnique, TicketsHeld,
                          QueueLength, Distance
<1>6. HolderIsOwner'
  <2>1. \A d \in Holding' : d \in Holding \/ reg[d] = owner
    BY <1>1 DEF TypeOK, Holding, Goto, LockLoad, LockStoreFails, LockSpin,
                TryLoad, TryCompare, TryStoreFails, UnlockLoad
  <2>2. Holding' \subseteq Queued'
    BY DEF Holding, Queued
  <2> QED
    BY <1>1, <1>3, <1>4, <2>1, <2>2 DEF IInv, HolderIsOwner
<1>7. MonitorGuards'
  <2>1. CASE LockLoad(c) \/ TryLoad(c)
    BY <2>1, <1>1 DEF IInv, TypeOK, MonitorGuards, LockLoad, TryLoad, Goto
  <2>2. CASE LockStoreFails(c) \/ LockSpin(c) \/ TryStoreFails(c) \/ UnlockLoad(c)
    BY <2>2, <1>1 DEF IInv, TypeOK, MonitorGuards, LockStoreFails, LockSpin,
                      TryStoreFails, UnlockLoad, Goto
  <2>3. CASE TryCompare(c)
    BY <2>3, <1>1 DEF IInv, TypeOK, MonitorGuards, TryCompare, Goto
  <2> QED
    BY <2>1, <2>2, <2>3
<1> QED
  BY <1>2, <1>5, <1>6, <1>7 DEF IInv

\* Whatever the interleaving of lock(), try_lock() and unlock() on any number of
\* CPUs below 2^32, the tickets between owner and next are exactly those of the
\* CPUs that hold or await the lock.
THEOREM Inductive == Spec => []IInv
<1>1. Init => IInv
  BY WidthPositive DEF Init, IInv, TypeOK, PCs, TicketsIssued, TicketsUnique,
     TicketsHeld, HolderIsOwner, MonitorGuards, Queued, Holding, QueueLength,
     Distance
<1>2. IInv /\ [Next]_vars => IInv'
  <2> SUFFICES ASSUME IInv, [Next]_vars PROVE IInv'
    OBVIOUS
  <2>1. CASE UNCHANGED vars
    BY <2>1 DEF vars, IInv, TypeOK, TicketsIssued, TicketsUnique, TicketsHeld,
       HolderIsOwner, MonitorGuards, Queued, Holding, QueueLength, Distance
  <2>2. ASSUME NEW c \in CPUs, LockStore(c) PROVE IInv'
    BY <2>2, TakeTicket DEF LockStore, Goto
  <2>3. ASSUME NEW c \in CPUs, TryStore(c) PROVE IInv'
    BY <2>3, TakeTicket DEF TryStore, Goto
  <2>4. ASSUME NEW c \in CPUs, UnlockStore(c) PROVE IInv'
    BY <2>4, ServeNext
  <2> QED
    BY <2>1, <2>2, <2>3, <2>4, QuietStep DEF Next, Lock, TryLock, Unlock
<1> QED
  BY <1>1, <1>2, PTL DEF Spec

\* owner, next and the registers stay u32 values and every CPU stays inside the
\* code of lock.c.
THEOREM TypeCorrect == Spec => []TypeOK
<1>1. IInv => TypeOK
  BY DEF IInv
<1> QED
  BY <1>1, Inductive, PTL

\* The lock excludes: two CPUs are never both past lock() and before the end of
\* unlock().  The holder has the ticket that owner names, and it is unique.
THEOREM Exclusion == Spec => []MutualExclusion
<1>1. IInv => MutualExclusion
  BY DEF IInv, MutualExclusion, HolderIsOwner, TicketsUnique, Holding, Queued
<1> QED
  BY <1>1, Inductive, PTL

\* next - owner (in u32 arithmetic) is the number of CPUs that hold or await the
\* lock: no ticket is lost and none is issued twice.
THEOREM Exactness == Spec => []TicketsExact
<1>1. IInv => TicketsExact
  <2> SUFFICES ASSUME IInv PROVE TicketsExact
    OBVIOUS
  <2> USE WidthPositive
  <2>1. TypeOK /\ QueueLength \in 0..(W - 1)
    BY DistanceType DEF IInv, QueueLength, TypeOK
  <2> DEFINE f == [c \in Queued |-> Distance(reg[c])]
  <2>2. f \in Bijection(Queued, 0..(QueueLength - 1))
    <3>1. f \in [Queued -> 0..(QueueLength - 1)]
      <4> SUFFICES ASSUME NEW c \in Queued
                   PROVE  Distance(reg[c]) \in 0..(QueueLength - 1)
        OBVIOUS
      <4>1. reg[c] \in 0..(W - 1)
        BY <2>1 DEF TypeOK, Queued
      <4>2. Distance(reg[c]) < QueueLength
        BY DEF IInv, TicketsIssued
      <4> QED
        BY <4>1, <4>2, <2>1, DistanceType
    <3>2. ASSUME NEW c \in Queued, NEW d \in Queued, f[c] = f[d]
          PROVE  c = d
      <4>1. reg[c] \in 0..(W - 1) /\ reg[d] \in 0..(W - 1)
        BY <2>1 DEF TypeOK, Queued
      <4>2. reg[c] = reg[d]
        BY <3>2, <4>1, <2>1, DistanceType
      <4> QED
        BY <4>2 DEF IInv, TicketsUnique
    <3>3. ASSUME NEW n \in 0..(QueueLength - 1)
          PROVE  \E c \in Queued : f[c] = n
      <4>1. PICK t \in 0..(W - 1) : Distance(t) = n
        BY <2>1, DistanceType
      <4>2. PICK c \in Queued : reg[c] = t
        BY <4>1, <2>1 DEF IInv, TicketsHeld
      <4> QED
        BY <4>1, <4>2
    <3> QED
      BY <3>1, <3>2, <3>3 DEF Bijection, Injection, Surjection, IsInjective
  <2>3. IsFiniteSet(Queued)
    BY Widths, FS_Subset DEF Queued
  <2>4. Cardinality(0..(QueueLength - 1)) = QueueLength
    BY <2>1, FS_Interval
  <2> QED
    BY <2>2, <2>3, <2>4, FS_Bijection DEF TicketsExact, ExistsBijection
<1> QED
  BY <1>1, Inductive, PTL

-----------------------------------------------------------------------------
(* lock.c implements the first-come first-served lock of FifoLock, for every *)
(* number of CPUs and every width of the counters.  The tickets of the       *)
(* inductive invariant are what makes the queue of the refinement mapping    *)
(* well defined: each place in it belongs to one CPU.                        *)

\* Every place of the abstract queue is that of one queued CPU, the one whose ticket is
\* so far from owner.
QueueExact ==
    /\ AbsQueue \in Seq(CPUs) /\ Len(AbsQueue) = QueueLength
    /\ \A i \in 1..QueueLength :
          /\ AbsQueue[i] \in Queued
          /\ \A c \in Queued : Distance(reg[c]) = i - 1 => AbsQueue[i] = c

\* The invariant gives that the tickets waited for are the places of the abstract queue.
LEMMA QueueIsExact == IInv => QueueExact
<1> SUFFICES ASSUME IInv PROVE QueueExact
  OBVIOUS
<1> USE WidthPositive
<1>1. TypeOK /\ QueueLength \in 0..(W - 1)
  BY DistanceType DEF IInv, QueueLength, TypeOK
<1>2. Queued \subseteq CPUs
  BY DEF Queued
<1>3. ASSUME NEW i \in 1..QueueLength
      PROVE  /\ AbsQueue[i] \in Queued
             /\ \A c \in Queued : Distance(reg[c]) = i - 1 => AbsQueue[i] = c
  <2>1. AbsQueue[i] = CHOOSE c \in Queued : Distance(reg[c]) = i - 1
    BY DEF AbsQueue
  <2>2. i - 1 \in 0..(W - 1) /\ i - 1 < QueueLength
    BY <1>1
  <2>3. PICK t \in 0..(W - 1) : Distance(t) = i - 1
    BY <1>1, <2>2, DistanceType
  <2>4. \E c \in Queued : Distance(reg[c]) = i - 1
    BY <2>2, <2>3 DEF IInv, TicketsHeld
  <2>5. AbsQueue[i] \in Queued /\ Distance(reg[AbsQueue[i]]) = i - 1
    BY <2>1, <2>4
  <2>6. ASSUME NEW c \in Queued, Distance(reg[c]) = i - 1
        PROVE  AbsQueue[i] = c
    <3>1. reg[c] \in 0..(W - 1) /\ reg[AbsQueue[i]] \in 0..(W - 1)
      BY <1>1, <1>2, <2>5 DEF TypeOK
    <3>2. reg[c] = reg[AbsQueue[i]]
      BY <1>1, <2>5, <2>6, <3>1, DistanceType
    <3> QED
      BY <2>5, <3>2 DEF IInv, TicketsUnique
  <2> QED
    BY <2>5, <2>6
<1>4. AbsQueue \in [1..QueueLength -> CPUs]
  BY <1>2, <1>3 DEF AbsQueue
<1>5. AbsQueue \in Seq(CPUs) /\ Len(AbsQueue) = QueueLength
  BY <1>1, <1>4
<1> QED
  BY <1>3, <1>5 DEF QueueExact

\* The same after a step.
LEMMA QueueStaysExact == IInv' => QueueExact'
BY QueueIsExact, PTL

-----------------------------------------------------------------------------
\* A store to next appends the CPU to the queue.
LEMMA TicketAppends ==
  ASSUME IInv, IInv', NEW c \in CPUs, NEW to \in {"spin", "cs"},
         pc[c] \in {"stxr", "trystxr"}, c \in monitor,
         pc' = [pc EXCEPT ![c] = to],
         next' = Succ(reg[c]), UNCHANGED <<owner, reg>>
  PROVE  c \notin Queued /\ AbsQueue' = Append(AbsQueue, c)
<1> USE WidthPositive
<1>1. TypeOK /\ reg[c] = next
  BY DEF IInv, MonitorGuards
<1>2. c \notin Queued /\ Queued' = Queued \cup {c}
  BY <1>1 DEF Queued, TypeOK
<1>3. QueueLength < W - 1 /\ QueueLength \in 0..(W - 1)
  BY <1>1, <1>2, NeverFull, DistanceType DEF QueueLength, TypeOK
<1>4. QueueLength' = QueueLength + 1
  BY <1>1, <1>3 DEF QueueLength, Distance, TypeOK, Succ
<1>5. \A d \in CPUs : Distance(reg[d])' = Distance(reg[d])
  BY DEF Distance
<1>6. QueueExact /\ QueueExact'
  BY QueueIsExact, QueueStaysExact
<1>7. /\ AbsQueue' \in Seq(CPUs) /\ AbsQueue \in Seq(CPUs)
      /\ Len(AbsQueue) = QueueLength /\ Len(AbsQueue') = QueueLength + 1
  BY <1>4, <1>6 DEF QueueExact
<1>8. ASSUME NEW i \in 1..(QueueLength + 1)
      PROVE  AbsQueue'[i] = Append(AbsQueue, c)[i]
  <2>1. \A d \in Queued' : Distance(reg[d])' = i - 1 => AbsQueue'[i] = d
    BY <1>4, <1>6 DEF QueueExact
  <2>2. CASE i = QueueLength + 1
    <3>1. Distance(reg[c])' = i - 1
      BY <1>1, <1>3, <1>5, <2>2 DEF QueueLength
    <3> QED
      BY <1>2, <1>3, <1>7, <2>1, <2>2, <3>1
  <2>3. CASE i # QueueLength + 1
    <3>1. i \in 1..QueueLength
      BY <1>3, <2>3
    <3>2. AbsQueue[i] \in Queued /\ AbsQueue[i] \in Queued'
      BY <1>2, <1>6, <3>1 DEF QueueExact
    <3>3. \A d \in Queued' : AbsQueue'[i] = d => AbsQueue[i] = d
      <4>1. PICK d \in Queued : Distance(reg[d]) = i - 1
        <5>1. i - 1 \in 0..(W - 1) /\ i - 1 < QueueLength
          BY <1>3, <3>1
        <5>2. PICK t \in 0..(W - 1) : Distance(t) = i - 1
          BY <1>1, <5>1, DistanceType
        <5> QED
          BY <5>1, <5>2 DEF IInv, TicketsHeld
      <4>2. AbsQueue[i] = d
        BY <1>6, <3>1, <4>1 DEF QueueExact
      <4>3. AbsQueue'[i] = d
        BY <1>2, <1>5, <2>1, <4>1 DEF Queued
      <4> QED
        BY <4>2, <4>3
    <3>4. AbsQueue'[i] \in Queued'
      BY <1>4, <1>6 DEF QueueExact
    <3>5. Append(AbsQueue, c)[i] = AbsQueue[i]
      BY <1>7, <3>1
    <3> QED
      BY <3>3, <3>4, <3>5
  <2> QED
    BY <2>2, <2>3
<1>9. Append(AbsQueue, c) \in Seq(CPUs) /\ Len(Append(AbsQueue, c)) = QueueLength + 1
  BY <1>7
<1> QED
  BY <1>2, <1>7, <1>8, <1>9

\* The store of unlock() removes the head.
LEMMA UnlockRemovesHead ==
  ASSUME IInv, IInv', NEW c \in CPUs, UnlockStore(c)
  PROVE  /\ AbsQueue # <<>> /\ Head(AbsQueue) = c /\ AbsQueue' = Tail(AbsQueue)
         /\ c \in Holding /\ Holding' = {}
<1> USE WidthPositive
<1>1. /\ TypeOK
      /\ c \in Queued /\ c \in Holding
      /\ reg[c] = owner
      /\ owner' = Succ(owner)
      /\ pc' = [pc EXCEPT ![c] = "outside"]
      /\ UNCHANGED <<next, reg, monitor>>
  BY DEF IInv, HolderIsOwner, Holding, Queued, UnlockStore, Goto
<1>2. Queued' = Queued \ {c}
  BY <1>1 DEF Queued, TypeOK
<1>3. Holding' = {}
  <2>1. \A d \in Holding : d = c
    BY <1>1 DEF IInv, HolderIsOwner, TicketsUnique, Holding, Queued
  <2>2. Holding' \subseteq Holding \ {c}
    BY <1>1 DEF Holding, TypeOK
  <2> QED
    BY <2>1, <2>2
<1>4. Distance(reg[c]) = 0 /\ QueueLength \in 1..(W - 1)
  <2>1. Distance(reg[c]) = 0
    BY <1>1 DEF Distance, TypeOK
  <2>2. QueueLength \in 0..(W - 1) /\ Distance(reg[c]) < QueueLength
    BY <1>1, DistanceType DEF IInv, TicketsIssued, QueueLength, TypeOK
  <2> QED
    BY <2>1, <2>2
<1>5. QueueLength' = QueueLength - 1
  <2>1. next # owner
    BY <1>1, <1>4 DEF QueueLength, Distance, TypeOK
  <2> QED
    BY <2>1, <1>1 DEF QueueLength, Distance, TypeOK, Succ
<1>6. QueueExact /\ QueueExact'
  BY QueueIsExact, QueueStaysExact
<1>7. /\ AbsQueue' \in Seq(CPUs) /\ AbsQueue \in Seq(CPUs)
      /\ Len(AbsQueue) = QueueLength /\ Len(AbsQueue') = QueueLength - 1
  BY <1>5, <1>6 DEF QueueExact
<1>8. AbsQueue[1] = c
  BY <1>1, <1>4, <1>6 DEF QueueExact
<1>9. AbsQueue # <<>> /\ Head(AbsQueue) = c
  BY <1>4, <1>7, <1>8
<1>10. ASSUME NEW i \in 1..(QueueLength - 1)
       PROVE  AbsQueue'[i] = AbsQueue[i + 1]
  <2>1. i \in 0..(W - 1) /\ i < QueueLength /\ i + 1 \in 1..QueueLength
    BY <1>4
  <2>2. PICK d \in Queued : Distance(reg[d]) = i
    <3>1. PICK t \in 0..(W - 1) : Distance(t) = i
      BY <1>1, <2>1, DistanceType
    <3> QED
      BY <2>1, <3>1 DEF IInv, TicketsHeld
  <2>3. AbsQueue[i + 1] = d
    BY <1>6, <2>1, <2>2 DEF QueueExact
  <2>4. d # c /\ d \in Queued'
    BY <1>2, <1>4, <2>2
  <2>5. reg[d] \in 0..(W - 1) /\ reg[d] # owner
    BY <1>1, <2>2, <2>4 DEF IInv, TicketsUnique, TypeOK, Queued
  <2>6. Distance(reg[d])' = Distance(reg[d]) - 1
    BY <1>1, <2>5 DEF TypeOK, Distance, Succ
  <2>7. AbsQueue'[i] = d
    BY <1>5, <1>6, <2>2, <2>4, <2>6 DEF QueueExact
  <2> QED
    BY <2>3, <2>7
<1>11. /\ Tail(AbsQueue) \in Seq(CPUs) /\ Len(Tail(AbsQueue)) = QueueLength - 1
       /\ \A i \in 1..(QueueLength - 1) : Tail(AbsQueue)[i] = AbsQueue[i + 1]
  BY <1>7, <1>9
<1>12. AbsQueue' = Tail(AbsQueue)
  BY <1>7, <1>10, <1>11
<1> QED
  BY <1>1, <1>3, <1>9, <1>12

\* The other accesses leave the queue as it is.
LEMMA QueueKept ==
  ASSUME IInv, NEW c \in CPUs,
         \/ LockLoad(c) \/ LockStoreFails(c) \/ LockSpin(c)
         \/ TryLoad(c) \/ TryCompare(c) \/ TryStoreFails(c)
         \/ UnlockLoad(c)
  PROVE  AbsQueue' = AbsQueue
<1> USE WidthPositive
<1>1. TypeOK /\ owner' = owner /\ next' = next
  BY DEF IInv, LockLoad, LockStoreFails, LockSpin, TryLoad, TryCompare,
         TryStoreFails, UnlockLoad
<1>2. Queued' = Queued
  BY <1>1 DEF TypeOK, Queued, Goto, LockLoad, LockStoreFails, LockSpin, TryLoad,
              TryCompare, TryStoreFails, UnlockLoad
<1>3. \A d \in Queued : reg'[d] = reg[d]
  <2>1. CASE UnlockLoad(c)
    <3>1. reg[c] = owner
      BY <2>1 DEF IInv, HolderIsOwner, Holding, UnlockLoad, Goto
    <3> QED
      BY <2>1, <3>1, <1>1 DEF TypeOK, UnlockLoad
  <2>2. CASE LockLoad(c) \/ TryLoad(c)
    BY <2>2, <1>1 DEF TypeOK, LockLoad, TryLoad, Goto, Queued
  <2>3. CASE \/ LockStoreFails(c) \/ LockSpin(c) \/ TryCompare(c)
             \/ TryStoreFails(c)
    BY <2>3 DEF LockStoreFails, LockSpin, TryCompare, TryStoreFails
  <2> QED
    BY <2>1, <2>2, <2>3
<1>4. QueueLength' = QueueLength
  BY <1>1 DEF QueueLength, Distance
<1>5. \A i \in 1..QueueLength :
         (CHOOSE d \in Queued : Distance(reg[d]) = i - 1)'
             = CHOOSE d \in Queued : Distance(reg[d]) = i - 1
  BY <1>1, <1>2, <1>3 DEF Distance
<1> QED
  BY <1>4, <1>5 DEF AbsQueue

-----------------------------------------------------------------------------
\* Every access of lock(), try_lock() and unlock() is a step of the queue or none: a CPU
\* joins it at the end when its store to next succeeds, enters when it is its head, and
\* leaves it with the store to owner; try_lock() enters an empty queue.
THEOREM RefinesFifo == Spec => ImplementsFifo
<1>1. Init => Abs!Init
  <2> SUFFICES ASSUME Init PROVE AbsQueue = <<>> /\ ~(Holding # {})
    BY DEF Abs!Init
  <2>1. QueueLength = 0 /\ Holding = {}
    BY DEF Init, QueueLength, Distance, Holding
  <2> QED
    BY <2>1 DEF AbsQueue
<1>2. IInv /\ IInv' /\ [Next]_vars => [Abs!Next]_(Abs!vars)
  <2> SUFFICES ASSUME IInv, IInv', [Next]_vars
               PROVE  Abs!Next \/ (AbsQueue' = AbsQueue /\ (Holding # {})' = (Holding # {}))
    BY DEF Abs!vars
  <2> USE WidthPositive
  <2>1. QueueExact /\ TypeOK
    BY QueueIsExact DEF IInv
  <2>2. CASE UNCHANGED vars
    BY <2>2 DEF vars, AbsQueue, QueueLength, Distance, Queued, Holding
  <2>3. ASSUME NEW c \in CPUs, LockStore(c)
        PROVE  Abs!Next
    <3>1. c \notin Queued /\ AbsQueue' = Append(AbsQueue, c)
      BY <2>3, TicketAppends DEF LockStore, Goto
    <3>2. Holding' = Holding
      BY <2>1, <2>3 DEF LockStore, Goto, Holding, TypeOK
    <3>3. ~Abs!Waiting(c)
      BY <2>1, <3>1 DEF Abs!Waiting, QueueExact
    <3>4. Abs!Request(c)
      BY <3>1, <3>2, <3>3 DEF Abs!Request
    <3> QED
      BY <3>4 DEF Abs!Next
  <2>4. ASSUME NEW c \in CPUs, TryStore(c)
        PROVE  Abs!Next
    <3>1. AbsQueue' = Append(AbsQueue, c)
      BY <2>4, TicketAppends DEF TryStore, Goto
    <3>2. QueueLength = 0
      BY <2>1, <2>4 DEF IInv, MonitorGuards, TryStore, Goto, QueueLength, Distance, TypeOK
    <3>3. AbsQueue = <<>>
      BY <2>1, <3>2 DEF QueueExact
    <3>4. c \in Holding'
      BY <2>1, <2>4 DEF TryStore, Goto, Holding, TypeOK
    <3>5. Append(AbsQueue, c) = <<c>>
      BY <3>3
    <3>6. Abs!TryEnter(c)
      BY <3>1, <3>3, <3>4, <3>5 DEF Abs!TryEnter
    <3> QED
      BY <3>6 DEF Abs!Next
  <2>5. ASSUME NEW c \in CPUs, LockSpin(c)
        PROVE  Abs!Next
    <3>1. AbsQueue' = AbsQueue
      BY <2>5, QueueKept
    <3>2. c \in Queued /\ c \notin Holding /\ c \in Holding' /\ reg[c] = owner
      BY <2>1, <2>5 DEF LockSpin, Goto, Queued, Holding, TypeOK
    <3>3. Holding = {}
      BY <3>2 DEF IInv, HolderIsOwner, TicketsUnique, Holding, Queued
    <3>4. Distance(reg[c]) = 0 /\ QueueLength \in 1..(W - 1)
      <4>1. Distance(reg[c]) = 0
        BY <2>1, <3>2 DEF Distance, TypeOK
      <4>2. QueueLength \in 0..(W - 1) /\ Distance(reg[c]) < QueueLength
        BY <2>1, <3>2, DistanceType DEF IInv, TicketsIssued, QueueLength, TypeOK
      <4> QED
        BY <4>1, <4>2
    <3>5. AbsQueue[1] = c
      BY <2>1, <3>2, <3>4 DEF QueueExact
    <3>6. AbsQueue # <<>> /\ Head(AbsQueue) = c
      BY <2>1, <3>4, <3>5 DEF QueueExact
    <3>7. Abs!Enter(c)
      BY <3>1, <3>2, <3>3, <3>6 DEF Abs!Enter
    <3> QED
      BY <3>7 DEF Abs!Next
  <2>6. ASSUME NEW c \in CPUs, UnlockStore(c)
        PROVE  Abs!Next
    <3>1. Abs!Release(c)
      BY <2>6, UnlockRemovesHead DEF Abs!Release
    <3> QED
      BY <3>1 DEF Abs!Next
  <2>7. ASSUME NEW c \in CPUs,
               \/ LockLoad(c) \/ LockStoreFails(c)
               \/ TryLoad(c) \/ TryCompare(c) \/ TryStoreFails(c)
               \/ UnlockLoad(c)
        PROVE  AbsQueue' = AbsQueue /\ (Holding # {})' = (Holding # {})
    <3>1. AbsQueue' = AbsQueue
      BY <2>7, QueueKept
    <3>2. Holding' = Holding
      BY <2>1, <2>7 DEF LockLoad, LockStoreFails, TryLoad, TryCompare, TryStoreFails,
                        UnlockLoad, Goto, Holding, TypeOK
    <3> QED
      BY <3>1, <3>2
  <2> QED
    BY <2>2, <2>3, <2>4, <2>5, <2>6, <2>7 DEF Next, Lock, TryLock, Unlock
<1> QED
  BY <1>1, <1>2, Inductive, PTL DEF Spec, ImplementsFifo, Abs!Spec

-----------------------------------------------------------------------------
(* Boot and the big kernel lock.  That two CPUs are never in the kernel    *)
(* needs the order of boot, since main() resets the lock that the other    *)
(* CPUs use, and that the order of boot is kept needs the lock; so they    *)
(* are proved together.                                                    *)

Modes == {"reset", "parked", "init", "enable", "starting", "entering", "spinning",
          "kernel", "fault", "scheduled", "leaving", "idle", "user"}

EntryTypes == /\ bssCleared \in BOOLEAN
          /\ bootFlag \in [CPUs -> BOOLEAN] /\ cpuStatus \in [CPUs -> BOOLEAN]
          /\ booting \in 0..N
          /\ owner \in 0..(W - 1) /\ next \in 0..(W - 1)
          /\ ticket \in [CPUs -> 0..(W - 1)]
          /\ mode \in [CPUs -> Modes]
          /\ current \in [CPUs -> {"none", "user", "idle"}]

\* The CPUs that hold or await the lock.
InLine == {c \in CPUs : mode[c] = "spinning" \/ mode[c] \in InKernel}

\* The tickets between owner and next are those of the queued CPUs, each of one CPU.
TurnsIssued == \A c \in InLine : Distance(ticket[c]) < QueueLength
TurnsUnique == \A c, d \in InLine : ticket[c] = ticket[d] => c = d
TurnsHeld   == \A t \in 0..(W - 1) :
                    Distance(t) < QueueLength => \E c \in InLine : ticket[c] = t
Turns == TurnsIssued /\ TurnsUnique /\ TurnsHeld

\* How far the other CPUs can be for each stage of the primary CPU.
BootOrder ==
    /\ mode[0] \notin {"parked", "starting"}
    /\ \A c \in CPUs \ {0} :
          /\ mode[c] \notin {"init", "enable"}
          /\ mode[0] \in {"reset", "init"} => ~bootFlag[c] /\ mode[c] \in {"reset", "parked"}
          /\ mode[0] = "enable" =>
                mode[c] \in {"reset", "parked", "starting", "entering", "spinning"}
    /\ mode[0] \notin {"reset", "init", "enable"} => booting = N
    /\ \A i \in CPUs : i < booting => cpuStatus[i]

\* An interrupt from EL1 finds an idle thread current, and a CPU that leaves goes to
\* some thread.
ThreadsCurrent == \A c \in CPUs :
    /\ mode[c] = "idle" => current[c] = "idle"
    /\ mode[c] \in {"scheduled", "leaving"} => current[c] \in {"user", "idle"}

EntryInv == EntryTypes /\ Turns /\ UnlocksItsOwnLock /\ BootOrder /\ ThreadsCurrent

-----------------------------------------------------------------------------
(* The counters *)

\* The distances of the tickets.
LEMMA TurnType ==
  ASSUME EntryTypes
  PROVE  /\ \A t \in 0..(W - 1) : Distance(t) \in 0..(W - 1)
         /\ \A t, u \in 0..(W - 1) : Distance(t) = Distance(u) => t = u
         /\ QueueLength \in 0..(W - 1)
BY DistanceApart DEF EntryTypes

\* A CPU that is not queued leaves a ticket to draw: there are more than CPUs.
LEMMA TurnLeft ==
  ASSUME EntryTypes, Turns, NEW c \in CPUs, c \notin InLine
  PROVE  QueueLength < W - 1
<1> USE Widths
<1>1. QueueLength \in 0..(W - 1)
  BY TurnType
<1>2. SUFFICES ASSUME QueueLength = W - 1
               PROVE  FALSE
  BY <1>1
<1> DEFINE f == [d \in CPUs |-> IF d \in InLine THEN ticket[d] ELSE next]
<1>3. f \in [CPUs -> 0..(W - 1)]
  BY DEF EntryTypes
<1>4. ASSUME NEW t \in 0..(W - 1)
      PROVE  \E d \in CPUs : f[d] = t
  <2>1. CASE t = next
    BY <2>1
  <2>2. CASE t # next
    <3>1. Distance(t) < QueueLength
      BY <2>2, <1>2, TurnType DEF QueueLength, EntryTypes
    <3>2. PICK d \in InLine : ticket[d] = t
      BY <3>1 DEF Turns, TurnsHeld
    <3> QED
      BY <3>2 DEF InLine
  <2> QED
    BY <2>1, <2>2
<1>5. f \in Surjection(CPUs, 0..(W - 1))
  BY <1>3, <1>4 DEF Surjection
<1>6. Cardinality(0..(W - 1)) <= N
  BY <1>5, FS_Surjection
<1>7. Cardinality(0..(W - 1)) = W
  BY FS_Interval
<1> QED
  BY <1>6, <1>7

-----------------------------------------------------------------------------
(* What the steps do to the tickets *)

\* lock_kernel() draws a ticket that nobody has.
LEMMA TurnDrawn ==
  ASSUME EntryTypes, Turns, NEW c \in CPUs, c \notin InLine,
         ticket' = [ticket EXCEPT ![c] = next],
         next' = Succ(next), owner' = owner, InLine' = InLine \cup {c}
  PROVE  Turns'
<1> USE Widths
<1>1. QueueLength < W - 1 /\ QueueLength \in 0..(W - 1)
  BY TurnLeft, TurnType
<1>2. \A t \in 0..(W - 1) : Distance(t)' = Distance(t)
  BY DEF Distance
<1>3. QueueLength' = QueueLength + 1
  BY <1>1 DEF QueueLength, Distance, EntryTypes, Succ
<1>4. /\ ticket'[c] = next /\ next \in 0..(W - 1)
      /\ \A d \in InLine : /\ ticket'[d] = ticket[d] /\ ticket[d] \in 0..(W - 1)
                           /\ Distance(ticket[d]) < QueueLength
  BY DEF EntryTypes, InLine, Turns, TurnsIssued
<1>5. TurnsIssued'
  <2> SUFFICES ASSUME NEW d \in InLine \cup {c}
               PROVE  Distance(ticket[d])' < QueueLength + 1
    BY <1>3 DEF TurnsIssued, Distance
  <2>1. CASE d = c
    BY <2>1, <1>1, <1>2, <1>4 DEF QueueLength
  <2>2. CASE d # c
    <3>1. /\ ticket'[d] = ticket[d] /\ ticket[d] \in 0..(W - 1)
          /\ Distance(ticket[d]) < QueueLength
      BY <2>2, <1>4
    <3>2. Distance(ticket[d]) \in 0..(W - 1)
      BY <3>1, TurnType
    <3> QED
      BY <3>1, <3>2, <1>1, <1>2
  <2> QED
    BY <2>1, <2>2
<1>6. TurnsUnique'
  <2>1. \A d \in InLine : ticket[d] # next
    BY <1>1, <1>4 DEF QueueLength
  <2> QED
    BY <2>1, <1>4 DEF Turns, TurnsUnique
<1>7. TurnsHeld'
  <2> SUFFICES ASSUME NEW t \in 0..(W - 1), Distance(t)' < QueueLength + 1
               PROVE  \E d \in InLine \cup {c} : ticket'[d] = t
    BY <1>3 DEF TurnsHeld
  <2>1. Distance(t) \in 0..(W - 1) /\ Distance(t) < QueueLength + 1
    BY <1>2, TurnType
  <2>2. CASE Distance(t) < QueueLength
    BY <2>2, <1>4 DEF Turns, TurnsHeld
  <2>3. CASE Distance(t) = QueueLength
    BY <2>3, <1>4, TurnType DEF QueueLength
  <2> QED
    BY <1>1, <2>1, <2>2, <2>3
<1> QED
  BY <1>5, <1>6, <1>7 DEF Turns

\* unlock_kernel() of the CPU whose ticket owner names: it leaves the queue, the others
\* come one nearer.
LEMMA TurnServed ==
  ASSUME EntryTypes, Turns, NEW c \in InLine, ticket[c] = owner,
         owner' = Succ(owner), UNCHANGED <<next, ticket>>, InLine' = InLine \ {c}
  PROVE  Turns'
<1> USE Widths
<1>1. QueueLength \in 0..(W - 1) /\ QueueLength > 0
  <2>1. Distance(owner) = 0
    BY DEF Distance, EntryTypes
  <2> QED
    BY <2>1, TurnType DEF Turns, TurnsIssued
<1>2. \A t \in 0..(W - 1) : Distance(t)' = IF t = owner THEN W - 1 ELSE Distance(t) - 1
  BY DEF EntryTypes, Distance, Succ
<1>3. QueueLength' = QueueLength - 1
  <2>1. next # owner
    BY <1>1 DEF QueueLength, Distance, EntryTypes
  <2>2. next \in 0..(W - 1) /\ QueueLength' = Distance(next)'
    BY DEF QueueLength, Distance, EntryTypes
  <2> QED
    BY <2>1, <2>2, <1>2 DEF QueueLength
<1>4. \A d \in InLine \ {c} : /\ ticket[d] # owner /\ ticket[d] \in 0..(W - 1)
                              /\ Distance(ticket[d]) < QueueLength
  BY DEF Turns, TurnsUnique, TurnsIssued, EntryTypes, InLine
<1>5. TurnsIssued'
  <2> SUFFICES ASSUME NEW d \in InLine \ {c}
               PROVE  Distance(ticket[d])' < QueueLength - 1
    BY <1>3 DEF TurnsIssued, Distance
  <2>1. /\ ticket[d] # owner /\ ticket[d] \in 0..(W - 1)
        /\ Distance(ticket[d]) < QueueLength
    BY <1>4
  <2>2. Distance(ticket[d])' = Distance(ticket[d]) - 1
    BY <2>1 DEF EntryTypes, Distance, Succ
  <2>3. Distance(ticket[d]) \in 0..(W - 1)
    BY <2>1, TurnType
  <2> QED
    BY <2>1, <2>2, <2>3, <1>1
<1>6. TurnsUnique'
  BY DEF Turns, TurnsUnique
<1>7. TurnsHeld'
  <2> SUFFICES ASSUME NEW t \in 0..(W - 1), Distance(t)' < QueueLength - 1
               PROVE  \E d \in InLine \ {c} : ticket[d] = t
    BY <1>3 DEF TurnsHeld
  <2>1. Distance(t) \in 0..(W - 1)
    BY TurnType
  <2>2. t # owner /\ Distance(t) < QueueLength
    BY <2>1, <1>1, <1>2
  <2>3. PICK d \in InLine : ticket[d] = t
    BY <2>2 DEF Turns, TurnsHeld
  <2> QED
    BY <2>2, <2>3
<1> QED
  BY <1>5, <1>6, <1>7 DEF Turns

\* Other steps leave the lock and its queue alone.
LEMMA TurnsKept ==
  ASSUME Turns, UNCHANGED bkl, InLine' = InLine
  PROVE  Turns'
BY DEF bkl, Turns, TurnsIssued, TurnsUnique, TurnsHeld, QueueLength, Distance

-----------------------------------------------------------------------------
(* Boot *)

\* A step of the primary CPU on its way through main().  MainLock resets the counters
\* while nobody is queued.
LEMMA PrimaryKeeps ==
  ASSUME EntryInv, Primary
  PROVE  EntryInv'
<1> USE Widths
<1>1. EntryTypes /\ Turns /\ UnlocksItsOwnLock /\ BootOrder /\ ThreadsCurrent
  BY DEF EntryInv
<1>2. CASE ClearBss
  <2>1. EntryTypes'
    BY <1>1, <1>2 DEF EntryTypes, ClearBss, Move, Modes, bkl
  <2>2. InLine' = InLine /\ UNCHANGED bkl
    BY <1>1, <1>2 DEF EntryTypes, ClearBss, Move, InLine, InKernel
  <2>3. UnlocksItsOwnLock' /\ BootOrder' /\ ThreadsCurrent'
    BY <1>1, <1>2 DEF EntryTypes, ClearBss, Move, UnlocksItsOwnLock, InKernel, BootOrder,
                      ThreadsCurrent, bkl
  <2> QED
    BY <1>1, <2>1, <2>2, <2>3, TurnsKept DEF EntryInv
<1>3. CASE MainLock
  <2>1. EntryTypes'
    BY <1>1, <1>3 DEF EntryTypes, MainLock, Move, Modes
  <2>2. InLine' = {0} /\ ticket'[0] = 0 /\ owner' = 0 /\ next' = 1
    BY <1>1, <1>3 DEF EntryTypes, BootOrder, MainLock, Move, InLine, InKernel
  <2>3. QueueLength' = 1 /\ \A t \in 0..(W - 1) : Distance(t)' = t
    BY <2>2 DEF QueueLength, Distance
  <2>4. TurnsIssued'
    BY <2>2, <2>3 DEF TurnsIssued, Distance
  <2>5. TurnsUnique' /\ TurnsHeld'
    BY <2>2, <2>3 DEF TurnsUnique, TurnsHeld
  <2>6. UnlocksItsOwnLock' /\ BootOrder' /\ ThreadsCurrent'
    BY <1>1, <1>3, <2>2 DEF EntryTypes, MainLock, Move, UnlocksItsOwnLock, InKernel,
                            BootOrder, ThreadsCurrent
  <2> QED
    BY <2>1, <2>4, <2>5, <2>6 DEF EntryInv, Turns
<1>4. CASE EnableCore \/ CoreRunning
  <2>1. EntryTypes'
    <3>1. bootFlag' \in [CPUs -> BOOLEAN]
      BY <1>1, <1>4, Zenon DEF EntryTypes, EnableCore, CoreRunning
    <3>2. booting' \in 0..N
      BY <1>1, <1>4 DEF EntryTypes, EnableCore, CoreRunning
    <3> QED
      BY <1>1, <1>4, <3>1, <3>2 DEF EntryTypes, EnableCore, CoreRunning, bkl
  <2>2. InLine' = InLine /\ UNCHANGED <<bkl, mode, current>>
    BY <1>1, <1>4 DEF EnableCore, CoreRunning, InLine
  <2>3. UnlocksItsOwnLock' /\ ThreadsCurrent'
    BY <1>1, <2>2 DEF UnlocksItsOwnLock, ThreadsCurrent, bkl
  <2>4. BootOrder'
    BY <1>1, <1>4, <2>2 DEF EntryTypes, BootOrder, EnableCore, CoreRunning
  <2> QED
    BY <1>1, <2>1, <2>2, <2>3, <2>4, TurnsKept DEF EntryInv
<1>5. CASE CoresEnabled
  <2>1. EntryTypes'
    BY <1>1, <1>5 DEF EntryTypes, CoresEnabled, Move, Modes, boot, bkl
  <2>2. InLine' = InLine /\ UNCHANGED bkl
    BY <1>1, <1>5 DEF EntryTypes, CoresEnabled, Move, InLine, InKernel
  <2>3. UnlocksItsOwnLock' /\ BootOrder' /\ ThreadsCurrent'
    BY <1>1, <1>5 DEF EntryTypes, CoresEnabled, Move, UnlocksItsOwnLock, InKernel, BootOrder,
                      ThreadsCurrent, boot, bkl
  <2> QED
    BY <1>1, <2>1, <2>2, <2>3, TurnsKept DEF EntryInv
<1> QED
  BY <1>2, <1>3, <1>4, <1>5 DEF Primary

\* A step of another CPU that boots.
LEMMA BootKeeps ==
  ASSUME EntryInv, NEW c \in CPUs, BootNext(c)
  PROVE  EntryInv'
<1> USE Widths
<1>1. EntryTypes /\ Turns /\ UnlocksItsOwnLock /\ BootOrder /\ ThreadsCurrent
  BY DEF EntryInv
<1>2. EntryTypes'
  BY <1>1 DEF EntryTypes, BootNext, WaitForBss, WaitForSmp, SecondaryStart, Move, Modes, boot,
              bkl
<1>3. InLine' = InLine /\ UNCHANGED bkl
  BY <1>1 DEF EntryTypes, BootNext, WaitForBss, WaitForSmp, SecondaryStart, Move, InLine,
              InKernel
<1>4. UnlocksItsOwnLock' /\ ThreadsCurrent'
  BY <1>1 DEF EntryTypes, BootNext, WaitForBss, WaitForSmp, SecondaryStart, Move, InKernel,
              UnlocksItsOwnLock, ThreadsCurrent, boot, bkl
<1>5. c # 0
  BY <1>1 DEF BootOrder, BootNext, WaitForBss, WaitForSmp, SecondaryStart, Move
<1>6. BootOrder'
  BY <1>1, <1>5 DEF EntryTypes, BootNext, WaitForBss, WaitForSmp, SecondaryStart, Move,
                    BootOrder, boot, bkl
<1> QED
  BY <1>1, <1>2, <1>3, <1>4, <1>6, TurnsKept DEF EntryInv

-----------------------------------------------------------------------------
(* Into the kernel and out of it *)

\* Steps of a CPU outside the kernel, and those of the kernel that do not unlock.
LEMMA QuietKeeps ==
  ASSUME EntryInv, NEW c \in CPUs,
         TrapFromUser(c) \/ IrqFromIdle(c) \/ Eret(c) \/ Sched(c)
  PROVE  EntryInv'
<1> USE Widths
<1>1. EntryTypes /\ Turns /\ UnlocksItsOwnLock /\ BootOrder /\ ThreadsCurrent
  BY DEF EntryInv
<1>2. PICK to \in {"entering", "idle", "user", "scheduled"} :
         /\ mode' = [mode EXCEPT ![c] = to]
         /\ UNCHANGED <<bkl, boot>>
         /\ \A d \in CPUs \ {c} : current'[d] = current[d]
         /\ current'[c] \in {"none", "user", "idle"}
         /\ current' \in [CPUs -> {"none", "user", "idle"}]
         /\ mode[c] \in {"user", "idle", "leaving", "kernel"}
         /\ to = "scheduled" <=> mode[c] = "kernel"
         /\ to = "idle" => current'[c] = "idle"
         /\ to = "scheduled" => current'[c] \in {"user", "idle"}
  <2>1. CASE TrapFromUser(c)
    BY <2>1, <1>1 DEF EntryTypes, TrapFromUser, Move
  <2>2. CASE IrqFromIdle(c)
    BY <2>2, <1>1 DEF EntryTypes, ThreadsCurrent, IrqFromIdle, Move
  <2>3. CASE Eret(c)
    BY <2>3, <1>1 DEF EntryTypes, ThreadsCurrent, Eret, Move
  <2>4. CASE Sched(c)
    BY <2>4, <1>1 DEF EntryTypes, Sched, Move
  <2> QED
    BY <2>1, <2>2, <2>3, <2>4
<1>3. EntryTypes'
  BY <1>1, <1>2 DEF EntryTypes, Modes, boot, bkl
<1>4. InLine' = InLine
  BY <1>1, <1>2 DEF EntryTypes, InLine, InKernel
<1>5. UnlocksItsOwnLock' /\ ThreadsCurrent'
  BY <1>1, <1>2 DEF EntryTypes, UnlocksItsOwnLock, InKernel, ThreadsCurrent, bkl
<1>6. BootOrder'
  BY <1>1, <1>2 DEF EntryTypes, BootOrder, boot
<1> QED
  BY <1>1, <1>2, <1>3, <1>4, <1>5, <1>6, TurnsKept DEF EntryInv

\* lock_kernel() takes a ticket.
LEMMA LockKernelKeeps ==
  ASSUME EntryInv, NEW c \in CPUs, LockKernel(c)
  PROVE  EntryInv'
<1> USE Widths
<1>1. EntryTypes /\ Turns /\ UnlocksItsOwnLock /\ BootOrder /\ ThreadsCurrent
  BY DEF EntryInv
<1>2. EntryTypes'
  BY <1>1 DEF EntryTypes, LockKernel, Move, Modes, Succ, boot
<1>3. c \notin InLine /\ InLine' = InLine \cup {c}
  BY <1>1 DEF EntryTypes, LockKernel, Move, InLine, InKernel
<1>4. Turns'
  BY <1>1, <1>3, TurnDrawn DEF LockKernel
<1>5. UnlocksItsOwnLock' /\ BootOrder' /\ ThreadsCurrent'
  BY <1>1 DEF EntryTypes, LockKernel, Move, UnlocksItsOwnLock, InKernel, BootOrder,
              ThreadsCurrent, boot
<1> QED
  BY <1>2, <1>4, <1>5 DEF EntryInv

\* lock_kernel() returns.  While the primary CPU wakes the others, it holds the ticket
\* that owner names, and tickets are unique.
LEMMA LockAcquiredKeeps ==
  ASSUME EntryInv, NEW c \in CPUs, LockAcquired(c)
  PROVE  EntryInv'
<1> USE Widths
<1>1. EntryTypes /\ Turns /\ UnlocksItsOwnLock /\ BootOrder /\ ThreadsCurrent
  BY DEF EntryInv
<1>2. EntryTypes'
  BY <1>1 DEF EntryTypes, LockAcquired, Move, Modes, boot, bkl
<1>3. InLine' = InLine /\ UNCHANGED bkl
  BY <1>1 DEF EntryTypes, LockAcquired, Move, InLine, InKernel
<1>4. UnlocksItsOwnLock' /\ ThreadsCurrent'
  BY <1>1 DEF EntryTypes, LockAcquired, Move, UnlocksItsOwnLock, InKernel, ThreadsCurrent, bkl
<1>5. mode[0] # "enable"
  <2> SUFFICES ASSUME mode[0] = "enable" PROVE FALSE
    OBVIOUS
  <2>1. ticket[0] = owner /\ ticket[c] = owner
    BY <1>1 DEF UnlocksItsOwnLock, InKernel, LockAcquired
  <2>2. 0 \in InLine /\ c \in InLine /\ c # 0
    BY DEF InLine, InKernel, LockAcquired, Move
  <2> QED
    BY <1>1, <2>1, <2>2 DEF Turns, TurnsUnique
<1>6. BootOrder'
  BY <1>1, <1>5 DEF EntryTypes, BootOrder, LockAcquired, Move, boot
<1> QED
  BY <1>1, <1>2, <1>3, <1>4, <1>6, TurnsKept DEF EntryInv

\* unlock_kernel() on the way out: nobody else can be in the kernel.
LEMMA ExceptionReturnKeeps ==
  ASSUME EntryInv, NEW c \in CPUs, ExceptionReturn(c)
  PROVE  EntryInv'
<1> USE Widths
<1>1. EntryTypes /\ Turns /\ UnlocksItsOwnLock /\ BootOrder /\ ThreadsCurrent
  BY DEF EntryInv
<1>2. /\ mode[c] \in {"kernel", "scheduled"} /\ current[c] \in {"user", "idle"}
      /\ mode' = [mode EXCEPT ![c] = "leaving"]
      /\ owner' = Succ(owner) /\ UNCHANGED <<next, ticket, boot, current>>
  BY <1>1 DEF ExceptionReturn, Move, ThreadsCurrent
<1>3. EntryTypes'
  BY <1>1, <1>2 DEF EntryTypes, Modes, Succ, boot
<1>4. c \in InLine /\ ticket[c] = owner /\ InLine' = InLine \ {c}
  BY <1>1, <1>2 DEF EntryTypes, InLine, InKernel, UnlocksItsOwnLock
<1>5. Turns'
  BY <1>1, <1>2, <1>4, TurnServed
<1>6. UnlocksItsOwnLock'
  <2> SUFFICES ASSUME NEW d \in CPUs, mode'[d] \in InKernel PROVE FALSE
    BY DEF UnlocksItsOwnLock
  <2>1. d # c /\ d \in InLine /\ ticket[d] = owner
    BY <1>1, <1>2 DEF EntryTypes, InLine, InKernel, UnlocksItsOwnLock
  <2> QED
    BY <1>1, <1>4, <2>1 DEF Turns, TurnsUnique
<1>7. BootOrder'
  BY <1>1, <1>2 DEF EntryTypes, BootOrder, boot
<1>8. ThreadsCurrent'
  BY <1>1, <1>2 DEF EntryTypes, ThreadsCurrent
<1> QED
  BY <1>3, <1>5, <1>6, <1>7, <1>8 DEF EntryInv

-----------------------------------------------------------------------------
\* Through boot, traps, interrupts and switches of any number of CPUs, the tickets
\* between owner and next are those of the CPUs that hold or await the big kernel lock,
\* a CPU in the kernel has the one that owner names, and no CPU is ahead of the stage of
\* boot that the primary has reached.
THEOREM EntryInductive == EntrySpec => []EntryInv
<1> USE Widths
<1>1. EntryInit => EntryInv
  <2> SUFFICES ASSUME EntryInit PROVE EntryInv
    OBVIOUS
  <2>1. EntryTypes
    <3>1. bootFlag \in [CPUs -> BOOLEAN] /\ cpuStatus \in [CPUs -> BOOLEAN]
      BY Zenon DEF EntryInit
    <3>2. bssCleared \in BOOLEAN
      BY Zenon DEF EntryInit
    <3>3. booting \in 0..N /\ owner \in 0..(W - 1) /\ next \in 0..(W - 1)
      BY DEF EntryInit
    <3>4. ticket \in [CPUs -> 0..(W - 1)]
      BY DEF EntryInit
    <3>5. mode \in [CPUs -> Modes] /\ current \in [CPUs -> {"none", "user", "idle"}]
      BY DEF EntryInit, Modes
    <3> QED
      BY <3>1, <3>2, <3>3, <3>4, <3>5, Zenon DEF EntryTypes
  <2>2. InLine = {} /\ QueueLength = 0
    BY DEF EntryInit, InLine, InKernel, QueueLength, Distance
  <2>3. \A t \in 0..(W - 1) : Distance(t) \in Nat
    BY <2>1, TurnType
  <2>4. Turns
    BY <2>2, <2>3 DEF Turns, TurnsIssued, TurnsUnique, TurnsHeld
  <2>5. \A c \in CPUs \ {0} : ~bootFlag[c]
    BY Zenon DEF EntryInit
  <2>6. UnlocksItsOwnLock /\ BootOrder /\ ThreadsCurrent
    BY <2>5 DEF EntryInit, UnlocksItsOwnLock, InKernel, BootOrder, ThreadsCurrent
  <2> QED
    BY <2>1, <2>4, <2>6 DEF EntryInv
<1>2. EntryInv /\ [EntryNext]_entryVars => EntryInv'
  <2> SUFFICES ASSUME EntryInv, [EntryNext]_entryVars PROVE EntryInv'
    OBVIOUS
  <2>1. CASE Primary
    BY <2>1, PrimaryKeeps
  <2>2. ASSUME NEW c \in CPUs, BootNext(c) PROVE EntryInv'
    BY <2>2, BootKeeps
  <2>3. ASSUME NEW c \in CPUs, Entry(c) PROVE EntryInv'
    BY <2>3, LockKernelKeeps, LockAcquiredKeeps DEF Entry
  <2>4. ASSUME NEW c \in CPUs, Exit(c) PROVE EntryInv'
    BY <2>4, ExceptionReturnKeeps, QuietKeeps DEF Exit
  <2>5. ASSUME NEW c \in CPUs, Sched(c) \/ TrapFromUser(c) \/ IrqFromIdle(c)
        PROVE  EntryInv'
    BY <2>5, QuietKeeps
  <2>6. CASE UNCHANGED entryVars
    BY <2>6 DEF entryVars, boot, bkl, EntryInv, EntryTypes, Turns, TurnsIssued, TurnsUnique,
       TurnsHeld, QueueLength, Distance, InLine, UnlocksItsOwnLock, BootOrder,
       ThreadsCurrent
  <2> QED
    BY <2>1, <2>2, <2>3, <2>4, <2>5, <2>6 DEF EntryNext
<1> QED
  BY <1>1, <1>2, PTL DEF EntrySpec

\* Two CPUs are never at kernel data at once, whichever vectors they came through, for
\* any number of CPUs: each would have the ticket that owner names.
THEOREM KernelExclusion == EntrySpec => []KernelExclusive
<1>1. EntryInv => KernelExclusive
  BY DEF EntryInv, Turns, TurnsUnique, InLine, UnlocksItsOwnLock, KernelExclusive
<1> QED
  BY <1>1, EntryInductive, PTL

\* Every exception_return releases the lock that its own path acquired.
THEOREM OwnUnlock == EntrySpec => []UnlocksItsOwnLock
<1>1. EntryInv => UnlocksItsOwnLock
  BY DEF EntryInv
<1> QED
  BY <1>1, EntryInductive, PTL

\* No CPU is in the kernel, or past it, before the primary has finished
\* enable_smp_cores() and every CPU has reported cpu_run.
THEOREM BootIsOrdered == EntrySpec => []BootBeforeKernel
<1>1. EntryInv => BootBeforeKernel
  <2> SUFFICES ASSUME EntryInv, NEW c \in CPUs \ {0},
                      mode[c] \in InKernel \cup {"leaving", "idle", "user"}
               PROVE  /\ booting = N
                      /\ \A d \in CPUs : cpuStatus[d]
                      /\ mode[0] \notin {"reset", "init", "enable"}
    BY DEF BootBeforeKernel
  <2>1. mode[0] \notin {"reset", "init", "enable"}
    BY DEF EntryInv, BootOrder, InKernel
  <2>2. booting = N
    BY <2>1 DEF EntryInv, BootOrder
  <2>3. \A d \in CPUs : d < N
    BY WidthAssumption DEF CPUs
  <2> QED
    BY <2>1, <2>2, <2>3 DEF EntryInv, BootOrder
<1> QED
  BY <1>1, EntryInductive, PTL
=============================================================================
