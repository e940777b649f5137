---------------------------- MODULE ThreadProofs ----------------------------
(***************************************************************************)
(* The scheduler and synchronous IPC, proved for every number of CPUs,     *)
(* threads and connections.                                                *)
(*                                                                         *)
(* First the scheduler: under ArgumentsValid the ready queues, the thread  *)
(* states and current_threads stay consistent, and no assertion on its     *)
(* path fails.  Consistent states what its three invariants say of given   *)
(* queues, states, cpuids and current threads.  The lemmas show that each  *)
(* part of rr_sched() maps consistent values to consistent values; an      *)
(* entry chains them.                                                      *)
(*                                                                         *)
(* Then IPC: no thread gets lost between a call and its return, and of the *)
(* threads that share a scheduling context one can run.  A caller that     *)
(* waits and a shadow between two calls are in no ready queue and on no    *)
(* CPU, so that the scheduler may take them for threads that do not exist  *)
(* (Masked): the lemmas about it then hold of its part of every step.      *)
(* What they do not know is how the threads that are hidden hang together: *)
(* in chains of calls, each from a thread with a context of its own to the *)
(* one callee that can run.                                                *)
(***************************************************************************)
EXTENDS IPC, SequenceTheorems, FiniteSetTheorems, TLAPS

\* The shapes of the four values.
Typed(q, s, cpu, cur) ==
    /\ q \in [CPUs -> Seq(Threads)]
    /\ s \in [All -> States]
    /\ cpu \in [All -> CPUs]
    /\ cur \in [CPUs -> All \cup {NoThread}]

\* What QueuesExact says.
QueuesFit(q, s, cpu) ==
    \A c, d \in CPUs : \A i \in 1..Len(q[c]), j \in 1..Len(q[d]) :
        /\ s[q[c][i]] = "READY" /\ cpu[q[c][i]] = c
        /\ q[c][i] = q[d][j] => c = d /\ i = j

\* What NoLostThread says.
ThreadsFit(q, s, cpu, cur) ==
    \A t \in Threads :
        \/ s[t] = "FREE"
        \/ /\ s[t] = "READY"
           /\ \E c \in CPUs : \E i \in 1..Len(q[c]) : q[c][i] = t
        \/ /\ s[t] = "RUNNING"
           /\ \E c \in CPUs : cur[c] = t /\ cpu[t] = c

\* What CurrentExact says.
CurrentFits(s, cur) ==
    \A c \in CPUs : \/ cur[c] \in {NoThread, c}
                    \/ /\ cur[c] \in Threads
                       /\ s[cur[c]] = "RUNNING"
                       /\ \A d \in CPUs : cur[d] = cur[c] => d = c

Consistent(q, s, cpu, cur) ==
    /\ Typed(q, s, cpu, cur)
    /\ QueuesFit(q, s, cpu)
    /\ ThreadsFit(q, s, cpu, cur)
    /\ CurrentFits(s, cur)

\* The current threads once t is off its CPU.
Without(cur, t) == [d \in CPUs |-> IF cur[d] = t THEN NoThread ELSE cur[d]]

-----------------------------------------------------------------------------
\* rr_sched_enqueue() of a thread that is not READY, from a CPU or newly made.
LEMMA Enqueued ==
  ASSUME NEW q, NEW s, NEW cpu, NEW cur, Consistent(q, s, cpu, cur),
         NEW t \in Threads, s[t] # "READY", NEW k \in CPUs
  PROVE  Consistent(Enqueue(q, k, t), [s EXCEPT ![t] = "READY"],
                    [cpu EXCEPT ![t] = k], Without(cur, t))
<1> DEFINE q2 == Enqueue(q, k, t)
           s2 == [s EXCEPT ![t] = "READY"]
           cpu2 == [cpu EXCEPT ![t] = k]
           cur2 == Without(cur, t)
<1>1. /\ Typed(q, s, cpu, cur) /\ QueuesFit(q, s, cpu)
      /\ ThreadsFit(q, s, cpu, cur) /\ CurrentFits(s, cur)
  BY DEF Consistent
<1>2. q[k] \in Seq(Threads) /\ t \in All /\ "READY" \in States
  BY <1>1 DEF Typed, All, States
<1>3. /\ Append(q[k], t) \in Seq(Threads)
      /\ Len(Append(q[k], t)) = Len(q[k]) + 1
      /\ \A i \in 1..Len(q[k]) : Append(q[k], t)[i] = q[k][i]
      /\ Append(q[k], t)[Len(q[k]) + 1] = t
  BY <1>2, AppendProperties
<1>4. \A c \in CPUs : q2[c] = IF c = k THEN Append(q[k], t) ELSE q[c]
  BY <1>1 DEF Typed, Enqueue
<1>5. \A c \in CPUs : Len(q[c]) \in Nat /\ \A i \in 1..Len(q[c]) : q[c][i] \in Threads
  BY <1>1, LenProperties, ElementOfSeq DEF Typed
<1>6. Len(q2[k]) = Len(q[k]) + 1 /\ q2[k][Len(q[k]) + 1] = t
  BY <1>3, <1>4
<1>7. Len(q[k]) + 1 \in 1..Len(q2[k])
  BY <1>5, <1>6
<1>8. ASSUME NEW c \in CPUs, NEW i \in 1..Len(q[c])
       PROVE  i \in 1..Len(q2[c]) /\ q2[c][i] = q[c][i]
  <2>1. CASE c = k
    <3>1. i \in 1..Len(q[k]) /\ Len(q[k]) \in Nat
      BY <2>1, <1>5
    <3>2. i \in 1..(Len(q[k]) + 1)
      BY <3>1
    <3> QED
      BY <2>1, <3>1, <3>2, <1>3, <1>4
  <2>2. CASE c # k
    BY <2>2, <1>4
  <2> QED
    BY <2>1, <2>2
<1>9. /\ \A u \in All : s2[u] = IF u = t THEN "READY" ELSE s[u]
      /\ \A u \in All : cpu2[u] = IF u = t THEN k ELSE cpu[u]
  BY <1>1, <1>2 DEF Typed
<1>10. Typed(q2, s2, cpu2, cur2)
  BY <1>1, <1>2, <1>3 DEF Typed, Enqueue, Without
<1>11. \* Every place of a queue is an old one or the new end of queue k.
      \A c \in CPUs : \A i \in 1..Len(q2[c]) :
        \/ i \in 1..Len(q[c]) /\ q2[c][i] = q[c][i] /\ q[c][i] # t
        \/ c = k /\ i = Len(q[k]) + 1 /\ q2[c][i] = t
  <2> SUFFICES ASSUME NEW c \in CPUs, NEW i \in 1..Len(q2[c])
               PROVE  \/ i \in 1..Len(q[c]) /\ q2[c][i] = q[c][i] /\ q[c][i] # t
                      \/ c = k /\ i = Len(q[k]) + 1 /\ q2[c][i] = t
    OBVIOUS
  <2>1. CASE i \in 1..Len(q[c])
    <3>1. q2[c][i] = q[c][i]
      BY <2>1, <1>8
    <3>2. s[q[c][i]] = "READY"
      BY <2>1, <1>1 DEF QueuesFit
    <3> QED
      BY <2>1, <3>1, <3>2
  <2>2. CASE i \notin 1..Len(q[c])
    <3>1. c = k
      BY <2>2, <1>4
    <3>2. i = Len(q[k]) + 1
      <4>1. i \in 1..(Len(q[k]) + 1) /\ i \notin 1..Len(q[k])
        BY <2>2, <3>1, <1>3, <1>4
      <4> HIDE DEF q2
      <4> QED
        BY <4>1, <1>5
    <3> QED
      BY <3>1, <3>2, <1>3, <1>4
  <2> QED
    BY <2>1, <2>2
<1>12. QueuesFit(q2, s2, cpu2)
  <2> SUFFICES ASSUME NEW c \in CPUs, NEW d \in CPUs,
                      NEW i \in 1..Len(q2[c]), NEW j \in 1..Len(q2[d])
               PROVE  /\ s2[q2[c][i]] = "READY" /\ cpu2[q2[c][i]] = c
                      /\ q2[c][i] = q2[d][j] => c = d /\ i = j
    BY DEF QueuesFit
  <2>1. s2[q2[c][i]] = "READY" /\ cpu2[q2[c][i]] = c
    <3>1. CASE i \in 1..Len(q[c]) /\ q2[c][i] = q[c][i] /\ q[c][i] # t
      <4>1. s[q[c][i]] = "READY" /\ cpu[q[c][i]] = c /\ q[c][i] \in All
        BY <3>1, <1>1, <1>5 DEF QueuesFit, All
      <4> QED
        BY <3>1, <4>1, <1>9
    <3>2. CASE c = k /\ i = Len(q[k]) + 1 /\ q2[c][i] = t
      BY <3>2, <1>2, <1>9
    <3> QED
      BY <3>1, <3>2, <1>11
  <2>2. ASSUME q2[c][i] = q2[d][j] PROVE c = d /\ i = j
    BY <2>2, <1>1, <1>11 DEF QueuesFit
  <2> QED
    BY <2>1, <2>2
<1>13. ThreadsFit(q2, s2, cpu2, cur2)
  <2> SUFFICES ASSUME NEW u \in Threads
               PROVE  \/ s2[u] = "FREE"
                      \/ /\ s2[u] = "READY"
                         /\ \E c \in CPUs : \E i \in 1..Len(q2[c]) : q2[c][i] = u
                      \/ /\ s2[u] = "RUNNING"
                         /\ \E c \in CPUs : cur2[c] = u /\ cpu2[u] = c
    BY DEF ThreadsFit
  <2>0. u \in All
    BY DEF All
  <2>1. CASE u = t
    <3>1. Len(q[k]) + 1 \in 1..Len(q2[k]) /\ q2[k][Len(q[k]) + 1] = t
      BY <1>6, <1>7
    <3> QED
      BY <2>0, <2>1, <3>1, <1>9
  <2>2. CASE u # t
    <3>1. s2[u] = s[u] /\ cpu2[u] = cpu[u]
      BY <2>0, <2>2, <1>9
    <3>2. CASE \E c \in CPUs : \E i \in 1..Len(q[c]) : q[c][i] = u
      <4>1. PICK c \in CPUs : \E i \in 1..Len(q[c]) : q[c][i] = u
        BY <3>2
      <4>2. PICK i \in 1..Len(q[c]) : q[c][i] = u
        BY <4>1
      <4>3. i \in 1..Len(q2[c]) /\ q2[c][i] = u
        BY <4>2, <1>8
      <4>4. s[u] = "READY"
        BY <4>2, <1>1 DEF QueuesFit
      <4> QED
        BY <3>1, <4>3, <4>4
    <3>3. CASE \E c \in CPUs : cur[c] = u /\ cpu[u] = c
      <4>1. \E c \in CPUs : cur2[c] = u /\ cpu2[u] = c
        BY <2>2, <3>1, <3>3 DEF Without
      <4> QED
        BY <3>1, <3>2, <4>1, <1>1 DEF ThreadsFit
    <3> QED
      BY <3>1, <3>2, <3>3, <1>1 DEF ThreadsFit
  <2> QED
    BY <2>1, <2>2
<1>14. CurrentFits(s2, cur2)
  <2> SUFFICES ASSUME NEW c \in CPUs, cur2[c] \notin {NoThread, c}
               PROVE  /\ cur2[c] \in Threads /\ s2[cur2[c]] = "RUNNING"
                      /\ \A d \in CPUs : cur2[d] = cur2[c] => d = c
    BY DEF CurrentFits
  <2>1. cur2[c] = cur[c] /\ cur[c] # t
    BY DEF Without
  <2>2. /\ cur[c] \in Threads /\ s[cur[c]] = "RUNNING"
        /\ \A d \in CPUs : cur[d] = cur[c] => d = c
    BY <2>1, <1>1 DEF CurrentFits
  <2>3. s2[cur[c]] = "RUNNING"
    BY <2>1, <2>2, <1>9 DEF All
  <2>4. \A d \in CPUs : cur2[d] = cur2[c] => cur[d] = cur[c]
    BY <2>1 DEF Without
  <2> QED
    BY <2>1, <2>2, <2>3, <2>4
<1> QED
  BY <1>10, <1>12, <1>13, <1>14 DEF Consistent
-----------------------------------------------------------------------------
\* sys_exit() of a running thread: it leaves its CPU and is released.
LEMMA Released ==
  ASSUME NEW q, NEW s, NEW cpu, NEW cur, Consistent(q, s, cpu, cur),
         NEW t \in Threads, s[t] = "RUNNING"
  PROVE  Consistent(q, [s EXCEPT ![t] = "FREE"], cpu, Without(cur, t))
<1> DEFINE s2 == [s EXCEPT ![t] = "FREE"]
           cur2 == Without(cur, t)
<1>1. /\ Typed(q, s, cpu, cur) /\ QueuesFit(q, s, cpu)
      /\ ThreadsFit(q, s, cpu, cur) /\ CurrentFits(s, cur)
  BY DEF Consistent
<1>2. \A u \in All : s2[u] = IF u = t THEN "FREE" ELSE s[u]
  BY <1>1 DEF Typed
<1>3. \A d \in CPUs : \A i \in 1..Len(q[d]) : q[d][i] \in All /\ q[d][i] # t
  <2> SUFFICES ASSUME NEW d \in CPUs, NEW i \in 1..Len(q[d])
               PROVE  q[d][i] \in All /\ q[d][i] # t
    OBVIOUS
  <2>1. q[d][i] \in Threads
    BY <1>1, ElementOfSeq DEF Typed
  <2>2. s[q[d][i]] = "READY"
    BY <1>1 DEF QueuesFit
  <2> QED
    BY <2>1, <2>2 DEF All
<1>4. Typed(q, s2, cpu, cur2)
  BY <1>1 DEF Typed, Without, States
<1>5. QueuesFit(q, s2, cpu)
  <2>1. \A d \in CPUs : \A i \in 1..Len(q[d]) : s2[q[d][i]] = s[q[d][i]]
    BY <1>2, <1>3
  <2> HIDE DEF s2
  <2> QED
    BY <2>1, <1>1 DEF QueuesFit
<1>6. ThreadsFit(q, s2, cpu, cur2)
  <2> SUFFICES ASSUME NEW u \in Threads
               PROVE  \/ s2[u] = "FREE"
                      \/ /\ s2[u] = "READY"
                         /\ \E d \in CPUs : \E i \in 1..Len(q[d]) : q[d][i] = u
                      \/ /\ s2[u] = "RUNNING"
                         /\ \E d \in CPUs : cur2[d] = u /\ cpu[u] = d
    BY DEF ThreadsFit
  <2>1. CASE u = t
    BY <2>1, <1>2 DEF All
  <2>2. CASE u # t
    <3>1. s2[u] = s[u]
      BY <2>2, <1>2 DEF All
    <3>2. \A d \in CPUs : cur[d] = u => cur2[d] = u
      BY <2>2 DEF Without
    <3> QED
      BY <3>1, <3>2, <1>1 DEF ThreadsFit
  <2> QED
    BY <2>1, <2>2
<1>7. CurrentFits(s2, cur2)
  <2> SUFFICES ASSUME NEW d \in CPUs, cur2[d] \notin {NoThread, d}
               PROVE  /\ cur2[d] \in Threads /\ s2[cur2[d]] = "RUNNING"
                      /\ \A e \in CPUs : cur2[e] = cur2[d] => e = d
    BY DEF CurrentFits
  <2>1. cur2[d] = cur[d] /\ cur[d] # t
    BY DEF Without
  <2>2. /\ cur[d] \in Threads /\ s[cur[d]] = "RUNNING"
        /\ \A e \in CPUs : cur[e] = cur[d] => e = d
    BY <2>1, <1>1 DEF CurrentFits
  <2>3. s2[cur[d]] = "RUNNING"
    BY <2>1, <2>2, <1>2 DEF All
  <2>4. \A e \in CPUs : cur2[e] = cur2[d] => cur[e] = cur[d]
    BY <2>1 DEF Without
  <2> QED
    BY <2>1, <2>2, <2>3, <2>4
<1> QED
  BY <1>4, <1>5, <1>6, <1>7 DEF Consistent

\* rr_sched_enqueue() does nothing for an idle thread: only its CPU lets go of it.
LEMMA IdleLeft ==
  ASSUME NEW q, NEW s, NEW cpu, NEW cur, Consistent(q, s, cpu, cur),
         NEW c \in CPUs
  PROVE  Consistent(q, s, cpu, Without(cur, c))
<1> DEFINE cur2 == Without(cur, c)
<1>1. /\ Typed(q, s, cpu, cur) /\ QueuesFit(q, s, cpu)
      /\ ThreadsFit(q, s, cpu, cur) /\ CurrentFits(s, cur)
  BY DEF Consistent
<1>2. Typed(q, s, cpu, cur2)
  BY <1>1 DEF Typed, Without
<1>3. ThreadsFit(q, s, cpu, cur2)
  <2>1. \A t \in Threads, d \in CPUs : cur[d] = t => cur2[d] = t
    BY SchedAssumption DEF Without
  <2> QED
    BY <2>1, <1>1 DEF ThreadsFit
<1>4. CurrentFits(s, cur2)
  <2>1. \A d \in CPUs : cur2[d] # NoThread => cur2[d] = cur[d]
    BY DEF Without
  <2> QED
    BY <2>1, <1>1, SchedAssumption DEF CurrentFits
<1> QED
  BY <1>1, <1>2, <1>3, <1>4 DEF Consistent

\* switch_to_thread() of the idle thread of a CPU that runs nothing.
LEMMA IdleDispatched ==
  ASSUME NEW q, NEW s, NEW cpu, NEW cur, Consistent(q, s, cpu, cur),
         NEW c \in CPUs, cur[c] = NoThread
  PROVE  Consistent(q, [s EXCEPT ![c] = "RUNNING"], [cpu EXCEPT ![c] = c],
                    [cur EXCEPT ![c] = c])
<1> DEFINE s2 == [s EXCEPT ![c] = "RUNNING"]
           cpu2 == [cpu EXCEPT ![c] = c]
           cur2 == [cur EXCEPT ![c] = c]
<1>1. /\ Typed(q, s, cpu, cur) /\ QueuesFit(q, s, cpu)
      /\ ThreadsFit(q, s, cpu, cur) /\ CurrentFits(s, cur)
  BY DEF Consistent
<1>2. \A u \in Threads : u # c /\ s2[u] = s[u] /\ cpu2[u] = cpu[u]
  BY <1>1, SchedAssumption DEF Typed
<1>3. \A d \in CPUs : cur2[d] = IF d = c THEN c ELSE cur[d]
  BY <1>1 DEF Typed
<1>4. \A d \in CPUs : \A i \in 1..Len(q[d]) : q[d][i] \in Threads
  BY <1>1, ElementOfSeq DEF Typed
<1>5. Typed(q, s2, cpu2, cur2)
  BY <1>1 DEF Typed, All, States
<1>6. QueuesFit(q, s2, cpu2)
  <2> HIDE DEF s2, cpu2
  <2> QED
    BY <1>1, <1>2, <1>4 DEF QueuesFit
<1>7. ThreadsFit(q, s2, cpu2, cur2)
  <2>1. \A u \in Threads, d \in CPUs : cur[d] = u => cur2[d] = u
    BY <1>3, SchedAssumption
  <2> HIDE DEF s2, cpu2, cur2
  <2> QED
    BY <2>1, <1>1, <1>2 DEF ThreadsFit
<1>8. CurrentFits(s2, cur2)
  <2> HIDE DEF s2, cur2
  <2> SUFFICES ASSUME NEW d \in CPUs, cur2[d] \notin {NoThread, d}
               PROVE  /\ cur2[d] \in Threads /\ s2[cur2[d]] = "RUNNING"
                      /\ \A e \in CPUs : cur2[e] = cur2[d] => e = d
    BY DEF CurrentFits
  <2>1. d # c /\ cur2[d] = cur[d]
    BY <1>3
  <2>2. /\ cur[d] \in Threads /\ s[cur[d]] = "RUNNING"
        /\ \A e \in CPUs : cur[e] = cur[d] => e = d
    BY <2>1, <1>1 DEF CurrentFits
  <2>3. cur2[c] # cur2[d]
    BY <2>1, <2>2, <1>2, <1>3
  <2> QED
    BY <2>1, <2>2, <2>3, <1>2, <1>3
<1> QED
  BY <1>5, <1>6, <1>7, <1>8 DEF Consistent

\* rr_sched_choose_thread() and switch_to_thread() of the head of queue c.
LEMMA HeadDispatched ==
  ASSUME NEW q, NEW s, NEW cpu, NEW cur, Consistent(q, s, cpu, cur),
         NEW c \in CPUs, cur[c] = NoThread, q[c] # <<>>,
         NEW t, t = Head(q[c])
  PROVE  /\ t \in Threads /\ s[t] = "READY"
         /\ Consistent([q EXCEPT ![c] = Tail(@)], [s EXCEPT ![t] = "RUNNING"],
                       [cpu EXCEPT ![t] = c], [cur EXCEPT ![c] = t])
<1> DEFINE q2 == [q EXCEPT ![c] = Tail(@)]
           s2 == [s EXCEPT ![t] = "RUNNING"]
           cpu2 == [cpu EXCEPT ![t] = c]
           cur2 == [cur EXCEPT ![c] = t]
           Place(d, i) == IF d = c THEN i + 1 ELSE i
<1>1. /\ Typed(q, s, cpu, cur) /\ QueuesFit(q, s, cpu)
      /\ ThreadsFit(q, s, cpu, cur) /\ CurrentFits(s, cur)
  BY DEF Consistent
<1>2. q[c] \in Seq(Threads)
  BY <1>1 DEF Typed
<1>3. /\ t \in Threads /\ Tail(q[c]) \in Seq(Threads)
      /\ Len(Tail(q[c])) = Len(q[c]) - 1
      /\ \A i \in 1..Len(Tail(q[c])) : Tail(q[c])[i] = q[c][i + 1]
      /\ Len(q[c]) \in Nat \ {0}
  BY <1>2, HeadTailProperties, EmptySeq
<1>4. t = q[c][1] /\ 1 \in 1..Len(q[c])
  BY <1>2, <1>3
<1>5. s[t] = "READY" /\ cpu[t] = c
  BY <1>1, <1>4 DEF QueuesFit
<1>6. \A d \in CPUs : q2[d] = IF d = c THEN Tail(q[c]) ELSE q[d]
  BY <1>1 DEF Typed
<1>7. \A d \in CPUs : cur2[d] = IF d = c THEN t ELSE cur[d]
  BY <1>1 DEF Typed
<1>8. /\ \A u \in All : s2[u] = IF u = t THEN "RUNNING" ELSE s[u]
      /\ \A u \in All : cpu2[u] = IF u = t THEN c ELSE cpu[u]
  BY <1>1, <1>3 DEF Typed, All
<1>9. Typed(q2, s2, cpu2, cur2)
  BY <1>1, <1>3 DEF Typed, All, States
<1>10. \* Every place of a queue is an old one, moved up by one in queue c.
       \A d \in CPUs : \A i \in 1..Len(q2[d]) :
          /\ Place(d, i) \in 1..Len(q[d])
          /\ q2[d][i] = q[d][Place(d, i)] /\ q[d][Place(d, i)] # t
  <2> SUFFICES ASSUME NEW d \in CPUs, NEW i \in 1..Len(q2[d])
               PROVE  /\ Place(d, i) \in 1..Len(q[d])
                      /\ q2[d][i] = q[d][Place(d, i)] /\ q[d][Place(d, i)] # t
    OBVIOUS
  <2>1. CASE d = c
    <3>1. i \in 1..(Len(q[c]) - 1) /\ q2[d][i] = q[c][i + 1]
      BY <2>1, <1>3, <1>6
    <3>2. i + 1 \in 1..Len(q[c]) /\ i + 1 # 1
      BY <3>1, <1>3
    <3>3. q[c][i + 1] # t
      BY <3>2, <1>1, <1>4 DEF QueuesFit
    <3> QED
      BY <2>1, <3>1, <3>2, <3>3
  <2>2. CASE d # c
    <3>1. i \in 1..Len(q[d]) /\ q2[d][i] = q[d][i]
      BY <2>2, <1>6
    <3>2. q[d][i] # t
      BY <2>2, <3>1, <1>1, <1>4 DEF QueuesFit
    <3> QED
      BY <2>2, <3>1, <3>2
  <2> QED
    BY <2>1, <2>2
<1>11. QueuesFit(q2, s2, cpu2)
  <2> SUFFICES ASSUME NEW d \in CPUs, NEW e \in CPUs,
                      NEW i \in 1..Len(q2[d]), NEW j \in 1..Len(q2[e])
               PROVE  /\ s2[q2[d][i]] = "READY" /\ cpu2[q2[d][i]] = d
                      /\ q2[d][i] = q2[e][j] => d = e /\ i = j
    BY DEF QueuesFit
  <2> DEFINE m == Place(d, i)
             n == Place(e, j)
  <2>0. /\ m = IF d = c THEN i + 1 ELSE i
        /\ n = IF e = c THEN j + 1 ELSE j
    OBVIOUS
  <2> HIDE DEF q2, s2, cpu2, Place
  <2>1. m \in 1..Len(q[d]) /\ q2[d][i] = q[d][m] /\ q[d][m] # t
    BY <1>10
  <2>2. n \in 1..Len(q[e]) /\ q2[e][j] = q[e][n] /\ q[e][n] # t
    BY <1>10
  <2> HIDE DEF m, n
  <2>3. /\ s[q[d][m]] = "READY" /\ cpu[q[d][m]] = d
        /\ q[d][m] = q[e][n] => d = e /\ m = n
    BY <1>1, <2>1, <2>2 DEF QueuesFit
  <2>4. q[d][m] \in All
    BY <1>1, <2>1, ElementOfSeq DEF Typed, All
  <2>5. s2[q2[d][i]] = "READY" /\ cpu2[q2[d][i]] = d
    BY <2>1, <2>3, <2>4, <1>8
  <2>6. i \in Int /\ j \in Int
    OBVIOUS
  <2>7. q2[d][i] = q2[e][j] => d = e /\ i = j
    BY <2>0, <2>1, <2>2, <2>3, <2>6
  <2> QED
    BY <2>5, <2>7
<1>12. ThreadsFit(q2, s2, cpu2, cur2)
  <2> SUFFICES ASSUME NEW u \in Threads
               PROVE  \/ s2[u] = "FREE"
                      \/ /\ s2[u] = "READY"
                         /\ \E d \in CPUs : \E i \in 1..Len(q2[d]) : q2[d][i] = u
                      \/ /\ s2[u] = "RUNNING"
                         /\ \E d \in CPUs : cur2[d] = u /\ cpu2[u] = d
    BY DEF ThreadsFit
  <2>0. u \in All
    BY DEF All
  <2>1. CASE u = t
    BY <2>0, <2>1, <1>7, <1>8
  <2>2. CASE u # t
    <3>1. s2[u] = s[u] /\ cpu2[u] = cpu[u]
      BY <2>0, <2>2, <1>8
    <3>2. ASSUME NEW d \in CPUs, NEW i \in 1..Len(q[d]), q[d][i] = u
          PROVE  \E j \in 1..Len(q2[d]) : q2[d][j] = u
      <4>1. CASE d = c
        <5>1. i \in 2..Len(q[c])
          BY <2>2, <3>2, <4>1, <1>4
        <5>2. i - 1 \in 1..(Len(q[c]) - 1) /\ (i - 1) + 1 = i
          BY <5>1, <1>3
        <5>3. i - 1 \in 1..Len(q2[d]) /\ q2[d][i - 1] = q[c][i]
          BY <4>1, <5>2, <1>3, <1>6
        <5> QED
          BY <3>2, <4>1, <5>3
      <4>2. CASE d # c
        BY <3>2, <4>2, <1>6
      <4> QED
        BY <4>1, <4>2
    <3>3. \A d \in CPUs : cur[d] = u => cur2[d] = u
      BY <1>7, SchedAssumption
    <3> HIDE DEF q2, s2, cpu2, cur2
    <3> QED
      BY <3>1, <3>2, <3>3, <1>1 DEF ThreadsFit
  <2> QED
    BY <2>1, <2>2
<1>13. CurrentFits(s2, cur2)
  <2> SUFFICES ASSUME NEW d \in CPUs, cur2[d] \notin {NoThread, d}
               PROVE  /\ cur2[d] \in Threads /\ s2[cur2[d]] = "RUNNING"
                      /\ \A e \in CPUs : cur2[e] = cur2[d] => e = d
    BY DEF CurrentFits
  <2>1. \A e \in CPUs : cur[e] # t
    <3> SUFFICES ASSUME NEW e \in CPUs, cur[e] = t PROVE FALSE
      OBVIOUS
    <3>1. s[t] = "RUNNING"
      BY <1>1, <1>3, SchedAssumption DEF CurrentFits
    <3> QED
      BY <3>1, <1>5
  <2>2. CASE d = c
    BY <2>1, <2>2, <1>3, <1>7, <1>8 DEF All
  <2>3. CASE d # c
    <3>1. /\ cur[d] \in Threads /\ s[cur[d]] = "RUNNING" /\ cur[d] # t
          /\ \A e \in CPUs : cur[e] = cur[d] => e = d
      BY <2>1, <2>3, <1>1, <1>7 DEF CurrentFits
    <3> QED
      BY <2>3, <3>1, <1>7, <1>8 DEF All
  <2> QED
    BY <2>2, <2>3
<1> QED
  BY <1>3, <1>5, <1>9, <1>11, <1>12, <1>13 DEF Consistent
-----------------------------------------------------------------------------
\* rr_sched_choose_thread() and switch_to_thread() on a CPU that runs nothing:
\* the chosen thread can be dequeued, so rr_sched() does not fail.
LEMMA Dispatched ==
  ASSUME NEW q, NEW s, NEW cpu, NEW cur, Consistent(q, s, cpu, cur),
         NEW c \in CPUs, cur[c] = NoThread,
         NEW t, t = Choose(c, q)
  PROVE  /\ t \in All /\ (t \in Threads => s[t] = "READY")
         /\ Consistent(Dequeue(q, c, t), [s EXCEPT ![t] = "RUNNING"],
                       [cpu EXCEPT ![t] = c], [cur EXCEPT ![c] = t])
<1>1. CASE q[c] = <<>>
  <2>1. t = c /\ t \notin Threads
    BY <1>1, SchedAssumption DEF Choose
  <2>2. Dequeue(q, c, t) = q
    BY <2>1 DEF Dequeue
  <2> QED
    BY <2>1, <2>2, IdleDispatched DEF All
<1>2. CASE q[c] # <<>>
  <2>1. t = Head(q[c])
    BY <1>2 DEF Choose
  <2>2. t \in Threads /\ s[t] = "READY"
    BY <1>2, <2>1, HeadDispatched
  <2>3. Dequeue(q, c, t) = [q EXCEPT ![c] = Tail(@)]
    BY <2>2 DEF Dequeue
  <2> QED
    BY <1>2, <2>1, <2>2, <2>3, HeadDispatched DEF All
<1> QED
  BY <1>1, <1>2
-----------------------------------------------------------------------------
\* The states with the threads of off taken for released ones.  Of the threads
\* that IPC keeps away from the ready queues and from every CPU (below) the
\* scheduler sees no more than of those.
Masked(s, off) == [t \in All |-> IF t \in off THEN "FREE" ELSE s[t]]

\* The scheduler leaves the threads of off as they are, and makes no other appear,
\* disappear, or wait for anything but a CPU.
StatesKept(s, s2, off) ==
    \A t \in Threads : /\ t \in off => s2[t] = s[t]
                       /\ t \notin off => (s2[t] = "FREE" <=> s[t] = "FREE")
                       /\ s2[t] # s[t] => s2[t] \in {"READY", "RUNNING"}

\* The second half of rr_sched().
LEMMA SwitchKeeps ==
  ASSUME current \in [CPUs -> All \cup {NoThread}], ~hung,
         NEW c \in CPUs, NEW STATE th,
         NEW STATE q, NEW STATE s, NEW STATE cpu, NEW STATE bud,
         NEW STATE off, off \subseteq Threads, s \in [All -> States],
         Consistent(q, Masked(s, off), cpu, [current EXCEPT ![c] = NoThread]),
         Switch(c, th, q, s, cpu, bud)
  PROVE  /\ Consistent(queue', Masked(state', off), cpuid', current')
         /\ state' \in [All -> States] /\ StatesKept(s, state', off)
         /\ bud \in [All -> 0..DefaultBudget] => budget' \in [All -> 0..DefaultBudget]
         /\ hung' = hung
<1> DEFINE cur == [current EXCEPT ![c] = NoThread]
           t == Choose(c, q)
           m == Masked(s, off)
<1>1. cur[c] = NoThread
  OBVIOUS
<1>2. /\ t \in All /\ (t \in Threads => m[t] = "READY")
      /\ Consistent(Dequeue(q, c, t), [m EXCEPT ![t] = "RUNNING"],
                    [cpu EXCEPT ![t] = c], [cur EXCEPT ![c] = t])
  <2>1. Consistent(q, m, cpu, cur) /\ t = Choose(c, q)
    OBVIOUS
  <2> HIDE DEF cur, t, m
  <2> QED
    BY <1>1, <2>1, Dispatched
<1>3. t \notin off /\ (t \in Threads => s[t] = "READY")
  <2>1. CASE t \in Threads
    BY <1>2, <2>1 DEF Masked
  <2>2. CASE t \notin Threads
    BY <2>2
  <2> QED
    BY <2>1, <2>2
<1>4. [cur EXCEPT ![c] = t] = [current EXCEPT ![c] = t]
  OBVIOUS
<1>5. /\ current' = [current EXCEPT ![c] = t]
      /\ queue' = Dequeue(q, c, t)
      /\ state' = [s EXCEPT ![t] = "RUNNING"]
      /\ cpuid' = [cpu EXCEPT ![t] = c]
      /\ budget' = [bud EXCEPT ![sc[t]] = DefaultBudget]
      /\ hung' = hung
  BY <1>3 DEF Switch
<1> HIDE DEF t
<1>6. [m EXCEPT ![t] = "RUNNING"] = Masked(state', off)
  BY <1>2, <1>3, <1>5 DEF Masked
<1>7. bud \in [All -> 0..DefaultBudget] => budget' \in [All -> 0..DefaultBudget]
  <2>1. DefaultBudget \in 0..DefaultBudget
    BY SchedAssumption
  <2> QED
    BY <1>5, <2>1
<1>8. state' \in [All -> States] /\ StatesKept(s, state', off)
  <2>1. Threads \subseteq All
    BY DEF All
  <2> QED
    BY <1>2, <1>3, <1>5, <2>1 DEF States, StatesKept
<1> HIDE DEF cur, m
<1> QED
  BY <1>2, <1>4, <1>5, <1>6, <1>7, <1>8

\* rr_sched() on CPU c, whose current_thread is th: the one that entered the
\* kernel, or none at boot and after sys_exit().
LEMMA SchedKeeps ==
  ASSUME current \in [CPUs -> All \cup {NoThread}], ~hung, AffinityValid,
         NEW c \in CPUs, NEW STATE th, NEW STATE st, NEW STATE bud,
         NEW STATE off, off \subseteq Threads, st \in [All -> States],
         Consistent(queue, Masked(st, off), cpuid, [current EXCEPT ![c] = th]),
         RRSched(c, th, st, bud)
  PROVE  /\ Consistent(queue', Masked(state', off), cpuid', current')
         /\ state' \in [All -> States] /\ StatesKept(st, state', off)
         /\ bud \in [All -> 0..DefaultBudget] => budget' \in [All -> 0..DefaultBudget]
         /\ hung' = hung
<1> DEFINE cur == [current EXCEPT ![c] = th]
           none == [current EXCEPT ![c] = NoThread]
           m == Masked(st, off)
<1>2. /\ cur \in [CPUs -> All \cup {NoThread}] /\ CurrentFits(m, cur)
      /\ cur[c] = th
  BY DEF Consistent, Typed
<1>3. CASE KeepsCpu(th, bud)
  <2>1. /\ current' = [current EXCEPT ![c] = th] /\ state' = st /\ budget' = bud
        /\ queue' = queue /\ cpuid' = cpuid /\ hung' = hung
    BY <1>3 DEF RRSched
  <2> QED
    BY <2>1 DEF StatesKept
<1>4. \* th is off its CPU
      ASSUME th # NoThread PROVE Without(cur, th) = none
  <2>1. ASSUME NEW d \in CPUs, cur[d] = th PROVE d = c
    <3> HIDE DEF cur, m
    <3>1. CASE th \in Threads
      BY <2>1, <3>1, <1>2, SchedAssumption DEF CurrentFits
    <3>2. CASE th \notin Threads
      BY <2>1, <3>2, <1>2, <1>4 DEF CurrentFits
    <3> QED
      BY <3>1, <3>2
  <2>2. \A d \in CPUs : Without(cur, th)[d] = none[d]
    BY <2>1, <1>2 DEF Without
  <2>3. /\ none \in [CPUs -> All \cup {NoThread}]
        /\ Without(cur, th) \in [CPUs -> All \cup {NoThread}]
    BY <1>2 DEF Without
  <2> QED
    BY <2>2, <2>3
<1>5. CASE ~KeepsCpu(th, bud) /\ th \in Threads
  <2>1. m[th] = "RUNNING" /\ th \in All
    BY <1>2, <1>5, SchedAssumption DEF CurrentFits, All
  <2>2. st[th] = "RUNNING" /\ th \notin off
    BY <2>1 DEF Masked
  <2> DEFINE k == TargetCpu(c, affinity[th])
             ready == [st EXCEPT ![th] = "READY"]
  <2>3. k \in CPUs /\ Accepts(c, affinity[th], st[th])
    BY <1>5, <2>2 DEF AffinityValid, TargetCpu, Accepts
  <2>4. Consistent(Enqueue(queue, k, th), [m EXCEPT ![th] = "READY"],
                   [cpuid EXCEPT ![th] = k], Without(cur, th))
    <3>1. Consistent(queue, m, cpuid, cur)
      OBVIOUS
    <3> HIDE DEF k, cur, m
    <3> QED
      BY <1>5, <2>1, <2>3, <3>1, Enqueued
  <2>5. Without(cur, th) = none
    BY <1>4, <1>5, SchedAssumption
  <2>6. [m EXCEPT ![th] = "READY"] = Masked(ready, off)
    BY <2>1, <2>2 DEF Masked
  <2>7. ready \in [All -> States]
    BY <2>1 DEF States
  <2>8. Switch(c, th, Enqueue(queue, k, th), ready, [cpuid EXCEPT ![th] = k], bud)
    BY <1>5, <2>3 DEF RRSched
  <2>9. /\ Consistent(queue', Masked(state', off), cpuid', current')
        /\ state' \in [All -> States] /\ StatesKept(ready, state', off)
        /\ bud \in [All -> 0..DefaultBudget] => budget' \in [All -> 0..DefaultBudget]
        /\ hung' = hung
    <3> HIDE DEF k, cur, m, none, ready
    <3> QED
      BY <2>4, <2>5, <2>6, <2>7, <2>8, SwitchKeeps DEF none
  <2>10. StatesKept(st, state', off)
    <3>1. \A u \in Threads : ready[u] = IF u = th THEN "READY" ELSE st[u]
      BY DEF All
    <3> HIDE DEF ready
    <3> QED
      BY <2>2, <2>9, <3>1 DEF StatesKept
  <2> QED
    BY <2>9, <2>10
<1>6. CASE ~KeepsCpu(th, bud) /\ th \notin Threads
  <2>1. Consistent(queue, m, cpuid, none)
    <3>1. CASE th = NoThread
      BY <3>1
    <3>2. CASE th # NoThread
      <4>1. th = c
        BY <1>2, <1>6, <3>2 DEF CurrentFits
      <4>2. Consistent(queue, m, cpuid, cur)
        OBVIOUS
      <4>3. Consistent(queue, m, cpuid, Without(cur, c))
        <5> HIDE DEF m, cur
        <5> QED
          BY <4>2, IdleLeft
      <4> QED
        BY <3>2, <4>1, <4>3, <1>4
    <3> QED
      BY <3>1, <3>2
  <2>2. Switch(c, th, queue, st, cpuid, bud)
    BY <1>6 DEF RRSched
  <2> QED
    BY <2>1, <2>2, SwitchKeeps
<1> QED
  BY <1>3, <1>5, <1>6
-----------------------------------------------------------------------------
\* The invariants say that the state is consistent.
LEMMA InvariantsSay ==
  IInv => /\ Consistent(queue, state, cpuid, current)
          /\ budget \in [All -> 0..DefaultBudget] /\ ~hung
          /\ \A t \in Threads : affinity[t] \in CPUs \cup {NoAff}
          /\ affinity \in [All -> Int]
          /\ sc = [t \in All |-> t]
<1> SUFFICES ASSUME IInv
             PROVE  /\ Consistent(queue, state, cpuid, current)
                    /\ budget \in [All -> 0..DefaultBudget] /\ ~hung
                    /\ \A t \in Threads : affinity[t] \in CPUs \cup {NoAff}
                    /\ affinity \in [All -> Int]
                    /\ sc = [t \in All |-> t]
  OBVIOUS
<1>1. Consistent(queue, state, cpuid, current)
  BY DEF IInv, TypeOK, QueuesExact, NoLostThread, CurrentExact,
         Consistent, Typed, QueuesFit, ThreadsFit, CurrentFits
<1>2. sc = [t \in All |-> t]
  BY DEF IInv, TypeOK, OwnContext
<1> QED
  BY <1>1, <1>2 DEF IInv, TypeOK, AffinityValid, NeverHangs

\* What a step has to establish.
LEMMA Establishes ==
  ASSUME Consistent(queue', state', cpuid', current'),
         budget' \in [All -> 0..DefaultBudget], ~hung', hung' \in BOOLEAN,
         \A t \in Threads : affinity'[t] \in CPUs \cup {NoAff},
         affinity' \in [All -> Int], sc' = [t \in All |-> t]
  PROVE  IInv'
<1>1. (QueuesExact /\ NoLostThread /\ CurrentExact)'
  BY DEF QueuesExact, NoLostThread, CurrentExact,
         Consistent, QueuesFit, ThreadsFit, CurrentFits
<1>2. TypeOK'
  BY DEF TypeOK, Consistent, Typed
<1>3. (AffinityValid /\ OwnContext /\ NeverHangs)'
  BY DEF AffinityValid, OwnContext, NeverHangs
<1> QED
  BY <1>1, <1>2, <1>3 DEF IInv

\* The entries that end in sched() and touch no affinity and no context.
LEMMA EntryKeeps ==
  ASSUME IInv, NEW c \in CPUs, NEW STATE th, NEW STATE st, NEW STATE bud,
         Consistent(queue, st, cpuid, [current EXCEPT ![c] = th]),
         bud \in [All -> 0..DefaultBudget],
         RRSched(c, th, st, bud), UNCHANGED <<affinity, sc>>
  PROVE  IInv'
<1>1. /\ current \in [CPUs -> All \cup {NoThread}] /\ ~hung /\ AffinityValid
      /\ hung \in BOOLEAN /\ st \in [All -> States]
  BY DEF IInv, TypeOK, NeverHangs, Consistent, Typed
<1>2. \A s \in [All -> States] : Masked(s, {}) = s
  BY DEF Masked
<1> DEFINE off == {}
<1>3. off \subseteq Threads /\ Consistent(queue, Masked(st, off), cpuid, [current EXCEPT ![c] = th])
  BY <1>1, <1>2
<1>4. /\ Consistent(queue', Masked(state', off), cpuid', current')
      /\ state' \in [All -> States] /\ hung' = hung
      /\ budget' \in [All -> 0..DefaultBudget]
  <2> HIDE DEF off
  <2> QED
    BY <1>1, <1>3, SchedKeeps
<1> QED
  BY <1>1, <1>2, <1>4, InvariantsSay, Establishes

\* Every step of threads and scheduler keeps the invariant.
LEMMA StepKeeps ==
  ASSUME ArgumentsValid, IInv, Next
  PROVE  IInv'
<1>1. /\ Consistent(queue, state, cpuid, current)
      /\ budget \in [All -> 0..DefaultBudget] /\ ~hung
      /\ \A t \in Threads : affinity[t] \in CPUs \cup {NoAff}
      /\ affinity \in [All -> Int]
      /\ sc = [t \in All |-> t]
  BY InvariantsSay
<1>2. /\ current \in [CPUs -> All \cup {NoThread}]
      /\ state \in [All -> States] /\ cpuid \in [All -> CPUs]
      /\ hung \in BOOLEAN
  BY <1>1 DEF Consistent, Typed, IInv, TypeOK
<1>3. \A c \in CPUs : [current EXCEPT ![c] = current[c]] = current
  BY <1>2
<1>4. ASSUME NEW c \in CPUs, FirstSched(c) PROVE IInv'
  <2>1. /\ RRSched(c, NoThread, state, budget) /\ UNCHANGED <<affinity, sc>>
        /\ [current EXCEPT ![c] = NoThread] = current
    BY <1>2, <1>4 DEF FirstSched
  <2> QED
    BY <1>1, <2>1, EntryKeeps
<1>5. ASSUME NEW c \in CPUs, TimerIrq(c) PROVE IInv'
  <2> DEFINE bud == [budget EXCEPT ![sc[current[c]]] = Tick(Tick(@))]
  <2>1. RRSched(c, current[c], state, bud) /\ UNCHANGED <<affinity, sc>>
    BY <1>5 DEF TimerIrq
  <2>2. \A b \in 0..DefaultBudget : Tick(b) \in 0..DefaultBudget
    BY SchedAssumption DEF Tick
  <2>3. bud \in [All -> 0..DefaultBudget]
    BY <1>1, <2>2
  <2> HIDE DEF bud
  <2> QED
    BY <1>1, <1>3, <2>1, <2>3, EntryKeeps
<1>6. ASSUME NEW c \in CPUs, Yield(c) PROVE IInv'
  <2> DEFINE bud == [budget EXCEPT ![sc[current[c]]] = 0]
  <2>1. RRSched(c, current[c], state, bud) /\ UNCHANGED <<affinity, sc>>
    BY <1>6 DEF Yield
  <2>2. 0 \in 0..DefaultBudget
    BY SchedAssumption
  <2>3. bud \in [All -> 0..DefaultBudget]
    BY <1>1, <2>2
  <2> HIDE DEF bud
  <2> QED
    BY <1>1, <1>3, <2>1, <2>3, EntryKeeps
<1>7. ASSUME NEW c \in CPUs, Exit(c) PROVE IInv'
  <2> DEFINE t == current[c]
             st == [state EXCEPT ![t] = "FREE"]
  <2>1. t \in Threads /\ RRSched(c, NoThread, st, budget) /\ UNCHANGED <<affinity, sc>>
    BY <1>7 DEF Exit
  <2>2. state[t] = "RUNNING" /\ \A d \in CPUs : current[d] = t => d = c
    BY <1>1, <2>1, SchedAssumption DEF Consistent, CurrentFits
  <2>3. Consistent(queue, st, cpuid, Without(current, t))
    <3> HIDE DEF t
    <3> QED
      BY <1>1, <2>1, <2>2, Released
  <2>4. Without(current, t) = [current EXCEPT ![c] = NoThread]
    BY <1>2, <2>2 DEF Without
  <2> HIDE DEF t, st
  <2> QED
    BY <1>1, <2>1, <2>3, <2>4, EntryKeeps
<1>8. ASSUME NEW c \in CPUs, NEW t \in Threads, NEW aff \in CreateAffs,
             CreateThread(c, t, aff)
      PROVE  IInv'
  <2> DEFINE k == TargetCpu(c, aff)
  <2>1. k \in CPUs /\ Accepts(c, aff, "INIT") /\ aff \in CPUs \cup {NoAff}
    BY <1>8 DEF ArgumentsValid, TargetCpu, Accepts
  <2>2. /\ state[t] = "FREE" /\ queue' = Enqueue(queue, k, t)
        /\ state' = [state EXCEPT ![t] = "READY"]
        /\ cpuid' = [cpuid EXCEPT ![t] = k]
        /\ hung' = hung /\ current' = current
        /\ affinity' = [affinity EXCEPT ![t] = aff]
        /\ sc' = [sc EXCEPT ![t] = t]
        /\ budget' = [budget EXCEPT ![t] = DefaultBudget]
    BY <1>8, <2>1 DEF CreateThread
  <2>3. Without(current, t) = current
    <3>1. \A d \in CPUs : current[d] # t
      BY <1>1, <2>2, SchedAssumption DEF Consistent, CurrentFits
    <3> QED
      BY <1>2, <3>1 DEF Without
  <2>4. Consistent(queue', state', cpuid', current')
    <3> HIDE DEF k
    <3>1. Consistent(Enqueue(queue, k, t), [state EXCEPT ![t] = "READY"],
                     [cpuid EXCEPT ![t] = k], Without(current, t))
      BY <1>1, <2>1, <2>2, Enqueued
    <3> QED
      BY <2>2, <2>3, <3>1
  <2>5. budget' \in [All -> 0..DefaultBudget]
    <3>1. DefaultBudget \in 0..DefaultBudget
      BY SchedAssumption
    <3> QED
      BY <1>1, <2>2, <3>1
  <2>6. sc' = [u \in All |-> u]
    BY <1>1, <2>2
  <2>7. /\ affinity' \in [All -> Int]
        /\ \A u \in Threads : affinity'[u] \in CPUs \cup {NoAff}
    BY <1>1, <2>1, <2>2, SchedAssumption DEF All
  <2> QED
    BY <1>1, <1>2, <2>2, <2>4, <2>5, <2>6, <2>7, Establishes
<1>9. ASSUME NEW c \in CPUs, NEW t \in Threads, NEW aff \in SetAffs,
             SetAffinity(c, t, aff)
      PROVE  IInv'
  <2>1. /\ affinity' = [affinity EXCEPT ![t] = aff]
        /\ UNCHANGED <<queue, current, state, cpuid, sc, budget, hung>>
        /\ aff \in CPUs \/ aff < 0
    BY <1>9 DEF SetAffinity
  <2>2. aff \in CPUs \cup {NoAff} /\ aff \in Int
    BY <2>1, SchedAssumption DEF ArgumentsValid
  <2>3. /\ affinity' \in [All -> Int]
        /\ \A u \in Threads : affinity'[u] \in CPUs \cup {NoAff}
    BY <1>1, <2>1, <2>2 DEF All
  <2> QED
    BY <1>1, <1>2, <2>1, <2>3, Establishes
<1> QED
  BY <1>4, <1>5, <1>6, <1>7, <1>8, <1>9 DEF Next, Running

\* At boot the root thread is the only one that is ready, on CPU 0.
LEMMA BootEstablishes == Init => IInv
<1> SUFFICES ASSUME Init PROVE IInv
  OBVIOUS
<1>1. /\ Root \in All /\ Root \notin CPUs /\ CPUs \subseteq All
      /\ CPUs \subseteq Int /\ 0 \in CPUs /\ 0 \in Nat
      /\ Root \in Threads /\ NoThread \notin All
  BY SchedAssumption DEF All
<1>2. TypeOK
  <2>1. queue \in [CPUs -> Seq(Threads)]
    BY <1>1 DEF Init
  <2>2. DefaultBudget \in 0..DefaultBudget
    BY SchedAssumption
  <2> QED
    BY <1>1, <2>1, <2>2 DEF Init, TypeOK, States, NoAff
<1>3. AffinityValid /\ OwnContext /\ NeverHangs
  BY <1>1, SchedAssumption DEF Init, AffinityValid, OwnContext, NeverHangs, All
<1>4. \A c \in CPUs : \A i \in 1..Len(queue[c]) : c = 0 /\ i = 1 /\ queue[c][i] = Root
  BY DEF Init
<1>5. QueuesExact
  <2>1. state[Root] = "READY" /\ cpuid[Root] = 0
    BY <1>1 DEF Init
  <2> QED
    BY <1>4, <2>1 DEF QueuesExact
<1>6. NoLostThread
  <2>1. 1 \in 1..Len(queue[0]) /\ queue[0][1] = Root
    BY <1>1 DEF Init
  <2>2. \A t \in Threads : t # Root => state[t] = "FREE"
    BY SchedAssumption DEF Init, All
  <2>3. state[Root] = "READY"
    BY <1>1 DEF Init
  <2> QED
    BY <1>1, <2>1, <2>2, <2>3 DEF NoLostThread
<1>7. CurrentExact
  BY DEF Init, CurrentExact
<1> QED
  BY <1>2, <1>3, <1>5, <1>6, <1>7 DEF IInv

-----------------------------------------------------------------------------
\* The scheduler's structures stay consistent (kernel/sched/policy_rr.c), as
\* long as programs name a CPU or NO_AFF in sys_set_affinity().
THEOREM SchedulerInvariant ==
  ASSUME ArgumentsValid
  PROVE  Spec => []IInv
<1>1. Init => IInv
  BY BootEstablishes
<1>2. IInv /\ [Next]_vars => IInv'
  <2> SUFFICES ASSUME IInv, [Next]_vars PROVE IInv'
    OBVIOUS
  <2>1. CASE Next
    BY <2>1, StepKeeps
  <2>2. CASE UNCHANGED vars
    <3>1. UNCHANGED <<queue, current, state, cpuid, affinity, sc, budget>> /\ hung' = hung
      BY <2>2 DEF vars
    <3> QED
      BY <3>1, InvariantsSay, Establishes DEF IInv, TypeOK
  <2> QED
    BY <2>1, <2>2
<1> QED
  BY <1>1, <1>2, PTL DEF Spec

\* Types: in particular no budget leaves 0..DefaultBudget, although the timer
\* interrupt ticks twice (rr_sched_handle_timer_irq() tests it before it counts).
THEOREM SchedulerTypes ==
  ASSUME ArgumentsValid
  PROVE  Spec => []TypeOK
<1>1. IInv => TypeOK
  BY DEF IInv
<1> QED
  BY <1>1, SchedulerInvariant, PTL

\* A ready_queue_node is on one list, once, and its thread is READY there.
THEOREM QueuesStayExact ==
  ASSUME ArgumentsValid
  PROVE  Spec => []QueuesExact
<1>1. IInv => QueuesExact
  BY DEF IInv
<1> QED
  BY <1>1, SchedulerInvariant, PTL

\* Every thread that exists is ready in a queue or running on a CPU.
THEOREM ThreadsAreKept ==
  ASSUME ArgumentsValid
  PROVE  Spec => []NoLostThread
<1>1. IInv => NoLostThread
  BY DEF IInv
<1> QED
  BY <1>1, SchedulerInvariant, PTL

\* No thread runs on two CPUs.
THEOREM CurrentStaysExact ==
  ASSUME ArgumentsValid
  PROVE  Spec => []CurrentExact
<1>1. IInv => CurrentExact
  BY DEF IInv
<1> QED
  BY <1>1, SchedulerInvariant, PTL

\* The BUG_ON of thread_create() and of switch_context() are never reached.
THEOREM AssertionsHold ==
  ASSUME ArgumentsValid
  PROVE  Spec => []NeverHangs
<1>1. IInv => NeverHangs
  BY DEF IInv
<1> QED
  BY <1>1, SchedulerInvariant, PTL

-----------------------------------------------------------------------------
(* What a step of the scheduler may never do: let a thread overtake another *)
(* one in a ready queue, idle while threads wait, or put a thread on a CPU  *)
(* that its affinity forbids.                                               *)

\* rr_sched_enqueue() only appends.
LEMMA EnqueueAppends ==
  ASSUME NEW q \in [CPUs -> Seq(Threads)], NEW k \in CPUs, NEW t \in Threads,
         NEW d \in CPUs
  PROVE  /\ Enqueue(q, k, t) \in [CPUs -> Seq(Threads)]
         /\ \A i \in 1..Len(q[d]) : i \in 1..Len(Enqueue(q, k, t)[d])
                                    /\ Enqueue(q, k, t)[d][i] = q[d][i]
<1>1. q[k] \in Seq(Threads) /\ q[d] \in Seq(Threads)
  OBVIOUS
<1>2. /\ Append(q[k], t) \in Seq(Threads)
      /\ Len(Append(q[k], t)) = Len(q[k]) + 1
      /\ \A i \in 1..Len(q[k]) : Append(q[k], t)[i] = q[k][i]
  BY <1>1
<1>3. Len(q[k]) \in Nat
  BY <1>1
<1> QED
  BY <1>1, <1>2, <1>3 DEF Enqueue

\* An entry that ends in sched() runs rr_sched() with the CPU's current thread or with
\* none, and before that changes no thread's state but to release it.
LEMMA EntryShape ==
  ASSUME TypeOK, NEW c \in CPUs,
         FirstSched(c) \/ TimerIrq(c) \/ Yield(c) \/ Exit(c)
  PROVE  \E th, st, bud : /\ RRSched(c, th, st, bud)
                          /\ th \in {current[c], NoThread}
                          /\ st \in [All -> States]
                          /\ \A t \in Threads : st[t] \in {state[t], "FREE"}
<1>1. state \in [All -> States] /\ Threads \subseteq All /\ "FREE" \in States
  BY DEF TypeOK, All, States
<1>2. CASE FirstSched(c)
  <2>1. RRSched(c, NoThread, state, budget)
    BY <1>2 DEF FirstSched
  <2> QED
    BY <1>1, <2>1
<1>3. CASE TimerIrq(c)
  <2>1. RRSched(c, current[c], state, [budget EXCEPT ![sc[current[c]]] = Tick(Tick(@))])
    BY <1>3 DEF TimerIrq
  <2> QED
    BY <1>1, <2>1
<1>4. CASE Yield(c)
  <2>1. RRSched(c, current[c], state, [budget EXCEPT ![sc[current[c]]] = 0])
    BY <1>4 DEF Yield
  <2> QED
    BY <1>1, <2>1
<1>5. CASE Exit(c)
  <2> DEFINE st == [state EXCEPT ![current[c]] = "FREE"]
  <2>1. RRSched(c, NoThread, st, budget)
    BY <1>5 DEF Exit
  <2>2. st \in [All -> States] /\ \A t \in Threads : st[t] \in {state[t], "FREE"}
    BY <1>1
  <2> HIDE DEF st
  <2> QED
    BY <2>1, <2>2
<1> QED
  BY <1>2, <1>3, <1>4, <1>5

-----------------------------------------------------------------------------
(* Order of dispatch *)

\* Every thread in a queue is still there, in its place, when the CPU has been switched,
\* but for the head of the own queue, which is current then.
LEMMA SwitchFifo ==
  ASSUME NEW c \in CPUs, NEW STATE th, NEW STATE q, NEW STATE s, NEW STATE cpu,
         NEW STATE bud, q \in [CPUs -> Seq(Threads)], TypeOK,
         \A d \in CPUs : \A i \in 1..Len(queue[d]) :
             i \in 1..Len(q[d]) /\ q[d][i] = queue[d][i],
         Switch(c, th, q, s, cpu, bud)
  PROVE  FifoStep
<1> SUFFICES ASSUME NEW d \in CPUs, NEW i \in 1..Len(queue[d])
             PROVE  \/ \E j \in {i, i - 1} : /\ j \in 1..Len(queue'[d])
                                             /\ queue'[d][j] = queue[d][i]
                    \/ i = 1 /\ current'[d] = queue[d][i]
  BY DEF FifoStep
<1>1. i \in 1..Len(q[d]) /\ q[d][i] = queue[d][i]
  OBVIOUS
<1>2. CASE queue' = q
  BY <1>1, <1>2
<1>3. CASE queue' # q
  <2>1. /\ Choose(c, q) \in Threads
        /\ queue' = [q EXCEPT ![c] = Tail(@)]
        /\ current' = [current EXCEPT ![c] = Choose(c, q)]
    BY <1>3 DEF Switch, Dequeue
  <2>2. Choose(c, q) = Head(q[c]) /\ q[c] # <<>>
    BY <2>1, SchedAssumption DEF Choose
  <2>3. current'[c] = Head(q[c]) /\ queue'[c] = Tail(q[c])
    BY <2>1, <2>2 DEF TypeOK
  <2>4. CASE d # c
    BY <1>1, <2>1, <2>4
  <2>5. CASE d = c /\ i = 1
    <3>1. q[c] \in Seq(Threads) /\ Head(q[c]) = q[c][1]
      BY <2>2
    <3> QED
      BY <1>1, <2>3, <2>5, <3>1
  <2>6. CASE d = c /\ i # 1
    <3>1. q[c] \in Seq(Threads) /\ i \in 1..Len(q[c]) /\ i - 1 \in 1..(Len(q[c]) - 1)
      BY <1>1, <2>6
    <3>2. Len(Tail(q[c])) = Len(q[c]) - 1 /\ Tail(q[c])[i - 1] = q[c][i]
      BY <3>1, <2>2
    <3> QED
      BY <1>1, <2>3, <2>6, <3>1, <3>2
  <2> QED
    BY <2>4, <2>5, <2>6
<1> QED
  BY <1>2, <1>3

\* The same of rr_sched() with whatever thread it takes for the current one.
LEMMA SchedFifo ==
  ASSUME TypeOK, NEW c \in CPUs, NEW STATE th, NEW STATE st, NEW STATE bud,
         RRSched(c, th, st, bud)
  PROVE  FifoStep
<1>1. queue \in [CPUs -> Seq(Threads)]
  BY DEF TypeOK
<1>2. CASE UNCHANGED queue
  BY <1>2 DEF FifoStep
<1> DEFINE k  == TargetCpu(c, affinity[th])
           q2 == Enqueue(queue, k, th)
           s2 == [st EXCEPT ![th] = "READY"]
           cpu2 == [cpuid EXCEPT ![th] = k]
<1>3. ASSUME th \in Threads, Accepts(c, affinity[th], st[th]),
             Switch(c, th, q2, s2, cpu2, bud)
      PROVE  FifoStep
  <2>1. k \in CPUs
    BY <1>3 DEF Accepts
  <2>2. /\ q2 \in [CPUs -> Seq(Threads)]
        /\ \A d \in CPUs : \A i \in 1..Len(queue[d]) :
               i \in 1..Len(q2[d]) /\ q2[d][i] = queue[d][i]
    <3> HIDE DEF k
    <3>1. \A d \in CPUs : /\ q2 \in [CPUs -> Seq(Threads)]
                          /\ \A i \in 1..Len(queue[d]) :
                                i \in 1..Len(q2[d]) /\ q2[d][i] = queue[d][i]
      BY <1>1, <1>3, <2>1, EnqueueAppends
    <3> QED
      BY <2>1, <3>1
  <2>3. Switch(c, th, q2, s2, cpu2, bud)
    BY <1>3
  <2> HIDE DEF q2, s2, cpu2, k
  <2> QED
    BY <2>2, <2>3, SwitchFifo
<1>4. ASSUME Switch(c, th, queue, st, cpuid, bud)
      PROVE  FifoStep
  BY <1>1, <1>4, SwitchFifo
<1> QED
  BY <1>2, <1>3, <1>4 DEF RRSched

\* On every CPU, and whatever the threads do on all the others, a ready queue is served
\* from its head by its own CPU: a thread that is not dispatched keeps its place or comes
\* one nearer.
THEOREM OrderKept ==
  ASSUME ArgumentsValid
  PROVE  Spec => FifoDispatch
<1>1. IInv /\ [Next]_vars => [FifoStep]_vars
  <2> SUFFICES ASSUME IInv, Next PROVE FifoStep
    OBVIOUS
  <2>1. TypeOK
    BY DEF IInv
  <2>2. PICK c \in CPUs : FirstSched(c) \/ Running(c)
    BY DEF Next
  <2>3. CASE FirstSched(c) \/ TimerIrq(c) \/ Yield(c) \/ Exit(c)
    <3>1. PICK th, st, bud : RRSched(c, th, st, bud)
      BY <2>1, <2>3, EntryShape
    <3> QED
      BY <2>1, <3>1, SchedFifo
  <2>4. ASSUME NEW t \in Threads, NEW aff \in CreateAffs, CreateThread(c, t, aff)
        PROVE  FifoStep
    <3>1. queue \in [CPUs -> Seq(Threads)]
      BY <2>1 DEF TypeOK
    <3>2. CASE UNCHANGED queue
      BY <3>2 DEF FifoStep
    <3>3. CASE Accepts(c, aff, "INIT") /\ queue' = Enqueue(queue, TargetCpu(c, aff), t)
      <4>1. TargetCpu(c, aff) \in CPUs
        BY <3>3 DEF Accepts
      <4>2. PICK k \in CPUs : queue' = Enqueue(queue, k, t)
        BY <3>3, <4>1
      <4>3. ASSUME NEW d \in CPUs
            PROVE  \A i \in 1..Len(queue[d]) :
                      i \in 1..Len(queue'[d]) /\ queue'[d][i] = queue[d][i]
        <5>1. \A i \in 1..Len(queue[d]) :
                  /\ i \in 1..Len(Enqueue(queue, k, t)[d])
                  /\ Enqueue(queue, k, t)[d][i] = queue[d][i]
          BY <3>1, EnqueueAppends
        <5> QED
          BY <4>2, <5>1
      <4> QED
        BY <4>3 DEF FifoStep
    <3> QED
      BY <2>4, <3>2, <3>3 DEF CreateThread
  <2>5. ASSUME NEW t \in Threads, NEW aff \in SetAffs, SetAffinity(c, t, aff)
        PROVE  FifoStep
    BY <2>5 DEF SetAffinity, FifoStep
  <2> QED
    BY <2>2, <2>3, <2>4, <2>5 DEF Running
<1> QED
  BY <1>1, SchedulerInvariant, PTL DEF Spec, FifoDispatch

-----------------------------------------------------------------------------
(* Placement *)

\* A CPU that turns to its idle thread has nothing in its queue.
LEMMA SwitchIdle ==
  ASSUME TypeOK, NEW c \in CPUs, NEW STATE th, NEW STATE q, NEW STATE s, NEW STATE cpu,
         NEW STATE bud, q \in [CPUs -> Seq(Threads)], th \in {current[c], NoThread},
         Switch(c, th, q, s, cpu, bud), NEW d \in CPUs,
         current'[d] = d, current[d] # d
  PROVE  queue'[d] = <<>>
<1>1. current' = [current EXCEPT ![c] = th] \/ current' = [current EXCEPT ![c] = Choose(c, q)]
  BY DEF Switch
<1>2. d = c
  BY <1>1 DEF TypeOK
<1>3. th # c
  BY <1>2, SchedAssumption
<1>4. Choose(c, q) = c /\ current' = [current EXCEPT ![c] = Choose(c, q)]
  BY <1>1, <1>2, <1>3 DEF TypeOK
<1>5. q[c] = <<>>
  <2> SUFFICES ASSUME q[c] # <<>> PROVE FALSE
    OBVIOUS
  <2>1. q[c] \in Seq(Threads) /\ Head(q[c]) \in Threads
    OBVIOUS
  <2> QED
    BY <1>4, <2>1, SchedAssumption DEF Choose
<1>6. queue' = q
  BY <1>4, SchedAssumption DEF Switch, Dequeue
<1> QED
  BY <1>2, <1>5, <1>6

\* When rr_sched() on CPU c leaves READY a thread that was RUNNING on one CPU, that CPU
\* is c, the thread was its current one, and it waits where its affinity says.
LEMMA SwitchPlaces ==
  ASSUME NEW c \in CPUs, NEW STATE th, NEW STATE q, NEW STATE s, NEW STATE cpu,
         NEW STATE bud, s \in [All -> States], cpu \in [All -> CPUs], CPUs \subseteq All,
         Choose(c, q) \in All, Switch(c, th, q, s, cpu, bud),
         NEW t \in Threads, state'[t] = "READY"
  PROVE  s[t] = "READY" /\ cpuid'[t] = cpu[t]
<1>1. CASE state' = s /\ cpuid' = cpu
  BY <1>1
<1>2. CASE /\ state' = [s EXCEPT ![Choose(c, q)] = "RUNNING"]
           /\ cpuid' = [cpu EXCEPT ![Choose(c, q)] = c]
  <2>1. t \in All /\ t # Choose(c, q)
    BY <1>2 DEF All
  <2> QED
    BY <1>2, <2>1
<1> QED
  BY <1>1, <1>2 DEF Switch

\* Both for rr_sched() as a whole.
LEMMA SchedPlaces ==
  ASSUME IInv, NEW c \in CPUs, NEW STATE th, NEW STATE st, NEW STATE bud,
         th \in {current[c], NoThread}, st \in [All -> States],
         \A t \in Threads : st[t] \in {state[t], "FREE"},
         RRSched(c, th, st, bud)
  PROVE  PlacedStep
<1> DEFINE k  == TargetCpu(c, affinity[th])
           q2 == Enqueue(queue, k, th)
           s2 == [st EXCEPT ![th] = "READY"]
           cpu2 == [cpuid EXCEPT ![th] = k]
           Keeps    == /\ current' = [current EXCEPT ![c] = th]
                       /\ state' = st /\ UNCHANGED <<queue, cpuid>>
           Enqueues == /\ th \in Threads /\ k \in CPUs
                       /\ Switch(c, th, q2, s2, cpu2, bud)
           Switches == Switch(c, th, queue, st, cpuid, bud)
<1>1. Keeps \/ Enqueues \/ Switches
  BY DEF RRSched, Accepts
<1>2. /\ TypeOK /\ queue \in [CPUs -> Seq(Threads)] /\ cpuid \in [All -> CPUs]
      /\ current \in [CPUs -> All \cup {NoThread}]
      /\ CPUs \subseteq All /\ Threads \subseteq All
  BY DEF IInv, TypeOK, All
<1>3. ASSUME Enqueues
      PROVE  /\ q2 \in [CPUs -> Seq(Threads)] /\ s2 \in [All -> States]
             /\ cpu2 \in [All -> CPUs]
  BY <1>2, <1>3, EnqueueAppends DEF States
<1>4. \A q \in [CPUs -> Seq(Threads)] : Choose(c, q) \in All
  <2> SUFFICES ASSUME NEW q \in [CPUs -> Seq(Threads)] PROVE Choose(c, q) \in All
    OBVIOUS
  <2>1. q[c] \in Seq(Threads) /\ (q[c] # <<>> => Head(q[c]) \in Threads)
    OBVIOUS
  <2> QED
    BY <1>2, <2>1 DEF Choose
<1>5. ASSUME NEW d \in CPUs, current'[d] = d, current[d] # d
      PROVE  queue'[d] = <<>>
  <2>1. CASE Keeps
    BY <2>1, <1>2, <1>5, SchedAssumption
  <2>2. CASE Enqueues
    <3> HIDE DEF q2, s2, cpu2
    <3> QED
      BY <2>2, <1>2, <1>3, <1>5, SwitchIdle
  <2>3. CASE Switches
    BY <2>3, <1>2, <1>5, SwitchIdle
  <2> QED
    BY <1>1, <2>1, <2>2, <2>3
<1>6. ASSUME NEW d \in CPUs, NEW t \in Threads, OnCpus(t) = {d}, state'[t] = "READY"
      PROVE  cpuid'[t] = IF affinity[t] = NoAff THEN d ELSE affinity[t]
  <2>1. current[d] = t /\ \A e \in CPUs : current[e] = t => e = d
    BY <1>6 DEF OnCpus
  <2>2. state[t] = "RUNNING"
    BY <2>1, SchedAssumption DEF IInv, CurrentExact
  <2>3. st[t] # "READY"
    BY <2>2
  <2>4. CASE Keeps
    BY <2>3, <2>4, <1>6
  <2>5. CASE Switches
    BY <2>3, <2>5, <1>2, <1>4, <1>6, SwitchPlaces
  <2>6. CASE Enqueues
    <3>1. s2[t] = "READY" /\ cpuid'[t] = cpu2[t]
      <4> HIDE DEF q2, s2, cpu2, k
      <4>1. Choose(c, q2) \in All
        BY <2>6, <1>3, <1>4
      <4>2. Switch(c, th, q2, s2, cpu2, bud)
        BY <2>6
      <4>3. s2 \in [All -> States] /\ cpu2 \in [All -> CPUs]
        BY <2>6, <1>3
      <4>4. CPUs \subseteq All /\ state'[t] = "READY"
        BY <1>2, <1>6
      <4> QED
        BY c \in CPUs, t \in Threads, <4>1, <4>2, <4>3, <4>4, SwitchPlaces
    <3>2. t = th
      BY <3>1, <2>3, <2>6, <1>2
    <3>3. c = d
      BY <3>2, <2>1, SchedAssumption
    <3>4. cpuid'[t] = k
      BY <3>1, <3>2, <1>2
    <3> QED
      BY <3>2, <3>3, <3>4 DEF TargetCpu
  <2> QED
    BY <1>1, <2>4, <2>5, <2>6
<1> QED
  BY <1>5, <1>6 DEF PlacedStep

\* No CPU turns to its idle thread while a thread waits in its queue, and a thread that
\* gives up its CPU waits on the one its affinity names, or with NO_AFF on the one it
\* was on.
THEOREM PlacesKept ==
  ASSUME ArgumentsValid
  PROVE  Spec => PlacedByAffinity
<1>1. IInv /\ [Next]_vars => [PlacedStep]_vars
  <2> SUFFICES ASSUME IInv, Next PROVE PlacedStep
    OBVIOUS
  <2>1. /\ TypeOK /\ current \in [CPUs -> All \cup {NoThread}]
        /\ state \in [All -> States] /\ Threads \subseteq All
    BY DEF IInv, TypeOK, All
  <2>2. PICK c \in CPUs : FirstSched(c) \/ Running(c)
    BY DEF Next
  <2>3. CASE FirstSched(c) \/ TimerIrq(c) \/ Yield(c) \/ Exit(c)
    <3>1. PICK th, st, bud : /\ RRSched(c, th, st, bud)
                             /\ th \in {current[c], NoThread}
                             /\ st \in [All -> States]
                             /\ \A t \in Threads : st[t] \in {state[t], "FREE"}
      BY <2>1, <2>3, EntryShape
    <3> QED
      BY <3>1, SchedPlaces
  <2>4. ASSUME NEW t \in Threads, current' = current,
               \A u \in Threads : state[u] = "RUNNING" => state'[u] = "RUNNING"
        PROVE  PlacedStep
    <3>1. \A d \in CPUs, u \in Threads : OnCpus(u) = {d} => state'[u] = "RUNNING"
      BY <2>4, SchedAssumption DEF IInv, CurrentExact, OnCpus
    <3> QED
      BY <2>4, <3>1 DEF PlacedStep
  <2>5. ASSUME NEW t \in Threads, NEW aff \in CreateAffs, CreateThread(c, t, aff)
        PROVE  PlacedStep
    <3>1. state[t] = "FREE" /\ current' = current
      BY <2>5 DEF CreateThread
    <3>2. \A u \in Threads : u # t => state'[u] = state[u]
      BY <2>1, <2>5 DEF CreateThread
    <3> QED
      BY <2>4, <3>1, <3>2
  <2>6. ASSUME NEW t \in Threads, NEW aff \in SetAffs, SetAffinity(c, t, aff)
        PROVE  PlacedStep
    BY <2>4, <2>6 DEF SetAffinity
  <2> QED
    BY <2>2, <2>3, <2>5, <2>6 DEF Running
<1> QED
  BY <1>1, SchedulerInvariant, PTL DEF Spec, PlacedByAffinity

-----------------------------------------------------------------------------
(* Synchronous IPC *)

\* The threads that the scheduler does not see: callers, and shadows between calls.
Hidden(st, act) ==
    {t \in Threads : st[t] = "WAITING" \/ (t \in Shadows /\ ~act[t])}

\* A thread that has work: it runs, is queued, or waits for a callee.
Busy(st, act, t) == st[t] # "FREE" /\ (t \in Shadows => act[t])

\* The calls in progress: a caller waits for the one shadow of its connection.
CallsFit(st, act, cl, src) ==
    /\ \A s \in Shadows : act[s] =>
          /\ src[s] = cl[s] /\ src[s] \in Threads
          /\ st[src[s]] = "WAITING" /\ st[s] # "FREE"
    /\ \A s \in Shadows : ~act[s] => st[s] \in {"FREE", "INIT", "RUNNING"}
    /\ \A s \in Shadows : cl[s] # s
    /\ \A t \in Threads : st[t] = "WAITING" =>
          Busy(st, act, t) /\ \E s \in Shadows : act[s] /\ src[s] = t

\* The chains of calls: k is the scheduling context of each thread and f how many
\* calls deep it is.  In a chain every depth occurs once, and only the deepest
\* thread does not wait.
Chained(st, act, src, k, f) ==
    /\ \A t \in Threads \ Shadows : k[t] = t /\ f[t] = 0
    /\ \A s \in Shadows : act[s] => k[s] = k[src[s]] /\ f[s] = f[src[s]] + 1
    /\ \A t \in Threads : Busy(st, act, t) =>
          /\ k[t] \in Threads \ Shadows /\ st[k[t]] # "FREE"
          /\ \E u \in Threads : Busy(st, act, u) /\ st[u] # "WAITING" /\ k[u] = k[t]
    /\ \A t, u \in Threads :
          Busy(st, act, t) /\ Busy(st, act, u) /\ k[t] = k[u] /\ t # u =>
              f[t] # f[u] /\ (st[u] # "WAITING" => f[t] < f[u])

\* The depths are a witness: the kernel does not count them.
SomeDepth(depths) == \E f \in [Threads -> depths] : Chained(state, active, source, sc, f)

IpcTyped ==
    /\ state \in [All -> States]
    /\ sc \in [All -> All \cup {NoThread}]
    /\ client \in [Shadows -> Threads \cup {NoThread}]
    /\ source \in [Shadows -> Threads \cup {NoThread}]
    /\ active \in [Shadows -> BOOLEAN]

\* The inductive invariant, but for the set of the depths.
IpcInv(depths) ==
    /\ IpcTyped /\ AffinityValid /\ ~hung
    /\ Consistent(queue, Masked(state, Hidden(state, active)), cpuid, current)
    /\ CallsFit(state, active, client, source)
    /\ SomeDepth(depths)
-----------------------------------------------------------------------------
\* switch_to_thread() of a thread that is in no queue and on no CPU, on a CPU that
\* has let go of its thread.
LEMMA HandedOver ==
  ASSUME NEW q, NEW s, NEW cpu, NEW cur, Consistent(q, s, cpu, cur),
         NEW c \in CPUs, cur[c] = NoThread,
         NEW t \in Threads, s[t] = "FREE"
  PROVE  Consistent(q, [s EXCEPT ![t] = "RUNNING"], [cpu EXCEPT ![t] = c],
                    [cur EXCEPT ![c] = t])
<1> DEFINE s2 == [s EXCEPT ![t] = "RUNNING"]
           cpu2 == [cpu EXCEPT ![t] = c]
           cur2 == [cur EXCEPT ![c] = t]
<1>1. /\ Typed(q, s, cpu, cur) /\ QueuesFit(q, s, cpu)
      /\ ThreadsFit(q, s, cpu, cur) /\ CurrentFits(s, cur)
  BY DEF Consistent
<1>2. \A u \in Threads : /\ s2[u] = IF u = t THEN "RUNNING" ELSE s[u]
                         /\ cpu2[u] = IF u = t THEN c ELSE cpu[u]
  BY <1>1 DEF Typed, All
<1>3. \A d \in CPUs : cur2[d] = IF d = c THEN t ELSE cur[d]
  BY <1>1 DEF Typed
<1>4. \A d \in CPUs : \A i \in 1..Len(q[d]) : q[d][i] \in Threads /\ q[d][i] # t
  <2>1. \A d \in CPUs : \A i \in 1..Len(q[d]) : q[d][i] \in Threads
    BY <1>1, ElementOfSeq DEF Typed
  <2> QED
    BY <2>1, <1>1 DEF QueuesFit
<1>5. Typed(q, s2, cpu2, cur2)
  BY <1>1 DEF Typed, All, States
<1> HIDE DEF s2, cpu2, cur2
<1>6. QueuesFit(q, s2, cpu2)
  BY <1>1, <1>2, <1>4 DEF QueuesFit
<1>7. ThreadsFit(q, s2, cpu2, cur2)
  <2> SUFFICES ASSUME NEW u \in Threads
               PROVE  \/ s2[u] = "FREE"
                      \/ /\ s2[u] = "READY"
                         /\ \E d \in CPUs : \E i \in 1..Len(q[d]) : q[d][i] = u
                      \/ /\ s2[u] = "RUNNING"
                         /\ \E d \in CPUs : cur2[d] = u /\ cpu2[u] = d
    BY DEF ThreadsFit
  <2>1. CASE u = t
    BY <2>1, <1>2, <1>3
  <2>2. CASE u # t
    <3>1. \A d \in CPUs : cur[d] = u => cur2[d] = u
      BY <1>3, SchedAssumption
    <3> QED
      BY <2>2, <3>1, <1>1, <1>2 DEF ThreadsFit
  <2> QED
    BY <2>1, <2>2
<1>8. CurrentFits(s2, cur2)
  <2> SUFFICES ASSUME NEW d \in CPUs, cur2[d] \notin {NoThread, d}
               PROVE  /\ cur2[d] \in Threads /\ s2[cur2[d]] = "RUNNING"
                      /\ \A e \in CPUs : cur2[e] = cur2[d] => e = d
    BY DEF CurrentFits
  <2>1. \A e \in CPUs : cur[e] # t
    BY <1>1, SchedAssumption DEF CurrentFits
  <2>2. CASE d = c
    BY <2>1, <2>2, <1>2, <1>3
  <2>3. CASE d # c
    <3>1. /\ cur[d] \in Threads /\ s[cur[d]] = "RUNNING" /\ cur[d] # t
          /\ \A e \in CPUs : cur[e] = cur[d] => e = d
      BY <2>1, <2>3, <1>1, <1>3 DEF CurrentFits
    <3> QED
      BY <2>3, <3>1, <1>2, <1>3
  <2> QED
    BY <2>2, <2>3
<1> QED
  BY <1>5, <1>6, <1>7, <1>8 DEF Consistent, s2, cpu2, cur2

-----------------------------------------------------------------------------
\* What the scheduler does to the states is nothing to the chains of calls.
LEMMA ChainsKept ==
  ASSUME NEW s, NEW s2, NEW act, NEW cl, NEW src, NEW k,
         StatesKept(s, s2, Hidden(s, act)), CallsFit(s, act, cl, src)
  PROVE  /\ Hidden(s2, act) = Hidden(s, act)
         /\ CallsFit(s2, act, cl, src)
         /\ \A f : Chained(s, act, src, k, f) => Chained(s2, act, src, k, f)
<1>1. \A t \in Threads : /\ s2[t] = "FREE" <=> s[t] = "FREE"
                         /\ s2[t] = "WAITING" <=> s[t] = "WAITING"
                         /\ t \in Shadows /\ ~act[t] => s2[t] = s[t]
  BY DEF StatesKept, Hidden
<1>2. Shadows \subseteq Threads
  BY ShadowAssumption
<1>3. \A t \in Threads : Busy(s2, act, t) <=> Busy(s, act, t)
  BY <1>1 DEF Busy
<1>4. Hidden(s2, act) = Hidden(s, act)
  BY <1>1 DEF Hidden
<1>5. CallsFit(s2, act, cl, src)
  BY <1>1, <1>2, <1>3 DEF CallsFit
<1>6. ASSUME NEW f, Chained(s, act, src, k, f) PROVE Chained(s2, act, src, k, f)
  BY <1>1, <1>2, <1>3, <1>6 DEF Chained
<1> QED
  BY <1>4, <1>5, <1>6

\* sys_exit() ends a chain that has no call in progress.
LEMMA ChainEnds ==
  ASSUME NEW s \in [All -> States], NEW act, NEW cl, NEW src, NEW k,
         NEW f \in [Threads -> Nat],
         CallsFit(s, act, cl, src), Chained(s, act, src, k, f),
         NEW t \in Threads \ Shadows, s[t] = "RUNNING",
         NEW s2, s2 = [s EXCEPT ![t] = "FREE"]
  PROVE  /\ Hidden(s2, act) = Hidden(s, act)
         /\ CallsFit(s2, act, cl, src)
         /\ Chained(s2, act, src, k, f)
<1>1. \A u \in Threads : s2[u] = IF u = t THEN "FREE" ELSE s[u]
  BY DEF All
<1>2. Shadows \subseteq Threads
  BY ShadowAssumption
<1>3. \A u \in Threads : Busy(s2, act, u) <=> Busy(s, act, u) /\ u # t
  BY <1>1 DEF Busy
<1>4. Hidden(s2, act) = Hidden(s, act)
  BY <1>1 DEF Hidden
<1>5. CallsFit(s2, act, cl, src)
  <2>1. \A u \in Shadows : u \in Threads /\ u # t
    BY <1>2
  <2>2. \A u \in Shadows : act[u] => src[u] \in Threads /\ src[u] # t
    BY DEF CallsFit
  <2>3. \A u \in Threads : s2[u] = "WAITING" <=> s[u] = "WAITING"
    BY <1>1
  <2>4. \A u \in Threads : u # t => s2[u] = s[u]
    BY <1>1
  <2>5. \A u \in Shadows : act[u] =>
           /\ src[u] = cl[u] /\ src[u] \in Threads
           /\ s2[src[u]] = "WAITING" /\ s2[u] # "FREE"
    BY <2>1, <2>2, <2>4 DEF CallsFit
  <2>6. \A u \in Shadows : ~act[u] => s2[u] \in {"FREE", "INIT", "RUNNING"}
    BY <2>1, <2>4 DEF CallsFit
  <2>7. \A u \in Threads : s2[u] = "WAITING" =>
           Busy(s2, act, u) /\ \E w \in Shadows : act[w] /\ src[w] = u
    BY <2>3, <1>3 DEF CallsFit
  <2> QED
    BY <2>5, <2>6, <2>7 DEF CallsFit
<1>6. \A u \in Threads : Busy(s, act, u) /\ u # t => k[u] # t
  <2>1. Busy(s, act, t) /\ k[t] = t /\ f[t] = 0
    BY DEF Busy, Chained
  <2>2. \A u \in Threads : f[u] \in Nat
    OBVIOUS
  <2> QED
    BY <2>1, <2>2 DEF Chained
<1>7. \A u \in Threads : Busy(s2, act, u) =>
          /\ k[u] \in Threads \ Shadows /\ s2[k[u]] # "FREE"
          /\ \E w \in Threads : Busy(s2, act, w) /\ s2[w] # "WAITING" /\ k[w] = k[u]
  <2> SUFFICES ASSUME NEW u \in Threads, Busy(s2, act, u)
               PROVE  /\ k[u] \in Threads \ Shadows /\ s2[k[u]] # "FREE"
                      /\ \E w \in Threads : Busy(s2, act, w) /\ s2[w] # "WAITING" /\ k[w] = k[u]
    OBVIOUS
  <2>1. Busy(s, act, u) /\ k[u] # t
    BY <1>3, <1>6
  <2>2. PICK w \in Threads : Busy(s, act, w) /\ s[w] # "WAITING" /\ k[w] = k[u]
    BY <2>1 DEF Chained
  <2>3. w # t
    BY <2>1, <2>2 DEF Chained
  <2>4. Busy(s2, act, w) /\ s2[w] # "WAITING"
    BY <2>2, <2>3, <1>1, <1>3
  <2>5. k[u] \in Threads \ Shadows /\ s2[k[u]] # "FREE"
    BY <2>1, <1>1 DEF Chained
  <2> QED
    BY <2>2, <2>4, <2>5
<1>8. ASSUME NEW u \in Threads, NEW w \in Threads,
             Busy(s2, act, u), Busy(s2, act, w), k[u] = k[w], u # w
      PROVE  f[u] # f[w] /\ (s2[w] # "WAITING" => f[u] < f[w])
  <2>1. Busy(s, act, u) /\ Busy(s, act, w) /\ s2[w] = s[w]
    BY <1>1, <1>3, <1>8
  <2> QED
    BY <2>1, <1>8 DEF Chained
<1>9. /\ \A u \in Threads \ Shadows : k[u] = u /\ f[u] = 0
      /\ \A u \in Shadows : act[u] => k[u] = k[src[u]] /\ f[u] = f[src[u]] + 1
  BY DEF Chained
<1>10. Chained(s2, act, src, k, f)
  BY <1>7, <1>8, <1>9 DEF Chained
<1> QED
  BY <1>4, <1>5, <1>10

\* A new thread begins a chain of its own.
LEMMA ChainBegins ==
  ASSUME NEW s \in [All -> States], NEW act, NEW cl, NEW src, NEW k,
         NEW f \in [Threads -> Nat],
         CallsFit(s, act, cl, src), Chained(s, act, src, k, f),
         NEW t \in Threads \ Shadows, s[t] = "FREE",
         NEW s2, s2 = [s EXCEPT ![t] = "READY"]
  PROVE  /\ Hidden(s2, act) = Hidden(s, act)
         /\ CallsFit(s2, act, cl, src)
         /\ Chained(s2, act, src, k, f)
<1>1. \A u \in Threads : s2[u] = IF u = t THEN "READY" ELSE s[u]
  BY DEF All
<1>2. Shadows \subseteq Threads
  BY ShadowAssumption
<1>3. \A u \in Threads : Busy(s2, act, u) <=> Busy(s, act, u) \/ u = t
  BY <1>1 DEF Busy
<1>4. Hidden(s2, act) = Hidden(s, act)
  BY <1>1 DEF Hidden
<1>5. CallsFit(s2, act, cl, src)
  <2>1. \A u \in Shadows : u \in Threads /\ u # t
    BY <1>2
  <2>2. \A u \in Shadows : act[u] => src[u] \in Threads /\ src[u] # t
    BY DEF CallsFit
  <2>3. \A u \in Threads : s2[u] = "WAITING" <=> s[u] = "WAITING"
    BY <1>1
  <2>4. \A u \in Threads : u # t => s2[u] = s[u]
    BY <1>1
  <2>5. \A u \in Shadows : act[u] =>
           /\ src[u] = cl[u] /\ src[u] \in Threads
           /\ s2[src[u]] = "WAITING" /\ s2[u] # "FREE"
    BY <2>1, <2>2, <2>4 DEF CallsFit
  <2>6. \A u \in Shadows : ~act[u] => s2[u] \in {"FREE", "INIT", "RUNNING"}
    BY <2>1, <2>4 DEF CallsFit
  <2>7. \A u \in Threads : s2[u] = "WAITING" =>
           Busy(s2, act, u) /\ \E w \in Shadows : act[w] /\ src[w] = u
    BY <2>3, <1>3 DEF CallsFit
  <2> QED
    BY <2>5, <2>6, <2>7 DEF CallsFit
<1>6. \A u \in Threads : Busy(s, act, u) => u # t /\ k[u] # t
  BY DEF Chained, Busy
<1>7. k[t] = t
  BY DEF Chained
<1>8. \A u \in Threads : Busy(s2, act, u) =>
          /\ k[u] \in Threads \ Shadows /\ s2[k[u]] # "FREE"
          /\ \E w \in Threads : Busy(s2, act, w) /\ s2[w] # "WAITING" /\ k[w] = k[u]
  <2> SUFFICES ASSUME NEW u \in Threads, Busy(s2, act, u)
               PROVE  /\ k[u] \in Threads \ Shadows /\ s2[k[u]] # "FREE"
                      /\ \E w \in Threads : Busy(s2, act, w) /\ s2[w] # "WAITING" /\ k[w] = k[u]
    OBVIOUS
  <2>1. CASE u = t
    BY <2>1, <1>1, <1>3, <1>7
  <2>2. CASE u # t
    <3>1. PICK w \in Threads : Busy(s, act, w) /\ s[w] # "WAITING" /\ k[w] = k[u]
      BY <2>2, <1>3 DEF Chained
    <3>2. w # t
      BY <3>1, <1>6
    <3>3. Busy(s2, act, w) /\ s2[w] # "WAITING"
      BY <3>1, <3>2, <1>1, <1>3
    <3>4. k[u] \in Threads \ Shadows /\ s2[k[u]] # "FREE"
      <4>1. Busy(s, act, u)
        BY <2>2, <1>3
      <4> QED
        BY <4>1, <1>1 DEF Chained
    <3> QED
      BY <3>1, <3>3, <3>4
  <2> QED
    BY <2>1, <2>2
<1>9. \A u, w \in Threads :
          Busy(s2, act, u) /\ Busy(s2, act, w) /\ k[u] = k[w] /\ u # w =>
              f[u] # f[w] /\ (s2[w] # "WAITING" => f[u] < f[w])
  BY <1>1, <1>3, <1>6, <1>7 DEF Chained
<1> QED
  BY <1>2, <1>8, <1>9, <1>4, <1>5 DEF Chained

\* What a call of t to the shadow t2 does to states, connections, contexts and depths.
Called(s, act, src, k, f, t, t2, s2, act2, src2, k2, f2) ==
    /\ \A u \in Threads : /\ s2[u] = IF u = t2 THEN "RUNNING"
                                      ELSE IF u = t THEN "WAITING" ELSE s[u]
                          /\ k2[u] = IF u = t2 THEN k[t] ELSE k[u]
                          /\ f2[u] = IF u = t2 THEN f[t] + 1 ELSE f[u]
    /\ \A u \in Shadows : /\ act2[u] <=> act[u] \/ u = t2
                          /\ src2[u] = IF u = t2 THEN t ELSE src[u]

\* thread_migrate_to_server(): the callee t2 becomes the end of its caller's chain.
LEMMA ChainGrows ==
  ASSUME NEW s \in [All -> States], NEW act \in [Shadows -> BOOLEAN], NEW cl,
         NEW src \in [Shadows -> Threads \cup {NoThread}],
         NEW k \in [All -> All \cup {NoThread}], NEW f \in [Threads -> Nat],
         CallsFit(s, act, cl, src), Chained(s, act, src, k, f),
         NEW t \in Threads, s[t] = "RUNNING", Busy(s, act, t),
         NEW t2 \in Shadows, ~act[t2], cl[t2] = t, t2 # t,
         NEW s2, NEW act2, NEW src2, NEW k2, NEW f2,
         Called(s, act, src, k, f, t, t2, s2, act2, src2, k2, f2)
  PROVE  /\ Hidden(s2, act2) = (Hidden(s, act) \cup {t}) \ {t2}
         /\ CallsFit(s2, act2, cl, src2)
         /\ Chained(s2, act2, src2, k2, f2)
<1>1. Shadows \subseteq Threads /\ Threads \subseteq All
  BY ShadowAssumption DEF All
<1>2. /\ \A u \in Threads : /\ s2[u] = IF u = t2 THEN "RUNNING"
                                       ELSE IF u = t THEN "WAITING" ELSE s[u]
                            /\ k2[u] = IF u = t2 THEN k[t] ELSE k[u]
                            /\ f2[u] = IF u = t2 THEN f[t] + 1 ELSE f[u]
      /\ \A u \in Shadows : /\ act2[u] <=> act[u] \/ u = t2
                            /\ src2[u] = IF u = t2 THEN t ELSE src[u]
  BY DEF Called
<1>3. \A u \in Threads : f[u] \in Nat
  OBVIOUS
<1>4. s[t2] \in {"FREE", "INIT", "RUNNING"} /\ ~Busy(s, act, t2)
  BY DEF CallsFit, Busy
<1>5. \A u \in Threads : Busy(s2, act2, u) <=> Busy(s, act, u) \/ u = t2
  BY <1>1, <1>2, <1>4 DEF Busy
<1>6. \A u \in Shadows : act[u] => u # t2 /\ src[u] \in Threads /\ src[u] # t2 /\ src[u] # t
  BY <1>4 DEF CallsFit
<1>7. Hidden(s2, act2) = (Hidden(s, act) \cup {t}) \ {t2}
  BY <1>1, <1>2 DEF Hidden
<1> HIDE DEF Busy
<1>8. CallsFit(s2, act2, cl, src2)
  <2>1. \A u \in Shadows : act2[u] =>
           /\ src2[u] = cl[u] /\ src2[u] \in Threads
           /\ s2[src2[u]] = "WAITING" /\ s2[u] # "FREE"
    BY <1>1, <1>2, <1>6 DEF CallsFit
  <2>2. \A u \in Shadows : ~act2[u] => s2[u] \in {"FREE", "INIT", "RUNNING"}
    <3>1. t \in Shadows => act[t]
      BY DEF Busy
    <3> QED
      BY <3>1, <1>1, <1>2 DEF CallsFit
  <2>3. ASSUME NEW u \in Threads, s2[u] = "WAITING"
        PROVE  Busy(s2, act2, u) /\ \E w \in Shadows : act2[w] /\ src2[w] = u
    <3>1. CASE u = t
      BY <3>1, <1>2, <1>5
    <3>2. CASE u # t
      <4>1. s[u] = "WAITING"
        BY <2>3, <3>2, <1>2
      <4>2. PICK w \in Shadows : act[w] /\ src[w] = u
        BY <4>1 DEF CallsFit
      <4>3. Busy(s, act, u)
        BY <4>1 DEF CallsFit
      <4> QED
        BY <4>2, <4>3, <1>2, <1>5, <1>6
    <3> QED
      BY <3>1, <3>2
  <2> QED
    BY <2>1, <2>2, <2>3 DEF CallsFit
<1>9. \A u \in Threads \ Shadows : k2[u] = u /\ f2[u] = 0
  BY <1>2 DEF Chained
<1>10. \A u \in Shadows : act2[u] => k2[u] = k2[src2[u]] /\ f2[u] = f2[src2[u]] + 1
  BY <1>1, <1>2, <1>6 DEF Chained
<1>11. /\ k[t] \in Threads \ Shadows /\ s[k[t]] # "FREE"
       /\ \A u \in Threads : Busy(s, act, u) /\ k[u] = k[t] /\ u # t => f[u] < f[t]
  BY DEF Chained
<1>12. ASSUME NEW u \in Threads, s[u] # "FREE" PROVE s2[u] # "FREE"
  <2>0. s2[t2] = "RUNNING" /\ s2[t] = "WAITING"
    BY <1>1, <1>2
  <2>1. CASE u = t \/ u = t2
    BY <2>0, <2>1
  <2>2. CASE u # t /\ u # t2
    BY <2>2, <1>2, <1>12
  <2> QED
    BY <2>1, <2>2
<1>13. ASSUME NEW u \in Threads, Busy(s2, act2, u)
       PROVE  /\ k2[u] \in Threads \ Shadows /\ s2[k2[u]] # "FREE"
              /\ \E w \in Threads : Busy(s2, act2, w) /\ s2[w] # "WAITING" /\ k2[w] = k2[u]
  <2>1. CASE k2[u] = k[t]
    <3>1. s2[k2[u]] # "FREE"
      BY <2>1, <1>11, <1>12
    <3>2. t2 \in Threads /\ Busy(s2, act2, t2) /\ s2[t2] # "WAITING" /\ k2[t2] = k2[u]
      BY <2>1, <1>1, <1>2, <1>5
    <3> QED
      BY <2>1, <3>1, <3>2, <1>11
  <2>2. CASE k2[u] # k[t]
    <3>1. u # t2 /\ u # t /\ Busy(s, act, u) /\ k2[u] = k[u]
      BY <1>1, <2>2, <1>2, <1>5, <1>13
    <3>2. k[u] \in Threads \ Shadows /\ s[k[u]] # "FREE"
      BY <3>1 DEF Chained
    <3>3. PICK w \in Threads : Busy(s, act, w) /\ s[w] # "WAITING" /\ k[w] = k[u]
      BY <3>1 DEF Chained
    <3>4. w # t2 /\ w # t
      BY <2>2, <3>1, <3>3, <1>4
    <3>5. Busy(s2, act2, w) /\ s2[w] # "WAITING" /\ k2[w] = k2[u]
      BY <3>1, <3>3, <3>4, <1>2, <1>5
    <3>6. s2[k2[u]] # "FREE"
      BY <3>1, <3>2, <1>12
    <3> QED
      BY <3>1, <3>2, <3>5, <3>6
  <2> QED
    BY <2>1, <2>2
<1>14. ASSUME NEW u \in Threads, NEW w \in Threads,
              Busy(s2, act2, u), Busy(s2, act2, w), k2[u] = k2[w], u # w
       PROVE  f2[u] # f2[w] /\ (s2[w] # "WAITING" => f2[u] < f2[w])
  <2>1. ASSUME NEW v \in Threads, Busy(s, act, v), k[v] = k[t], v # t2
        PROVE  f[v] < f[t] + 1
    <3>1. f[v] < f[t] \/ v = t
      BY <2>1, <1>11
    <3> QED
      BY <3>1, <1>3
  <2>2. CASE w = t2
    BY <2>1, <2>2, <1>1, <1>2, <1>3, <1>5, <1>14
  <2>3. CASE w # t2 /\ u = t2
    <3>1. f[w] < f[t] + 1 /\ k[w] = k[t] /\ Busy(s, act, w)
      BY <2>1, <2>3, <1>1, <1>2, <1>5, <1>14
    <3>2. s2[w] = "WAITING"
      <4>1. CASE w = t
        BY <2>3, <4>1, <1>2
      <4>2. CASE w # t
        <5>1. s[w] # "WAITING" => f[t] < f[w]
          BY <3>1, <4>2 DEF Chained
        <5>2. f[w] < f[t]
          BY <3>1, <4>2, <1>11
        <5>3. s[w] = "WAITING"
          BY <5>1, <5>2, <1>3
        <5> QED
          BY <5>3, <2>3, <4>2, <1>2
      <4> QED
        BY <4>1, <4>2
    <3> QED
      BY <2>3, <3>1, <3>2, <1>1, <1>2, <1>3
  <2>4. CASE w # t2 /\ u # t2
    <3>1. Busy(s, act, u) /\ Busy(s, act, w) /\ k[u] = k[w]
      BY <2>4, <1>2, <1>5, <1>14
    <3>2. f[u] # f[w] /\ (s[w] # "WAITING" => f[u] < f[w])
      BY <3>1, <1>14 DEF Chained
    <3> QED
      BY <2>4, <3>2, <1>2
  <2> QED
    BY <2>2, <2>3, <2>4
<1>15. Chained(s2, act2, src2, k2, f2)
  BY <1>9, <1>10, <1>13, <1>14 DEF Chained
<1> QED
  BY <1>7, <1>8, <1>15

\* thread_migrate_to_client(): the end t2 of a chain leaves it, and its caller t,
\* whose only callee it was, is the end again.
LEMMA ChainShrinks ==
  ASSUME NEW s \in [All -> States], NEW act \in [Shadows -> BOOLEAN], NEW cl, NEW src,
         NEW k, NEW f \in [Threads -> Nat],
         CallsFit(s, act, cl, src), Chained(s, act, src, k, f),
         NEW t2 \in Shadows, s[t2] = "RUNNING", act[t2],
         NEW t \in Threads, t = src[t2],
         NEW s2, NEW act2,
         \A u \in Threads : s2[u] = IF u = t THEN "RUNNING" ELSE s[u],
         \A u \in Shadows : act2[u] <=> act[u] /\ u # t2
  PROVE  /\ Hidden(s2, act2) = (Hidden(s, act) \cup {t2}) \ {t}
         /\ CallsFit(s2, act2, cl, src)
         /\ Chained(s2, act2, src, k, f)
<1>1. Shadows \subseteq Threads /\ Threads \subseteq All
  BY ShadowAssumption DEF All
<1>2. /\ \A u \in Threads : s2[u] = IF u = t THEN "RUNNING" ELSE s[u]
      /\ \A u \in Shadows : act2[u] <=> act[u] /\ u # t2
  OBVIOUS
<1>3. \A u \in Threads : f[u] \in Nat
  OBVIOUS
<1>4. s[t] = "WAITING" /\ Busy(s, act, t) /\ t # t2
  BY DEF CallsFit
<1>5. Busy(s, act, t2) /\ k[t2] = k[t] /\ f[t2] = f[t] + 1
  BY <1>1 DEF Chained, Busy
<1>6. \A u \in Threads : Busy(s2, act2, u) <=> Busy(s, act, u) /\ u # t2
  BY <1>1, <1>2, <1>4, <1>5 DEF Busy
<1>7. \A u \in Shadows : act[u] => src[u] \in Threads /\ Busy(s, act, u)
  BY <1>1 DEF CallsFit, Busy
<1>8. \A u \in Shadows : act[u] /\ src[u] = t => u = t2
  BY <1>1, <1>5, <1>7 DEF Chained
<1>9. Hidden(s2, act2) = (Hidden(s, act) \cup {t2}) \ {t}
  BY <1>1, <1>2, <1>4 DEF Hidden, Busy
<1> HIDE DEF Busy
<1>10. CallsFit(s2, act2, cl, src)
  <2>1. \A u \in Shadows : act2[u] =>
           /\ src[u] = cl[u] /\ src[u] \in Threads
           /\ s2[src[u]] = "WAITING" /\ s2[u] # "FREE"
    BY <1>1, <1>2, <1>8 DEF CallsFit
  <2>2. \A u \in Shadows : ~act2[u] => s2[u] \in {"FREE", "INIT", "RUNNING"}
    BY <1>1, <1>2 DEF CallsFit
  <2>3. ASSUME NEW u \in Threads, s2[u] = "WAITING"
        PROVE  Busy(s2, act2, u) /\ \E w \in Shadows : act2[w] /\ src[w] = u
    <3>1. s[u] = "WAITING" /\ u # t /\ u # t2
      BY <2>3, <1>2
    <3>2. PICK w \in Shadows : act[w] /\ src[w] = u
      BY <3>1 DEF CallsFit
    <3>3. Busy(s, act, u)
      BY <3>1 DEF CallsFit
    <3> QED
      BY <3>1, <3>2, <3>3, <1>2, <1>6
  <2> QED
    BY <2>1, <2>2, <2>3 DEF CallsFit
<1>11. \A u \in Shadows : act2[u] => k[u] = k[src[u]] /\ f[u] = f[src[u]] + 1
  BY <1>2 DEF Chained
<1>12. \A u \in Threads : Busy(s, act, u) /\ k[u] = k[t] /\ u # t2 => f[u] < f[t] + 1
  <2>1. s[t2] # "WAITING"
    OBVIOUS
  <2> QED
    BY <2>1, <1>1, <1>5 DEF Chained
<1>13. ASSUME NEW u \in Threads, Busy(s2, act2, u)
       PROVE  /\ k[u] \in Threads \ Shadows /\ s2[k[u]] # "FREE"
              /\ \E w \in Threads : Busy(s2, act2, w) /\ s2[w] # "WAITING" /\ k[w] = k[u]
  <2>1. Busy(s, act, u)
    BY <1>6, <1>13
  <2>2. k[u] \in Threads \ Shadows /\ s[k[u]] # "FREE"
    BY <2>1 DEF Chained
  <2>3. PICK w \in Threads : Busy(s, act, w) /\ s[w] # "WAITING" /\ k[w] = k[u]
    BY <2>1 DEF Chained
  <2>4. \E v \in Threads : Busy(s2, act2, v) /\ s2[v] # "WAITING" /\ k[v] = k[u]
    <3>1. CASE w = t2
      BY <2>3, <3>1, <1>2, <1>4, <1>5, <1>6
    <3>2. CASE w # t2
      BY <2>3, <3>2, <1>2, <1>6
    <3> QED
      BY <3>1, <3>2
  <2> QED
    BY <2>2, <2>4, <1>2
<1>14. ASSUME NEW u \in Threads, NEW w \in Threads,
              Busy(s2, act2, u), Busy(s2, act2, w), k[u] = k[w], u # w
       PROVE  f[u] # f[w] /\ (s2[w] # "WAITING" => f[u] < f[w])
  <2>1. Busy(s, act, u) /\ Busy(s, act, w) /\ u # t2
    BY <1>6, <1>14
  <2>2. f[u] # f[w] /\ (s[w] # "WAITING" => f[u] < f[w])
    BY <2>1, <1>14 DEF Chained
  <2>3. CASE w = t
    BY <2>1, <2>2, <2>3, <1>3, <1>12, <1>14
  <2>4. CASE w # t
    BY <2>2, <2>4, <1>2
  <2> QED
    BY <2>3, <2>4
<1>15. \A u \in Threads \ Shadows : k[u] = u /\ f[u] = 0
  BY DEF Chained
<1>16. Chained(s2, act2, src, k, f)
  BY <1>11, <1>13, <1>14, <1>15 DEF Chained
<1> QED
  BY <1>9, <1>10, <1>16

-----------------------------------------------------------------------------
\* What is known of the thread that enters the kernel.
LEMMA OnCpu ==
  ASSUME IpcInv(Nat), NEW c \in CPUs, current[c] \in Threads
  PROVE  /\ state[current[c]] = "RUNNING" /\ current[c] \notin Hidden(state, active)
         /\ Busy(state, active, current[c])
         /\ \A d \in CPUs : current[d] = current[c] => d = c
         /\ Masked(state, Hidden(state, active))[current[c]] = "RUNNING"
<1> DEFINE m == Masked(state, Hidden(state, active))
           t == current[c]
<1>1. CurrentFits(m, current)
  BY DEF IpcInv, Consistent
<1>2. t \in Threads /\ t # c /\ t # NoThread /\ t \in All
  BY SchedAssumption DEF All
<1>3. m[t] = "RUNNING" /\ \A d \in CPUs : current[d] = t => d = c
  <2> HIDE DEF m
  <2> QED
    BY <1>1, <1>2 DEF CurrentFits
<1>4. t \notin Hidden(state, active) /\ state[t] = "RUNNING"
  BY <1>2, <1>3 DEF Masked
<1>5. Busy(state, active, t)
  BY <1>2, <1>4 DEF Busy, Hidden
<1> QED
  BY <1>3, <1>4, <1>5

\* sched() as the end of a kernel entry that has changed the states to st.
LEMMA IpcSchedKeeps ==
  ASSUME IpcInv(Nat), NEW c \in CPUs, NEW STATE th, NEW STATE st, NEW STATE bud,
         st \in [All -> States], CallsFit(st, active, client, source),
         \E f \in [Threads -> Nat] : Chained(st, active, source, sc, f),
         Consistent(queue, Masked(st, Hidden(st, active)), cpuid,
                    [current EXCEPT ![c] = th]),
         RRSched(c, th, st, bud), UNCHANGED <<affinity, sc, ipc>>
  PROVE  IpcInv(Nat)'
<1> DEFINE off == Hidden(st, active)
<1>1. /\ current \in [CPUs -> All \cup {NoThread}] /\ ~hung /\ AffinityValid
      /\ IpcTyped
  BY DEF IpcInv, Consistent, Typed
<1>2. off \subseteq Threads /\ Consistent(queue, Masked(st, off), cpuid, [current EXCEPT ![c] = th])
  BY DEF Hidden
<1>3. /\ Consistent(queue', Masked(state', off), cpuid', current')
      /\ state' \in [All -> States] /\ StatesKept(st, state', off) /\ hung' = hung
  <2> HIDE DEF off
  <2> QED
    BY <1>1, <1>2, SchedKeeps
<1>4. /\ affinity' = affinity /\ sc' = sc
      /\ client' = client /\ source' = source /\ active' = active
  BY DEF ipc
<1>5. PICK f \in [Threads -> Nat] : Chained(st, active, source, sc, f)
  OBVIOUS
<1>6. /\ Hidden(state', active) = off
      /\ CallsFit(state', active, client, source)
      /\ Chained(state', active, source, sc, f)
  BY <1>3, <1>5, ChainsKept
<1>7. SomeDepth(Nat)'
  BY <1>4, <1>5, <1>6 DEF SomeDepth
<1>8. Consistent(queue', Masked(state', Hidden(state', active')), cpuid', current')
  BY <1>3, <1>4, <1>6
<1>9. CallsFit(state', active', client', source')
  BY <1>4, <1>6
<1>10. IpcTyped' /\ AffinityValid'
  BY <1>1, <1>3, <1>4 DEF IpcTyped, AffinityValid
<1>11. ~hung'
  BY <1>1, <1>3
<1> QED
  BY <1>7, <1>8, <1>9, <1>10, <1>11 DEF IpcInv

\* The kernel entries of the scheduler, for threads that are not shadows where the
\* code has it so.
LEMMA SchedPart ==
  ASSUME ArgumentsValid, IpcInv(Nat), NEW c \in CPUs, Sched(c)
  PROVE  IpcInv(Nat)'
<1> DEFINE off == Hidden(state, active)
           m == Masked(state, off)
<1>1. /\ current \in [CPUs -> All \cup {NoThread}] /\ ~hung /\ AffinityValid
      /\ IpcTyped /\ CallsFit(state, active, client, source)
      /\ state \in [All -> States]
      /\ Consistent(queue, m, cpuid, current)
      /\ \E f \in [Threads -> Nat] : Chained(state, active, source, sc, f)
  BY DEF IpcInv, Consistent, Typed, SomeDepth, IpcTyped
<1>2. UNCHANGED ipc /\ client' = client /\ source' = source /\ active' = active
  BY DEF Sched, ipc
<1>3. \A d \in CPUs : [current EXCEPT ![d] = current[d]] = current
  BY <1>1
<1>4. PICK f \in [Threads -> Nat] : Chained(state, active, source, sc, f)
  BY <1>1
<1>5. CASE FirstSched(c)
  <2>1. /\ RRSched(c, NoThread, state, budget) /\ UNCHANGED <<affinity, sc, ipc>>
        /\ [current EXCEPT ![c] = NoThread] = current
    BY <1>1, <1>2, <1>5 DEF FirstSched
  <2> QED
    BY <1>1, <2>1, IpcSchedKeeps
<1>6. CASE TimerIrq(c)
  <2> DEFINE bud == [budget EXCEPT ![sc[current[c]]] = Tick(Tick(@))]
  <2>1. RRSched(c, current[c], state, bud) /\ UNCHANGED <<affinity, sc, ipc>>
    BY <1>2, <1>6 DEF TimerIrq
  <2> HIDE DEF bud
  <2> QED
    BY <1>1, <1>3, <2>1, IpcSchedKeeps
<1>7. CASE Yield(c)
  <2> DEFINE bud == [budget EXCEPT ![sc[current[c]]] = 0]
  <2>1. RRSched(c, current[c], state, bud) /\ UNCHANGED <<affinity, sc, ipc>>
    BY <1>2, <1>7 DEF Yield
  <2> HIDE DEF bud
  <2> QED
    BY <1>1, <1>3, <2>1, IpcSchedKeeps
<1>8. CASE current[c] \notin Shadows /\ Exit(c)
  <2> DEFINE t == current[c]
             st == [state EXCEPT ![t] = "FREE"]
  <2>1. /\ t \in Threads \ Shadows /\ t \in All
        /\ RRSched(c, NoThread, st, budget) /\ UNCHANGED <<affinity, sc, ipc>>
    BY <1>2, <1>8 DEF Exit, All
  <2>2. /\ state[t] = "RUNNING" /\ t \notin off /\ m[t] = "RUNNING"
        /\ \A d \in CPUs : current[d] = t => d = c
    BY <2>1, OnCpu
  <2>3. st \in [All -> States]
    BY <1>1 DEF States
  <2>4. /\ Hidden(st, active) = off
        /\ CallsFit(st, active, client, source)
        /\ Chained(st, active, source, sc, f)
    <3> HIDE DEF t, off
    <3> QED
      BY <1>1, <1>4, <2>1, <2>2, ChainEnds DEF off
  <2>5. Consistent(queue, [m EXCEPT ![t] = "FREE"], cpuid, Without(current, t))
    <3> HIDE DEF m, t
    <3> QED
      BY <1>1, <2>1, <2>2, Released
  <2>6. [m EXCEPT ![t] = "FREE"] = Masked(st, off)
    <3> HIDE DEF t
    <3> QED
      BY <1>1, <2>1, <2>2 DEF Masked
  <2>7. Without(current, t) = [current EXCEPT ![c] = NoThread]
    BY <1>1, <2>2 DEF Without
  <2>8. Consistent(queue, Masked(st, Hidden(st, active)), cpuid, [current EXCEPT ![c] = NoThread])
    BY <2>4, <2>5, <2>6, <2>7
  <2> HIDE DEF st, t
  <2> QED
    BY <1>4, <2>1, <2>3, <2>4, <2>8, IpcSchedKeeps
<1>9. ASSUME NEW t \in Threads \ Shadows, NEW aff \in CreateAffs, CreateThread(c, t, aff)
      PROVE  IpcInv(Nat)'
  <2> DEFINE k == TargetCpu(c, aff)
             st == [state EXCEPT ![t] = "READY"]
  <2>1. k \in CPUs /\ Accepts(c, aff, "INIT") /\ aff \in CPUs \cup {NoAff}
    BY <1>9 DEF ArgumentsValid, TargetCpu, Accepts
  <2>2. /\ state[t] = "FREE" /\ queue' = Enqueue(queue, k, t)
        /\ state' = st /\ cpuid' = [cpuid EXCEPT ![t] = k]
        /\ hung' = hung /\ current' = current
        /\ affinity' = [affinity EXCEPT ![t] = aff]
        /\ sc' = [sc EXCEPT ![t] = t]
    BY <1>9, <2>1 DEF CreateThread
  <2>3. t \in Threads /\ t \in All
    BY DEF All
  <2>4. sc' = sc
    <3>1. sc[t] = t
      BY <1>4 DEF Chained
    <3> QED
      BY <1>1, <2>2, <3>1 DEF IpcTyped
  <2>5. t \notin off
    BY <2>2 DEF Hidden
  <2>6. /\ Hidden(st, active) = off
        /\ CallsFit(st, active, client, source)
        /\ Chained(st, active, source, sc, f)
    BY <1>1, <1>4, <2>2, ChainBegins
  <2>7. m[t] = "FREE"
    BY <2>2, <2>3, <2>5 DEF Masked
  <2>8. Without(current, t) = current
    <3>1. \A d \in CPUs : current[d] # t
      <4>1. CurrentFits(m, current)
        BY <1>1 DEF Consistent
      <4> HIDE DEF m
      <4> QED
        BY <2>3, <2>7, <4>1, SchedAssumption DEF CurrentFits
    <3> QED
      BY <1>1, <3>1 DEF Without
  <2>9. Consistent(Enqueue(queue, k, t), [m EXCEPT ![t] = "READY"],
                   [cpuid EXCEPT ![t] = k], Without(current, t))
    <3>1. m[t] # "READY"
      BY <2>7
    <3> HIDE DEF m, k
    <3> QED
      BY <1>1, <2>1, <2>3, <3>1, Enqueued
  <2>10. [m EXCEPT ![t] = "READY"] = Masked(st, off)
    BY <1>1, <2>3, <2>5 DEF Masked
  <2>11. Consistent(queue', Masked(state', Hidden(state', active')), cpuid', current')
    BY <1>2, <2>2, <2>6, <2>8, <2>9, <2>10
  <2>12. IpcTyped' /\ AffinityValid'
    <3>1. state' \in [All -> States]
      BY <1>1, <2>2 DEF States
    <3>2. AffinityValid'
      <4>1. \A u \in Threads : affinity'[u] = affinity[u] \/ affinity'[u] = aff
        BY <2>2
      <4> QED
        BY <1>1, <2>1, <4>1 DEF AffinityValid
    <3> QED
      BY <1>1, <1>2, <2>4, <3>1, <3>2 DEF IpcTyped
  <2>13. SomeDepth(Nat)' /\ CallsFit(state', active', client', source')
    BY <1>2, <1>4, <2>2, <2>4, <2>6 DEF SomeDepth
  <2> QED
    BY <1>1, <2>2, <2>11, <2>12, <2>13 DEF IpcInv
<1>10. ASSUME NEW t \in Threads \ Shadows, NEW aff \in SetAffs, SetAffinity(c, t, aff)
       PROVE  IpcInv(Nat)'
  <2>1. /\ affinity' = [affinity EXCEPT ![t] = aff]
        /\ UNCHANGED <<queue, current, state, cpuid, sc, budget, hung>>
        /\ aff \in CPUs \/ aff < 0
    BY <1>10 DEF SetAffinity
  <2>2. aff \in CPUs \cup {NoAff}
    BY <2>1, SchedAssumption DEF ArgumentsValid
  <2>3. AffinityValid'
    <3>1. \A u \in Threads : affinity'[u] = affinity[u] \/ affinity'[u] = aff
      BY <2>1
    <3> QED
      BY <1>1, <2>2, <3>1 DEF AffinityValid
  <2>4. SomeDepth(Nat)'
    BY <1>2, <1>4, <2>1 DEF SomeDepth
  <2> QED
    BY <1>1, <1>2, <2>1, <2>3, <2>4 DEF IpcInv, IpcTyped
<1> QED
  BY <1>5, <1>6, <1>7, <1>8, <1>9, <1>10 DEF Sched

\* sys_register_client(): the new shadow is hidden, and so is what is done to it.
LEMMA RegisterKeeps ==
  ASSUME IpcInv(Nat), NEW c \in CPUs, NEW s \in Shadows, RegisterClient(c, s)
  PROVE  IpcInv(Nat)'
<1> DEFINE off == Hidden(state, active)
           st == [state EXCEPT ![s] = "INIT"]
<1>1. /\ AffinityValid /\ IpcTyped /\ CallsFit(state, active, client, source)
      /\ Consistent(queue, Masked(state, off), cpuid, current)
  BY DEF IpcInv
<1>2. PICK f \in [Threads -> Nat] : Chained(state, active, source, sc, f)
  BY DEF IpcInv, SomeDepth
<1>3. /\ current[c] \in Threads /\ state[s] = "FREE" /\ ~hung /\ state' = st
      /\ affinity' = [affinity EXCEPT ![s] = NoAff]
      /\ sc' = [sc EXCEPT ![s] = NoThread]
      /\ client' = [client EXCEPT ![s] = current[c]]
      /\ queue' = queue /\ current' = current /\ cpuid' = cpuid /\ hung' = hung
      /\ source' = source /\ active' = active
  BY DEF RegisterClient
<1>4. Shadows \subseteq Threads /\ Threads \subseteq All /\ s \in Threads /\ s \in All
  BY ShadowAssumption DEF All
<1>5. ~active[s] /\ s \in off
  BY <1>1, <1>3, <1>4 DEF CallsFit, Hidden, IpcTyped
<1>6. state[current[c]] = "RUNNING" /\ current[c] # s
  BY <1>3, OnCpu
<1>7. /\ \A u \in Threads : /\ st[u] = IF u = s THEN "INIT" ELSE state[u]
                            /\ sc'[u] = IF u = s THEN NoThread ELSE sc[u]
      /\ \A u \in Shadows : client'[u] = IF u = s THEN current[c] ELSE client[u]
  BY <1>1, <1>3, <1>4 DEF IpcTyped
<1>8. \A u \in Threads : Busy(st, active, u) <=> Busy(state, active, u)
  BY <1>3, <1>5, <1>7 DEF Busy
<1>9. Hidden(st, active) = off
  BY <1>3, <1>7 DEF Hidden
<1>10. Masked(st, off) = Masked(state, off)
  BY <1>1, <1>5 DEF Masked, IpcTyped
<1>11. CallsFit(st, active, client', source)
  <2>1. \A u \in Shadows : active[u] =>
           /\ source[u] = client'[u] /\ source[u] \in Threads
           /\ st[source[u]] = "WAITING" /\ st[u] # "FREE"
    BY <1>1, <1>3, <1>4, <1>5, <1>7 DEF CallsFit
  <2>2. \A u \in Shadows : ~active[u] => st[u] \in {"FREE", "INIT", "RUNNING"}
    BY <1>1, <1>4, <1>7 DEF CallsFit
  <2>3. ASSUME NEW u \in Threads, st[u] = "WAITING"
        PROVE  Busy(st, active, u) /\ \E w \in Shadows : active[w] /\ source[w] = u
    <3>1. state[u] = "WAITING"
      BY <2>3, <1>7
    <3>2. /\ Busy(state, active, u)
          /\ \E w \in Shadows : active[w] /\ source[w] = u
      BY <1>1, <3>1 DEF CallsFit
    <3> QED
      BY <3>2, <1>8
  <2>4. \A u \in Shadows : client'[u] # u
    BY <1>1, <1>6, <1>7 DEF CallsFit
  <2> QED
    BY <2>1, <2>2, <2>3, <2>4 DEF CallsFit
<1>12. Chained(st, active, source, sc', f)
  <2>1. \A u \in Threads \ Shadows : sc'[u] = u /\ f[u] = 0
    BY <1>2, <1>7 DEF Chained
  <2>2. \A u \in Threads : Busy(state, active, u) => u # s
    BY <1>3 DEF Busy
  <2>3. \A u \in Shadows : active[u] => /\ sc'[u] = sc'[source[u]]
                                        /\ f[u] = f[source[u]] + 1
    <3>1. \A u \in Shadows : active[u] => source[u] \in Threads /\ source[u] # s /\ u # s
      BY <1>1, <1>3, <1>5 DEF CallsFit
    <3> QED
      BY <1>2, <1>4, <1>7, <3>1 DEF Chained
  <2>4. ASSUME NEW u \in Threads, Busy(st, active, u)
        PROVE  /\ sc'[u] \in Threads \ Shadows /\ st[sc'[u]] # "FREE"
               /\ \E w \in Threads : Busy(st, active, w) /\ st[w] # "WAITING" /\ sc'[w] = sc'[u]
    <3>1. Busy(state, active, u) /\ u # s /\ sc'[u] = sc[u]
      BY <2>2, <2>4, <1>7, <1>8
    <3>2. sc[u] \in Threads \ Shadows /\ state[sc[u]] # "FREE"
      BY <3>1, <1>2 DEF Chained
    <3>3. PICK w \in Threads : Busy(state, active, w) /\ state[w] # "WAITING" /\ sc[w] = sc[u]
      BY <3>1, <1>2 DEF Chained
    <3>4. Busy(st, active, w) /\ st[w] # "WAITING" /\ sc'[w] = sc'[u]
      BY <2>2, <3>1, <3>3, <1>7, <1>8
    <3> QED
      BY <3>1, <3>2, <3>4, <1>7
  <2>5. \A u, w \in Threads :
          Busy(st, active, u) /\ Busy(st, active, w) /\ sc'[u] = sc'[w] /\ u # w =>
              f[u] # f[w] /\ (st[w] # "WAITING" => f[u] < f[w])
    BY <2>2, <1>2, <1>7, <1>8 DEF Chained
  <2> QED
    BY <2>1, <2>3, <2>4, <2>5 DEF Chained
<1>13. IpcTyped'
  <2>1. st \in [All -> States]
    BY <1>1 DEF IpcTyped, States
  <2>2. sc' \in [All -> All \cup {NoThread}]
    BY <1>1, <1>3 DEF IpcTyped
  <2>3. client' \in [Shadows -> Threads \cup {NoThread}]
    BY <1>1, <1>3 DEF IpcTyped
  <2> QED
    BY <1>1, <1>3, <2>1, <2>2, <2>3 DEF IpcTyped
<1>14. AffinityValid'
  <2>1. \A u \in Threads : affinity'[u] = affinity[u] \/ affinity'[u] = NoAff
    BY <1>3
  <2> QED
    BY <1>1, <2>1 DEF AffinityValid
<1>15. Consistent(queue', Masked(state', Hidden(state', active')), cpuid', current')
  BY <1>1, <1>3, <1>9, <1>10
<1>16. SomeDepth(Nat)' /\ CallsFit(state', active', client', source')
  BY <1>3, <1>11, <1>12 DEF SomeDepth
<1> QED
  BY <1>3, <1>13, <1>14, <1>15, <1>16 DEF IpcInv

\* sys_ipc_call() on a connection of the thread that calls.  The shadow is not
\* serving another call: if it were, its client would be waiting.
LEMMA CallKeeps ==
  ASSUME IpcInv(Nat), NEW c \in CPUs, NEW s \in Shadows,
         client[s] = current[c], Call(c, s)
  PROVE  IpcInv(Nat)'
<1> DEFINE off == Hidden(state, active)
           m == Masked(state, off)
           t == current[c]
           st == [state EXCEPT ![t] = "WAITING"]
<1>1. /\ AffinityValid /\ IpcTyped /\ CallsFit(state, active, client, source)
      /\ Consistent(queue, m, cpuid, current)
      /\ current \in [CPUs -> All \cup {NoThread}] /\ cpuid \in [All -> CPUs]
      /\ state \in [All -> States] /\ ~hung
  BY DEF IpcInv, Consistent, Typed, IpcTyped
<1>2. PICK f \in [Threads -> Nat] : Chained(state, active, source, sc, f)
  BY DEF IpcInv, SomeDepth
<1>3. Shadows \subseteq Threads /\ Threads \subseteq All /\ s \in Threads /\ s \in All
  BY ShadowAssumption DEF All
<1>4. t \in Threads /\ client[s] = t
  BY DEF Call
<1>5. /\ state[t] = "RUNNING" /\ t \notin off /\ Busy(state, active, t)
      /\ \A d \in CPUs : current[d] = t => d = c
      /\ m[t] = "RUNNING" /\ t \in All
  BY <1>3, <1>4, OnCpu
<1>6. ~active[s] /\ s # t
  BY <1>1, <1>4, <1>5 DEF CallsFit
<1>7. s \in off /\ state[s] \in {"FREE", "INIT", "RUNNING"} /\ st[s] = state[s]
  BY <1>1, <1>3, <1>6 DEF Hidden, CallsFit
<1>8. /\ SwitchTo(c, s, st)
      /\ source' = [source EXCEPT ![s] = t]
      /\ active' = [active EXCEPT ![s] = TRUE]
      /\ sc' = [sc EXCEPT ![s] = sc[t]]
      /\ queue' = queue /\ affinity' = affinity /\ client' = client
  BY DEF Call
<1>9. /\ state' = [st EXCEPT ![s] = "RUNNING"]
      /\ cpuid' = [cpuid EXCEPT ![s] = c]
      /\ current' = [current EXCEPT ![c] = s] /\ hung' = hung
  <2> HIDE DEF st
  <2> QED
    BY <1>7, <1>8 DEF SwitchTo
<1>10. state' = [state EXCEPT ![t] = "WAITING", ![s] = "RUNNING"]
  BY <1>9
<1> HIDE DEF st
<1> DEFINE f2 == [f EXCEPT ![s] = f[t] + 1]
<1>11. /\ Hidden(state', active') = (off \cup {t}) \ {s}
       /\ CallsFit(state', active', client, source')
       /\ Chained(state', active', source', sc', f2)
  <2>1. /\ active \in [Shadows -> BOOLEAN] /\ sc \in [All -> All \cup {NoThread}]
        /\ source \in [Shadows -> Threads \cup {NoThread}]
    BY <1>1 DEF IpcTyped
  <2> HIDE DEF t
  <2>2. \A u \in Threads :
           /\ state'[u] = IF u = s THEN "RUNNING" ELSE IF u = t THEN "WAITING" ELSE state[u]
           /\ sc'[u] = IF u = s THEN sc[t] ELSE sc[u]
           /\ f2[u] = IF u = s THEN f[t] + 1 ELSE f[u]
    BY <1>1, <1>3, <1>6, <1>8, <1>10, <2>1
  <2>3. \A u \in Shadows :
           /\ active'[u] <=> active[u] \/ u = s
           /\ source'[u] = IF u = s THEN t ELSE source[u]
    BY <1>8, <2>1
  <2>4. /\ CallsFit(state, active, client, source)
        /\ state \in [All -> States] /\ state[t] = "RUNNING" /\ Busy(state, active, t)
        /\ ~active[s] /\ client[s] = t /\ s # t /\ t \in Threads
    BY <1>1, <1>4, <1>5, <1>6
  <2> HIDE DEF f2
  <2>5. /\ Hidden(state', active') = (Hidden(state, active) \cup {t}) \ {s}
        /\ CallsFit(state', active', client, source')
        /\ Chained(state', active', source', sc', f2)
    <3>1. Called(state, active, source, sc, f, t, s, state', active', source', sc', f2)
      BY <2>2, <2>3 DEF Called
    <3> QED
      BY <1>2, <2>1, <2>4, <3>1, ChainGrows
  <2> QED
    BY <2>5
<1> DEFINE m1 == [m EXCEPT ![t] = "FREE"]
           m2 == [m1 EXCEPT ![s] = "RUNNING"]
           cur == [current EXCEPT ![c] = NoThread]
<1>12. Consistent(queue, m1, cpuid, Without(current, t))
  <2> HIDE DEF m, t
  <2> QED
    BY <1>1, <1>4, <1>5, Released
<1>13. Without(current, t) = [current EXCEPT ![c] = NoThread]
  BY <1>1, <1>5 DEF Without
<1>14. m1[s] = "FREE"
  BY <1>3, <1>6, <1>7 DEF Masked
<1>15. Consistent(queue, m2, [cpuid EXCEPT ![s] = c], [cur EXCEPT ![c] = s])
  <2>1. Consistent(queue, m1, cpuid, cur) /\ cur[c] = NoThread
    BY <1>1, <1>12, <1>13
  <2> HIDE DEF m1, cur
  <2> QED
    BY <1>3, <1>14, <2>1, HandedOver
<1>16. [cur EXCEPT ![c] = s] = [current EXCEPT ![c] = s]
  BY <1>1
<1>17. m2 = Masked(state', (off \cup {t}) \ {s})
  <2> HIDE DEF t, off
  <2> QED
    BY <1>1, <1>3, <1>5, <1>6, <1>7, <1>10 DEF Masked
<1>18. Consistent(queue', Masked(state', Hidden(state', active')), cpuid', current')
  BY <1>8, <1>9, <1>11, <1>15, <1>16, <1>17
<1>19. IpcTyped'
  <2>1. state' \in [All -> States]
    BY <1>1, <1>10 DEF States
  <2>2. sc' \in [All -> All \cup {NoThread}]
    BY <1>1, <1>5, <1>8 DEF IpcTyped
  <2>3. /\ source' \in [Shadows -> Threads \cup {NoThread}]
        /\ active' \in [Shadows -> BOOLEAN]
    BY <1>1, <1>4, <1>8 DEF IpcTyped
  <2> QED
    BY <1>1, <1>8, <2>1, <2>2, <2>3 DEF IpcTyped
<1>20. SomeDepth(Nat)' /\ CallsFit(state', active', client', source')
  <2>1. f2 \in [Threads -> Nat]
    <3>1. f[t] + 1 \in Nat
      BY <1>4
    <3> QED
      BY <3>1
  <2> HIDE DEF f2
  <2> QED
    BY <1>8, <1>11, <2>1 DEF SomeDepth
<1> QED
  BY <1>1, <1>8, <1>9, <1>18, <1>19, <1>20 DEF IpcInv, AffinityValid

\* sys_ipc_return(): the caller is resumed on the CPU of the callee.
LEMMA ReturnKeeps ==
  ASSUME IpcInv(Nat), NEW c \in CPUs, Return(c)
  PROVE  IpcInv(Nat)'
<1> DEFINE off == Hidden(state, active)
           m == Masked(state, off)
           s == current[c]
           t == source[s]
<1>1. /\ AffinityValid /\ IpcTyped /\ CallsFit(state, active, client, source)
      /\ Consistent(queue, m, cpuid, current)
      /\ current \in [CPUs -> All \cup {NoThread}] /\ cpuid \in [All -> CPUs]
      /\ state \in [All -> States] /\ ~hung
  BY DEF IpcInv, Consistent, Typed, IpcTyped
<1>2. PICK f \in [Threads -> Nat] : Chained(state, active, source, sc, f)
  BY DEF IpcInv, SomeDepth
<1>3. Shadows \subseteq Threads /\ Threads \subseteq All
  BY ShadowAssumption DEF All
<1>4. s \in Shadows /\ s \in Threads /\ s \in All /\ active[s] /\ SwitchTo(c, t, state)
  BY <1>3 DEF Return
<1>5. /\ state[s] = "RUNNING" /\ s \notin off /\ m[s] = "RUNNING"
      /\ \A d \in CPUs : current[d] = s => d = c
  BY <1>4, OnCpu
<1>6. t \in Threads /\ t \in All /\ state[t] = "WAITING" /\ t # s /\ t \in off
  BY <1>1, <1>3, <1>4, <1>5 DEF CallsFit, Hidden
<1>7. /\ state' = [state EXCEPT ![t] = "RUNNING"]
      /\ cpuid' = [cpuid EXCEPT ![t] = c]
      /\ current' = [current EXCEPT ![c] = t] /\ hung' = hung
      /\ active' = [active EXCEPT ![s] = FALSE]
      /\ queue' = queue /\ affinity' = affinity /\ sc' = sc
      /\ client' = client /\ source' = source
  BY <1>4, <1>6 DEF Return, SwitchTo
<1>8. /\ Hidden(state', active') = (off \cup {s}) \ {t}
      /\ CallsFit(state', active', client, source)
      /\ Chained(state', active', source, sc, f)
  <2>1. active \in [Shadows -> BOOLEAN]
    BY <1>1 DEF IpcTyped
  <2>2. t = source[s]
    OBVIOUS
  <2> HIDE DEF t, s
  <2>3. /\ \A u \in Threads : state'[u] = IF u = t THEN "RUNNING" ELSE state[u]
        /\ \A u \in Shadows : active'[u] <=> active[u] /\ u # s
    BY <1>1, <1>3, <1>7, <2>1
  <2> QED
    BY <1>1, <1>2, <1>4, <1>5, <1>6, <2>1, <2>2, <2>3, ChainShrinks
<1> DEFINE m1 == [m EXCEPT ![s] = "FREE"]
           m2 == [m1 EXCEPT ![t] = "RUNNING"]
           cur == [current EXCEPT ![c] = NoThread]
<1>9. Consistent(queue, m1, cpuid, Without(current, s))
  <2> HIDE DEF m, s
  <2> QED
    BY <1>1, <1>4, <1>5, Released
<1>10. Without(current, s) = [current EXCEPT ![c] = NoThread]
  BY <1>1, <1>5 DEF Without
<1>11. m1[t] = "FREE"
  <2> HIDE DEF t, s, off
  <2> QED
    BY <1>6 DEF Masked
<1>12. Consistent(queue, m2, [cpuid EXCEPT ![t] = c], [cur EXCEPT ![c] = t])
  <2>1. Consistent(queue, m1, cpuid, cur) /\ cur[c] = NoThread
    BY <1>1, <1>9, <1>10
  <2> HIDE DEF m1, cur, t
  <2> QED
    BY <1>6, <1>11, <2>1, HandedOver
<1>13. [cur EXCEPT ![c] = t] = [current EXCEPT ![c] = t]
  BY <1>1
<1>14. m2 = Masked(state', (off \cup {s}) \ {t})
  <2> HIDE DEF t, s, off
  <2> QED
    BY <1>1, <1>4, <1>6, <1>7 DEF Masked
<1>15. Consistent(queue', Masked(state', Hidden(state', active')), cpuid', current')
  BY <1>7, <1>8, <1>12, <1>13, <1>14
<1>16. IpcTyped'
  <2>1. state' \in [All -> States]
    BY <1>1, <1>7 DEF States
  <2>2. active' \in [Shadows -> BOOLEAN]
    BY <1>1, <1>7 DEF IpcTyped
  <2> QED
    BY <1>1, <1>7, <2>1, <2>2 DEF IpcTyped
<1>17. SomeDepth(Nat)' /\ CallsFit(state', active', client', source')
  BY <1>2, <1>7, <1>8 DEF SomeDepth
<1> QED
  BY <1>1, <1>7, <1>15, <1>16, <1>17 DEF IpcInv, AffinityValid

\* Every step, those of IPC among them, keeps the invariant.
LEMMA IpcStepKeeps ==
  ASSUME ArgumentsValid, IpcInv(Nat), IpcNext
  PROVE  IpcInv(Nat)'
<1>1. PICK c \in CPUs :
        \/ Sched(c) \/ Return(c)
        \/ \E s \in Shadows : RegisterClient(c, s) \/ (client[s] = current[c] /\ Call(c, s))
  BY DEF IpcNext
<1>2. CASE Sched(c)
  BY <1>2, SchedPart
<1>3. CASE Return(c)
  BY <1>3, ReturnKeeps
<1>4. ASSUME NEW s \in Shadows, RegisterClient(c, s)
      PROVE  IpcInv(Nat)'
  BY <1>4, RegisterKeeps
<1>5. ASSUME NEW s \in Shadows, client[s] = current[c], Call(c, s)
      PROVE  IpcInv(Nat)'
  BY <1>5, CallKeeps
<1> QED
  BY <1>1, <1>2, <1>3, <1>4, <1>5

\* At boot every shadow is free, so that hiding it changes nothing.
LEMMA IpcBoots == IpcInit => IpcInv(Nat)
<1> SUFFICES ASSUME IpcInit PROVE IpcInv(Nat)
  OBVIOUS
<1>1. /\ Init /\ client = [s \in Shadows |-> NoThread]
      /\ source = [s \in Shadows |-> NoThread] /\ active = [s \in Shadows |-> FALSE]
  BY DEF IpcInit
<1>2. IInv
  BY <1>1, BootEstablishes
<1>3. /\ Consistent(queue, state, cpuid, current) /\ ~hung
      /\ state \in [All -> States] /\ sc = [t \in All |-> t] /\ AffinityValid
  BY <1>2, InvariantsSay DEF IInv, TypeOK
<1>4. Shadows \subseteq Threads \ {Root} /\ Threads \subseteq All /\ Threads \cap CPUs = {}
  BY ShadowAssumption, SchedAssumption DEF All
<1>5. \A t \in Threads : state[t] = IF t = Root THEN "READY" ELSE "FREE"
  BY <1>1, <1>4 DEF Init
<1>6. Hidden(state, active) = Shadows
  BY <1>1, <1>4, <1>5 DEF Hidden
<1>7. Masked(state, Shadows) = state
  <2>1. \A t \in All : t \in Shadows => state[t] = "FREE"
    BY <1>4, <1>5
  <2> QED
    BY <1>3, <2>1 DEF Masked
<1>8. IpcTyped
  BY <1>1, <1>3 DEF IpcTyped
<1>9. CallsFit(state, active, client, source)
  <2>1. \A s \in Shadows : s # NoThread
    BY <1>4, SchedAssumption
  <2> QED
    BY <1>1, <1>4, <1>5, <2>1 DEF CallsFit
<1>10. SomeDepth(Nat)
  <2> DEFINE f == [t \in Threads |-> 0]
  <2>1. \A t \in Threads : Busy(state, active, t) <=> t = Root
    BY <1>1, <1>4, <1>5, SchedAssumption DEF Busy
  <2>2. \A t \in Threads : sc[t] = t /\ f[t] = 0
    BY <1>3, <1>4
  <2>3. Root \in Threads \ Shadows /\ state[Root] = "READY"
    BY <1>4, <1>5, SchedAssumption
  <2>4. f \in [Threads -> Nat]
    OBVIOUS
  <2> HIDE DEF f
  <2>5. Chained(state, active, source, sc, f)
    BY <1>1, <2>1, <2>2, <2>3 DEF Chained
  <2> QED
    BY <2>4, <2>5 DEF SomeDepth
<1> QED
  BY <1>3, <1>6, <1>7, <1>8, <1>9, <1>10 DEF IpcInv

-----------------------------------------------------------------------------
\* What the invariant says of a thread's place.
LEMMA Places ==
  ASSUME IpcInv(Nat), NEW t \in Threads
  PROVE  LET m == Masked(state, Hidden(state, active)) IN
         /\ m[t] = IF t \in Hidden(state, active) THEN "FREE" ELSE state[t]
         /\ m[t] \in {"FREE", "READY", "RUNNING"}
         /\ m[t] = "FREE" => OnCpus(t) = {} /\ QueuedAt(t) = {}
         /\ m[t] = "READY" => OnCpus(t) = {} /\ \E x : QueuedAt(t) = {x}
         /\ m[t] = "RUNNING" => QueuedAt(t) = {} /\ \E c : OnCpus(t) = {c}
<1> DEFINE m == Masked(state, Hidden(state, active))
<1>1. m[t] = IF t \in Hidden(state, active) THEN "FREE" ELSE state[t]
  BY DEF Masked, All
<1>2. QueuesFit(queue, m, cpuid) /\ ThreadsFit(queue, m, cpuid, current) /\ CurrentFits(m, current)
  BY DEF IpcInv, Consistent
<1> HIDE DEF m
<1>3. m[t] \in {"FREE", "READY", "RUNNING"}
  BY <1>2 DEF ThreadsFit
<1>4. \A x : x \in QueuedAt(t) <=>
        \E c \in CPUs : \E i \in 1..Len(queue[c]) : queue[c][i] = t /\ x = <<c, i>>
  BY DEF QueuedAt
<1>5. \A c \in CPUs : t # c /\ t # NoThread
  BY SchedAssumption
<1>6. m[t] # "READY" => QueuedAt(t) = {}
  <2>1. \A c \in CPUs : \A i \in 1..Len(queue[c]) : m[queue[c][i]] = "READY"
    BY <1>2 DEF QueuesFit
  <2> QED
    BY <1>4, <2>1
<1>7. m[t] # "RUNNING" => OnCpus(t) = {}
  BY <1>2, <1>5 DEF CurrentFits, OnCpus
<1>8. m[t] = "READY" => \E x : QueuedAt(t) = {x}
  <2> SUFFICES ASSUME m[t] = "READY" PROVE \E x : QueuedAt(t) = {x}
    OBVIOUS
  <2>1. PICK c \in CPUs : \E i \in 1..Len(queue[c]) : queue[c][i] = t
    BY <1>2 DEF ThreadsFit
  <2>2. PICK i \in 1..Len(queue[c]) : queue[c][i] = t
    BY <2>1
  <2>3. \A d \in CPUs : \A j \in 1..Len(queue[d]) : queue[d][j] = t => c = d /\ i = j
    BY <2>2, <1>2 DEF QueuesFit
  <2>4. QueuedAt(t) = {<<c, i>>}
    BY <1>4, <2>2, <2>3
  <2> QED
    BY <2>4
<1>9. m[t] = "RUNNING" => \E c : OnCpus(t) = {c}
  <2> SUFFICES ASSUME m[t] = "RUNNING" PROVE \E c : OnCpus(t) = {c}
    OBVIOUS
  <2>1. PICK c \in CPUs : current[c] = t
    BY <1>2 DEF ThreadsFit
  <2>2. \A d \in CPUs : current[d] = t => d = c
    BY <2>1, <1>2, <1>5 DEF CurrentFits
  <2>3. OnCpus(t) = {c}
    BY <2>1, <2>2 DEF OnCpus
  <2> QED
    BY <2>3
<1> QED
  BY <1>1, <1>3, <1>6, <1>7, <1>8, <1>9 DEF m

\* Those that can run are the ends of the chains of calls.
LEMMA RunnersAreEnds ==
  ASSUME IpcInv(Nat), NEW t \in Threads
  PROVE  /\ Runnable(t) <=> Busy(state, active, t) /\ state[t] # "WAITING"
         /\ Parked(t) <=> t \in Shadows /\ ~active[t]
<1> DEFINE m == Masked(state, Hidden(state, active))
<1>1. /\ m[t] = IF t \in Hidden(state, active) THEN "FREE" ELSE state[t]
      /\ m[t] \in {"FREE", "READY", "RUNNING"}
      /\ m[t] = "FREE" => OnCpus(t) = {} /\ QueuedAt(t) = {}
      /\ m[t] = "READY" => OnCpus(t) = {} /\ \E x : QueuedAt(t) = {x}
      /\ m[t] = "RUNNING" => QueuedAt(t) = {} /\ \E c : OnCpus(t) = {c}
  BY Places
<1> HIDE DEF m
<1>2. Runnable(t) <=> m[t] # "FREE"
  BY <1>1 DEF Runnable
<1>3. t \in Hidden(state, active) <=> state[t] = "WAITING" \/ (t \in Shadows /\ ~active[t])
  BY DEF Hidden
<1> QED
  BY <1>1, <1>2, <1>3 DEF Busy, Parked

\* The invariant gives that every thread is queued, running or waiting for a reason.
LEMMA AccountedFor == IpcInv(Nat) => EveryThreadAccounted
<1> SUFFICES ASSUME IpcInv(Nat), NEW t \in Threads
             PROVE  CASE state[t] = "FREE"    -> ~Runnable(t)
                      [] state[t] = "READY"   -> Cardinality(QueuedAt(t)) = 1 /\ OnCpus(t) = {}
                      [] state[t] = "RUNNING" -> Parked(t) \/ (/\ Cardinality(OnCpus(t)) = 1
                                                               /\ QueuedAt(t) = {})
                      [] state[t] = "INIT"    -> Parked(t)
                      [] state[t] = "WAITING" -> /\ ~Runnable(t)
                                                 /\ Cardinality({s \in Shadows :
                                                        active[s] /\ source[s] = t}) = 1
                      [] OTHER                -> FALSE
  BY DEF EveryThreadAccounted
<1> DEFINE m == Masked(state, Hidden(state, active))
           callees == {s \in Shadows : active[s] /\ source[s] = t}
<1>1. /\ m[t] = IF t \in Hidden(state, active) THEN "FREE" ELSE state[t]
      /\ m[t] \in {"FREE", "READY", "RUNNING"}
      /\ m[t] = "READY" => OnCpus(t) = {} /\ \E x : QueuedAt(t) = {x}
      /\ m[t] = "RUNNING" => QueuedAt(t) = {} /\ \E c : OnCpus(t) = {c}
  BY Places
<1>2. m[t] = "READY" => OnCpus(t) = {} /\ Cardinality(QueuedAt(t)) = 1
  BY <1>1, FS_Singleton
<1>3. m[t] = "RUNNING" => QueuedAt(t) = {} /\ Cardinality(OnCpus(t)) = 1
  BY <1>1, FS_Singleton
<1>4. t \in Hidden(state, active) <=> state[t] = "WAITING" \/ (t \in Shadows /\ ~active[t])
  BY DEF Hidden
<1>5. /\ Runnable(t) <=> Busy(state, active, t) /\ state[t] # "WAITING"
      /\ Parked(t) <=> t \in Shadows /\ ~active[t]
  BY RunnersAreEnds
<1>6. CallsFit(state, active, client, source)
  BY DEF IpcInv
<1>7. state[t] = "WAITING" => Cardinality(callees) = 1
  <2> SUFFICES ASSUME state[t] = "WAITING" PROVE Cardinality(callees) = 1
    OBVIOUS
  <2>1. PICK s \in Shadows : active[s] /\ source[s] = t
    BY <1>6 DEF CallsFit
  <2>2. PICK f \in [Threads -> Nat] : Chained(state, active, source, sc, f)
    BY DEF IpcInv, SomeDepth
  <2>3. ASSUME NEW u \in Shadows, active[u], source[u] = t PROVE u = s
    <3>1. Busy(state, active, u) /\ Busy(state, active, s) /\ u \in Threads /\ s \in Threads
      BY <1>6, <2>1, <2>3, ShadowAssumption DEF CallsFit, Busy
    <3>2. sc[u] = sc[s] /\ f[u] = f[s]
      BY <2>1, <2>2, <2>3 DEF Chained
    <3> QED
      BY <2>2, <3>1, <3>2 DEF Chained
  <2>4. callees = {s}
    BY <2>1, <2>3
  <2> QED
    BY <2>4, FS_Singleton
<1>8. CASE state[t] = "FREE"
  BY <1>5, <1>8 DEF Busy
<1>9. CASE state[t] = "READY"
  <2>1. ~(t \in Shadows /\ ~active[t])
    BY <1>6, <1>9 DEF CallsFit
  <2> HIDE DEF m
  <2> QED
    BY <2>1, <1>1, <1>2, <1>4, <1>9
<1>10. CASE state[t] = "RUNNING"
  <2> HIDE DEF m
  <2> QED
    BY <1>1, <1>3, <1>4, <1>5, <1>10
<1>11. CASE state[t] = "INIT"
  <2> HIDE DEF m
  <2> QED
    BY <1>1, <1>4, <1>5, <1>11
<1>12. CASE state[t] = "WAITING"
  BY <1>5, <1>7, <1>12
<1>13. state[t] \in {"FREE", "READY", "RUNNING", "INIT", "WAITING"}
  <2> HIDE DEF m
  <2>1. CASE t \in Hidden(state, active)
    BY <2>1, <1>4, <1>6 DEF CallsFit
  <2>2. CASE t \notin Hidden(state, active)
    BY <2>2, <1>1
  <2> QED
    BY <2>1, <2>2
<1> QED
  BY <1>8, <1>9, <1>10, <1>11, <1>12, <1>13

\* The invariant gives that one thread at most runs on a scheduling context.
LEMMA OneEndPerChain == IpcInv(Nat) => OneRunnerPerContext
<1> SUFFICES ASSUME IpcInv(Nat), NEW t \in Threads, state[t] # "FREE", ~Parked(t)
             PROVE  Cardinality({u \in Threads : Runnable(u) /\ sc[u] = sc[t]}) = 1
  BY DEF OneRunnerPerContext
<1>1. PICK f \in [Threads -> Nat] : Chained(state, active, source, sc, f)
  BY DEF IpcInv, SomeDepth
<1>2. \A u \in Threads : Runnable(u) <=> Busy(state, active, u) /\ state[u] # "WAITING"
  BY RunnersAreEnds
<1>3. Busy(state, active, t)
  BY RunnersAreEnds DEF Busy
<1>4. PICK e \in Threads : Busy(state, active, e) /\ state[e] # "WAITING" /\ sc[e] = sc[t]
  BY <1>1, <1>3 DEF Chained
<1>5. ASSUME NEW u \in Threads, Runnable(u), sc[u] = sc[t] PROVE u = e
  <2>1. Busy(state, active, u) /\ state[u] # "WAITING"
    BY <1>2, <1>5
  <2>2. u # e => f[u] < f[e] /\ f[e] < f[u]
    BY <1>1, <1>4, <1>5, <2>1 DEF Chained
  <2>3. f[u] \in Nat /\ f[e] \in Nat
    OBVIOUS
  <2> QED
    BY <2>2, <2>3
<1>6. {u \in Threads : Runnable(u) /\ sc[u] = sc[t]} = {e}
  BY <1>2, <1>4, <1>5
<1> QED
  BY <1>6, FS_Singleton

-----------------------------------------------------------------------------
\* Whatever calls, returns, interrupts and exits follow each other, the scheduler's
\* structures fit the threads that are not hidden, and those that are hang together
\* in chains (kernel/ipc/ipc_call.c, ipc_return.c).
THEOREM IpcInvariant ==
  ASSUME ArgumentsValid
  PROVE  IpcSpec => []IpcInv(Nat)
<1>1. IpcInit => IpcInv(Nat)
  BY IpcBoots
<1>2. IpcInv(Nat) /\ [IpcNext]_ipcVars => IpcInv(Nat)'
  <2> SUFFICES ASSUME IpcInv(Nat), [IpcNext]_ipcVars PROVE IpcInv(Nat)'
    OBVIOUS
  <2>1. CASE IpcNext
    BY <2>1, IpcStepKeeps
  <2>2. CASE UNCHANGED ipcVars
    <3>1. /\ queue' = queue /\ current' = current /\ state' = state /\ cpuid' = cpuid
          /\ affinity' = affinity /\ sc' = sc /\ hung' = hung
          /\ client' = client /\ source' = source /\ active' = active
      BY <2>2 DEF ipcVars, vars, ipc
    <3> QED
      BY <3>1 DEF IpcInv, IpcTyped, AffinityValid, SomeDepth
  <2> QED
    BY <2>1, <2>2
<1> QED
  BY <1>1, <1>2, PTL DEF IpcSpec

\* thread_migrate_to_server() and thread_migrate_to_client() lose no thread: one
\* that is in no queue and on no CPU is a shadow between two calls, or waits for
\* exactly one active connection.
THEOREM ThreadsAccounted ==
  ASSUME ArgumentsValid
  PROVE  IpcSpec => []EveryThreadAccounted
<1>1. IpcInv(Nat) => EveryThreadAccounted
  BY AccountedFor
<1> QED
  BY <1>1, IpcInvariant, PTL

\* Of the threads that share a scheduling context exactly one can run, so that no
\* two CPUs charge one budget and no chain of calls loses its end.
THEOREM OneRunner ==
  ASSUME ArgumentsValid
  PROVE  IpcSpec => []OneRunnerPerContext
<1>1. IpcInv(Nat) => OneRunnerPerContext
  BY OneEndPerChain
<1> QED
  BY <1>1, IpcInvariant, PTL

\* The BUG_ON of switch_to_thread() and those on the scheduler's path hold, with
\* calls and returns in between.
THEOREM IpcAssertionsHold ==
  ASSUME ArgumentsValid
  PROVE  IpcSpec => []NeverHangs
<1>1. IpcInv(Nat) => NeverHangs
  BY DEF IpcInv, NeverHangs
<1> QED
  BY <1>1, IpcInvariant, PTL
=============================================================================
