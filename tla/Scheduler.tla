----------------------------- MODULE Scheduler ------------------------------
(***************************************************************************)
(* The round-robin scheduler: sched/policy_rr.c, sched/sched.c and the     *)
(* system calls and interrupts that end in it (process/thread.c,           *)
(* exception/irq.c, exception/timer.c).                                    *)
(*                                                                         *)
(* Every entry into the kernel is one step, because it runs under the big  *)
(* kernel lock from its first access to this state to its last             *)
(* (KernelEntry).  thread_ctx fields are functions of the thread.          *)
(***************************************************************************)
EXTENDS Integers, Sequences

CONSTANTS CPUs,          \* 0..(PLAT_CPU_NUM - 1); c is also the idle thread of CPU c
          Threads,       \* what obj_alloc(TYPE_THREAD) can return
          Root,          \* the thread of process_create_root()
          NoThread,      \* NULL
          DefaultBudget, \* DEFAULT_BUDGET
          CreateAffs,    \* the aff arguments of sys_create_thread
          SetAffs        \* the aff arguments of sys_set_affinity

NoAff == -1

\* Programs name a CPU or NO_AFF when they create a thread; what they may name
\* in sys_set_affinity is up to the theorem or the run.
ASSUME SchedAssumption ==
    /\ CPUs \subseteq Nat /\ 0 \in CPUs
    /\ Root \in Threads
    /\ Threads \cap CPUs = {} /\ NoThread \notin Threads \cup CPUs
    /\ DefaultBudget \in Nat \ {0}
    /\ CreateAffs \subseteq Int /\ SetAffs \subseteq Int

VARIABLES queue,    \* rr_ready_queue
          current,  \* current_threads
          state,    \* thread_ctx->state; FREE if the object is not allocated
          cpuid,    \* thread_ctx->cpuid
          affinity, \* thread_ctx->affinity
          sc,       \* thread_ctx->sc: the thread whose sched_cont_t it is
          budget,   \* sc->budget
          hung      \* a BUG_ON has stopped a CPU that holds the big kernel lock

vars == <<queue, current, state, cpuid, affinity, sc, budget, hung>>

All    == Threads \cup CPUs            \* every thread, the idle ones included
States == {"FREE", "INIT", "READY", "INTER", "RUNNING", "EXIT", "WAITING"}

-----------------------------------------------------------------------------
(* rr_sched_enqueue(), rr_sched_dequeue() *)

\* Mutant: NO_AFF sends a thread to CPU 0.
TargetCpuZero(c, aff) == IF aff = NoAff THEN 0 ELSE aff

\* The queue for a thread with affinity aff that CPU c enqueues.
TargetCpu(c, aff) == IF aff = NoAff THEN c ELSE aff

\* Mutant: only a thread that was running is accepted.
AcceptsRunningOnly(c, aff, st) == st = "RUNNING" /\ TargetCpu(c, aff) \in CPUs

\* Whether a thread in state st is enqueued; -EINVAL otherwise.
Accepts(c, aff, st) == st # "READY" /\ TargetCpu(c, aff) \in CPUs

\* Mutant: list_add for list_append.
EnqueueFront(q, k, t) == [q EXCEPT ![k] = <<t>> \o @]

Enqueue(q, k, t) == [q EXCEPT ![k] = Append(@, t)]

\* Mutant: the chosen thread stays in its queue.
DequeueForgotten(q, c, t) == q

\* t is the head of queue c, or the idle thread, which is in none
Dequeue(q, c, t) == IF t \in Threads THEN [q EXCEPT ![c] = Tail(@)] ELSE q

-----------------------------------------------------------------------------
(* rr_sched() *)

\* A thread with budget left keeps its CPU.
KeepsCpu(t, bud) == t # NoThread /\ sc[t] # NoThread /\ bud[sc[t]] # 0

\* rr_sched_choose_thread()
Choose(c, q) == IF q[c] = <<>> THEN c ELSE Head(q[c])

\* The second half of rr_sched() on CPU c, when q, s, cpu and bud are the queues,
\* states, cpuids and budgets and cur is current_thread.
Switch(c, cur, q, s, cpu, bud) ==
    LET target == Choose(c, q)
    IN  IF target \in Threads /\ s[target] # "READY"
        THEN \* rr_sched_dequeue() fails, rr_sched() returns -EINVAL; without a
             \* current thread switch_context() stops at its BUG_ON
             /\ current' = [current EXCEPT ![c] = cur]
             /\ queue' = q /\ state' = s /\ cpuid' = cpu /\ budget' = bud
             /\ hung' = (cur = NoThread)
        ELSE \* switch_to_thread()
             /\ current' = [current EXCEPT ![c] = target]
             /\ queue' = Dequeue(q, c, target)
             /\ state' = [s EXCEPT ![target] = "RUNNING"]
             /\ cpuid' = [cpu EXCEPT ![target] = c]
             /\ budget' = [bud EXCEPT ![sc[target]] = DefaultBudget]
             /\ UNCHANGED hung

\* rr_sched() on CPU c when current_thread is cur and the states and budgets are
\* st and bud.  An idle thread is never enqueued, and what rr_sched_enqueue()
\* returns is ignored.
RRSched(c, cur, st, bud) ==
    IF KeepsCpu(cur, bud)
    THEN /\ current' = [current EXCEPT ![c] = cur]
         /\ state' = st /\ budget' = bud
         /\ UNCHANGED <<queue, cpuid, hung>>
    ELSE IF cur \in Threads /\ Accepts(c, affinity[cur], st[cur])
    THEN LET k == TargetCpu(c, affinity[cur])
         IN  Switch(c, cur, Enqueue(queue, k, cur), [st EXCEPT ![cur] = "READY"],
                    [cpuid EXCEPT ![cur] = k], bud)
    ELSE Switch(c, cur, queue, st, cpuid, bud)

-----------------------------------------------------------------------------
(* The entries *)

\* main() and secondary_start(): the first sched() of a CPU
FirstSched(c) ==
    /\ ~hung /\ current[c] = NoThread
    /\ RRSched(c, NoThread, state, budget)
    /\ UNCHANGED <<affinity, sc>>

\* Mutant: the budget is not compared with 0 first.
TickUnchecked(b) == b - 1

\* rr_sched_handle_timer_irq()
Tick(b) == IF b > 0 THEN b - 1 ELSE b

\* Mutant: handle_irq() does not call sched().
TimerIrqWithoutSched(c) ==
    /\ ~hung /\ current[c] # NoThread
    /\ budget' = [budget EXCEPT ![sc[current[c]]] = Tick(Tick(@))]
    /\ UNCHANGED <<queue, current, state, cpuid, affinity, sc, hung>>

\* A timer interrupt in user mode or in the idle thread: handle_timer_irq() and
\* then handle_irq() itself call sched_handle_timer_irq(), and sched() follows.
TimerIrq(c) ==
    /\ ~hung /\ current[c] # NoThread
    /\ RRSched(c, current[c], state,
               [budget EXCEPT ![sc[current[c]]] = Tick(Tick(@))])
    /\ UNCHANGED <<affinity, sc>>

\* sys_yield()
Yield(c) ==
    /\ ~hung /\ current[c] \in Threads
    /\ RRSched(c, current[c], state, [budget EXCEPT ![sc[current[c]]] = 0])
    /\ UNCHANGED <<affinity, sc>>

\* sys_exit(): the thread is TS_EXIT, so thread_deinit() releases it at once.
Exit(c) ==
    /\ ~hung /\ current[c] \in Threads
    /\ RRSched(c, NoThread, [state EXCEPT ![current[c]] = "FREE"], budget)
    /\ UNCHANGED <<affinity, sc>>

\* Mutant: thread_create() forgets sched_enqueue().
CreateThreadUnqueued(c, t, aff) ==
    /\ ~hung /\ current[c] \in Threads
    /\ state[t] = "FREE"
    /\ affinity' = [affinity EXCEPT ![t] = aff]
    /\ sc' = [sc EXCEPT ![t] = t]
    /\ state' = [state EXCEPT ![t] = "INIT"]
    /\ UNCHANGED <<queue, current, cpuid, budget, hung>>

\* sys_create_thread(): thread_create() of TYPE_USER, with sched_enqueue() under
\* BUG_ON.  init_thread_ctx() gives the thread a sched_cont_t of its own.
CreateThread(c, t, aff) ==
    /\ ~hung /\ current[c] \in Threads
    /\ state[t] = "FREE"
    /\ affinity' = [affinity EXCEPT ![t] = aff]
    /\ sc' = [sc EXCEPT ![t] = t]
    /\ budget' = [budget EXCEPT ![t] = DefaultBudget]
    /\ LET k == TargetCpu(c, aff)
       IN  IF Accepts(c, aff, "INIT")
           THEN /\ queue' = Enqueue(queue, k, t)
                /\ state' = [state EXCEPT ![t] = "READY"]
                /\ cpuid' = [cpuid EXCEPT ![t] = k]
                /\ UNCHANGED hung
           ELSE /\ state' = [state EXCEPT ![t] = "INIT"]
                /\ hung' = TRUE
                /\ UNCHANGED <<queue, cpuid>>
    /\ UNCHANGED current

\* Mutant: the thread is moved to its new CPU at once, even if it runs.
SetAffinityMoves(c, t, aff) ==
    /\ ~hung /\ current[c] \in Threads
    /\ state[t] = "RUNNING"
    /\ aff \in CPUs
    /\ affinity' = [affinity EXCEPT ![t] = aff]
    /\ queue' = Enqueue(queue, aff, t)
    /\ state' = [state EXCEPT ![t] = "READY"]
    /\ cpuid' = [cpuid EXCEPT ![t] = aff]
    /\ UNCHANGED <<current, sc, budget, hung>>

\* sys_set_affinity() on the calling thread or on one it has a capability for:
\* -EINVAL if aff >= PLAT_CPU_NUM && aff != NO_AFF, a comparison of signed ints.
SetAffinity(c, t, aff) ==
    /\ ~hung /\ current[c] \in Threads
    /\ state[t] # "FREE"
    /\ aff \in CPUs \/ aff < 0
    /\ affinity' = [affinity EXCEPT ![t] = aff]
    /\ UNCHANGED <<queue, current, state, cpuid, sc, budget, hung>>

-----------------------------------------------------------------------------
\* rr_sched_init(), then process_create_root() on CPU 0: the root thread is
\* ready and no CPU has scheduled yet.
Init == /\ queue = [c \in CPUs |-> IF c = 0 THEN <<Root>> ELSE <<>>]
        /\ current = [c \in CPUs |-> NoThread]
        /\ state = [t \in All |-> IF t = Root THEN "READY"
                                  ELSE IF t \in CPUs THEN "INIT" ELSE "FREE"]
        /\ cpuid = [t \in All |-> 0]
        /\ affinity = [t \in All |-> IF t = Root THEN 0
                                     ELSE IF t \in CPUs THEN t ELSE NoAff]
        /\ sc = [t \in All |-> t]
        /\ budget = [t \in All |-> DefaultBudget]
        /\ hung = FALSE

Running(c) == \/ TimerIrq(c) \/ Yield(c) \/ Exit(c)
              \/ \E t \in Threads : \/ \E aff \in CreateAffs : CreateThread(c, t, aff)
                                    \/ \E aff \in SetAffs : SetAffinity(c, t, aff)

Next == \E c \in CPUs : FirstSched(c) \/ Running(c)

Spec == Init /\ [][Next]_vars

\* Every CPU boots, and its timer goes on interrupting whatever it runs: user
\* mode and the idle thread run with interrupts on (SPSR of both).
FairSpec == Spec /\ \A c \in CPUs : WF_vars(FirstSched(c)) /\ WF_vars(TimerIrq(c))

-----------------------------------------------------------------------------
TypeOK == /\ queue \in [CPUs -> Seq(Threads)]
          /\ current \in [CPUs -> All \cup {NoThread}]
          /\ state \in [All -> States]
          /\ cpuid \in [All -> CPUs]
          /\ affinity \in [All -> Int]
          /\ sc \in [All -> All \cup {NoThread}]
          /\ budget \in [All -> 0..DefaultBudget]
          /\ hung \in BOOLEAN

\* The CPUs a thread is on.
OnCpus(t) == {c \in CPUs : current[c] = t}

\* A ready queue holds threads that are READY and know their queue, each once:
\* list_del() of a thread that is on two lists, or twice on one, corrupts both.
QueuesExact ==
    \A c, d \in CPUs : \A i \in 1..Len(queue[c]), j \in 1..Len(queue[d]) :
        /\ state[queue[c][i]] = "READY" /\ cpuid[queue[c][i]] = c
        /\ queue[c][i] = queue[d][j] => c = d /\ i = j

\* No thread is lost and none runs twice: a READY thread is in some queue, a
\* RUNNING one on a single CPU, and there is no third kind outside the kernel.
NoLostThread ==
    \A t \in Threads :
        \/ state[t] = "FREE"
        \/ /\ state[t] = "READY"
           /\ \E c \in CPUs : \E i \in 1..Len(queue[c]) : queue[c][i] = t
        \/ /\ state[t] = "RUNNING"
           /\ \E c \in CPUs : current[c] = t /\ cpuid[t] = c

\* A CPU runs its own idle thread or a RUNNING thread that no other CPU runs
\* (two CPUs on one thread would share its kernel stack).
CurrentExact ==
    \A c \in CPUs : \/ current[c] \in {NoThread, c}
                    \/ /\ current[c] \in Threads
                       /\ state[current[c]] = "RUNNING"
                       /\ \A d \in CPUs : current[d] = current[c] => d = c

\* The assertions on the scheduler's path hold: sched_enqueue() accepts every
\* new thread, and switch_context() finds a current thread.
NeverHangs == ~hung

\* A queued thread stays where it is or moves up by one place, or gets the CPU from the front.
FifoStep ==
    \A c \in CPUs : \A i \in 1..Len(queue[c]) :
        LET t == queue[c][i]
        IN  \/ \E j \in {i, i - 1} : j \in 1..Len(queue'[c]) /\ queue'[c][j] = t
            \/ i = 1 /\ current'[c] = t

\* Threads of one queue are dispatched in the order in which they came, by the
\* CPU whose queue it is; nothing overtakes, is skipped, or migrates while READY.
FifoDispatch == [][FifoStep]_vars

\* Where a step may put the threads, and which CPU it may leave idle.
PlacedStep ==
    \A c \in CPUs :
        /\ current'[c] = c /\ current[c] # c => queue'[c] = <<>>
        /\ \A t \in Threads :
             OnCpus(t) = {c} /\ state'[t] = "READY" =>
               cpuid'[t] = IF affinity[t] = NoAff THEN c ELSE affinity[t]

\* A CPU goes idle only when its queue is empty, and a thread is put where its
\* affinity says: on that CPU, or with NO_AFF on the CPU that put it there.
PlacedByAffinity == [][PlacedStep]_vars

\* A READY thread gets the CPU: every thread in front of it runs out of budget.
EveryReadyThreadRuns ==
    \A t \in Threads : state[t] = "READY" ~> state[t] = "RUNNING"

\* Programs that name a CPU or NO_AFF wherever they name an affinity.  This is
\* what sys_set_affinity() should enforce: it lets other negative values pass.
ArgumentsValid == /\ CreateAffs \subseteq CPUs \cup {NoAff}
                  /\ \A aff \in SetAffs : aff < 0 => aff = NoAff

\* sys_set_affinity() leaves only affinities that rr_sched_enqueue() accepts.
AffinityValid == \A t \in Threads : affinity[t] \in CPUs \cup {NoAff}

\* Every thread has a scheduling context, its own (init_thread_ctx()).
OwnContext == \A t \in All : sc[t] = t

\* The inductive invariant.
IInv == /\ TypeOK /\ AffinityValid /\ OwnContext
        /\ QueuesExact /\ NoLostThread /\ CurrentExact /\ NeverHangs
=============================================================================
