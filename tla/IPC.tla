-------------------------------- MODULE IPC ---------------------------------
(***************************************************************************)
(* Synchronous IPC by thread migration: ipc/ipc_client.c, ipc_call.c and   *)
(* ipc_return.c on top of the scheduler.  A connection has a shadow thread *)
(* of the server; a call suspends the caller and puts the shadow on the    *)
(* CPU with the caller's scheduling context, a return does the reverse.    *)
(* Neither goes through the ready queues.                                  *)
(*                                                                         *)
(* There is one shadow thread per connection, so it stands for both.       *)
(***************************************************************************)
EXTENDS Scheduler, FiniteSets

CONSTANT Shadows         \* the threads create_server_thread() can return

ASSUME ShadowAssumption == Shadows \subseteq Threads \ {Root}

VARIABLES client,   \* the thread whose register_client made the connection
          source,   \* conn->source
          active    \* whether the shadow's active_conn is the connection

ipc == <<client, source, active>>
ipcVars == <<vars, ipc>>

IpcInit == /\ Init
           /\ client = [s \in Shadows |-> NoThread]
           /\ source = [s \in Shadows |-> NoThread]
           /\ active = [s \in Shadows |-> FALSE]

-----------------------------------------------------------------------------
\* sys_register_client(): create_connection() with create_server_thread().  The
\* shadow has no affinity, no scheduling context of its own, and is not enqueued.
RegisterClient(c, s) ==
    /\ ~hung /\ current[c] \in Threads
    /\ state[s] = "FREE"
    /\ state' = [state EXCEPT ![s] = "INIT"]
    /\ affinity' = [affinity EXCEPT ![s] = NoAff]
    /\ sc' = [sc EXCEPT ![s] = NoThread]
    /\ client' = [client EXCEPT ![s] = current[c]]
    /\ UNCHANGED <<queue, current, cpuid, budget, hung, source, active>>

\* switch_to_thread() on CPU c when the states are st: BUG_ON(TS_READY)
SwitchTo(c, target, st) ==
    IF st[target] = "READY"
    THEN /\ state' = st /\ hung' = TRUE
         /\ UNCHANGED <<current, cpuid>>
    ELSE /\ state' = [st EXCEPT ![target] = "RUNNING"]
         /\ cpuid' = [cpuid EXCEPT ![target] = c]
         /\ current' = [current EXCEPT ![c] = target]
         /\ UNCHANGED hung

\* Mutant: the caller stays TS_RUNNING.
CallKeepsState(c, s) ==
    /\ ~hung /\ current[c] \in Threads
    /\ client[s] # NoThread
    /\ source' = [source EXCEPT ![s] = current[c]]
    /\ active' = [active EXCEPT ![s] = TRUE]
    /\ sc' = [sc EXCEPT ![s] = sc[current[c]]]
    /\ SwitchTo(c, s, state)
    /\ UNCHANGED <<queue, affinity, budget, client>>

\* Mutant: the shadow is given a scheduling context of its own.
CallWithOwnContext(c, s) ==
    /\ ~hung /\ current[c] \in Threads
    /\ client[s] # NoThread
    /\ source' = [source EXCEPT ![s] = current[c]]
    /\ active' = [active EXCEPT ![s] = TRUE]
    /\ sc' = [sc EXCEPT ![s] = s]
    /\ SwitchTo(c, s, [state EXCEPT ![current[c]] = "WAITING"])
    /\ UNCHANGED <<queue, affinity, budget, client>>

\* Mutant: the caller is enqueued as a preempted thread would be.
CallEnqueuesCaller(c, s) ==
    /\ ~hung /\ current[c] \in Threads
    /\ client[s] # NoThread
    /\ source' = [source EXCEPT ![s] = current[c]]
    /\ active' = [active EXCEPT ![s] = TRUE]
    /\ sc' = [sc EXCEPT ![s] = sc[current[c]]]
    /\ queue' = Enqueue(queue, c, current[c])
    /\ SwitchTo(c, s, [state EXCEPT ![current[c]] = "READY"])
    /\ UNCHANGED <<affinity, budget, client>>

\* sys_ipc_call(), sys_ipc_reg_call(): thread_migrate_to_server().  Nothing asks
\* whether the shadow is serving another call.
Call(c, s) ==
    /\ ~hung /\ current[c] \in Threads
    /\ client[s] # NoThread
    /\ source' = [source EXCEPT ![s] = current[c]]
    /\ active' = [active EXCEPT ![s] = TRUE]
    /\ sc' = [sc EXCEPT ![s] = sc[current[c]]]
    /\ SwitchTo(c, s, [state EXCEPT ![current[c]] = "WAITING"])
    /\ UNCHANGED <<queue, affinity, budget, client>>

\* Mutant: thread_migrate_to_client() forgets switch_to_thread().
ReturnWithoutSwitch(c) ==
    /\ ~hung /\ current[c] \in Shadows
    /\ active[current[c]]
    /\ active' = [active EXCEPT ![current[c]] = FALSE]
    /\ UNCHANGED <<vars, client, source>>

\* sys_ipc_return(): thread_migrate_to_client().  Without an active connection it
\* only warns.
Return(c) ==
    /\ ~hung /\ current[c] \in Shadows
    /\ active[current[c]]
    /\ active' = [active EXCEPT ![current[c]] = FALSE]
    /\ SwitchTo(c, source[current[c]], state)
    /\ UNCHANGED <<queue, affinity, sc, budget, client, source>>

-----------------------------------------------------------------------------
\* What the scheduler and the other system calls do.  sys_create_thread() does
\* not return a shadow, nobody has a capability for one, and a callback ends in
\* ipc_return and not in sys_exit().
Sched(c) ==
    /\ \/ FirstSched(c) \/ TimerIrq(c) \/ Yield(c)
       \/ current[c] \notin Shadows /\ Exit(c)
       \/ \E t \in Threads \ Shadows :
            \/ \E aff \in CreateAffs : CreateThread(c, t, aff)
            \/ \E aff \in SetAffs : SetAffinity(c, t, aff)
    /\ UNCHANGED ipc

\* The user library gives a connection to one thread (struct ipc_struct): the one
\* that registered calls, and it cannot call again before its call has returned.
IpcNext == \E c \in CPUs :
    \/ Sched(c) \/ Return(c)
    \/ \E s \in Shadows : \/ RegisterClient(c, s)
                          \/ client[s] = current[c] /\ Call(c, s)

\* A callback, as often as it is given the CPU, gets to its ipc_return.
CallbacksEnd == \A s \in Shadows : SF_ipcVars(\E c \in CPUs : current[c] = s /\ Return(c))

IpcSpec == IpcInit /\ [][IpcNext]_ipcVars

IpcFairSpec ==
    /\ IpcSpec
    /\ \A c \in CPUs : /\ WF_ipcVars(FirstSched(c) /\ UNCHANGED ipc)
                       /\ WF_ipcVars(TimerIrq(c) /\ UNCHANGED ipc)
    /\ CallbacksEnd

\* The capability of a connection belongs to the process, so that any of its
\* threads can call.
SharedNext ==
    IpcNext \/ \E c \in CPUs, s \in Shadows : current[c] \notin Shadows /\ Call(c, s)

SharedSpec == IpcInit /\ [][SharedNext]_ipcVars

-----------------------------------------------------------------------------
\* The positions of a thread in the ready queues.
QueuedAt(t) == UNION {{<<c, i>> : i \in {j \in 1..Len(queue[c]) : queue[c][j] = t}}
                      : c \in CPUs}

\* The threads that hold or await a CPU, and the shadows between two calls.
Runnable(t) == OnCpus(t) # {} \/ QueuedAt(t) # {}
Parked(s)   == s \in Shadows /\ ~active[s] /\ ~Runnable(s)

\* The state of every thread says where it is: once in a queue, on one CPU,
\* parked, or waiting for exactly one active connection that will resume it.
EveryThreadAccounted ==
    \A t \in Threads :
        CASE state[t] = "FREE"    -> ~Runnable(t)
          [] state[t] = "READY"   -> Cardinality(QueuedAt(t)) = 1 /\ OnCpus(t) = {}
          [] state[t] = "RUNNING" -> Parked(t) \/ (/\ Cardinality(OnCpus(t)) = 1
                                                   /\ QueuedAt(t) = {})
          [] state[t] = "INIT"    -> Parked(t)
          [] state[t] = "WAITING" -> /\ ~Runnable(t)
                                     /\ Cardinality({s \in Shadows :
                                            active[s] /\ source[s] = t}) = 1
          [] OTHER                -> FALSE

\* A scheduling context belongs to the thread it was made for and travels along
\* its chain of calls: of all the threads that have it, exactly one is runnable.
\* So a chain never loses its end, and no two CPUs charge the same budget.
OneRunnerPerContext ==
    \A t \in Threads :
        state[t] # "FREE" /\ ~Parked(t) =>
          Cardinality({u \in Threads : Runnable(u) /\ sc[u] = sc[t]}) = 1

\* A caller is resumed, through preemptions of the callback and nested calls.
EveryCallReturns == \A t \in Threads : state[t] = "WAITING" ~> state[t] = "RUNNING"
=============================================================================
