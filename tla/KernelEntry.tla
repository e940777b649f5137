---------------------------- MODULE KernelEntry -----------------------------
(***************************************************************************)
(* How CPUs come into the kernel and leave it: the boot handshake          *)
(* (boot/start.S, boot/init_c.c, common/smp.c, main.c) and the discipline  *)
(* of the big kernel lock around every system call, exception and          *)
(* interrupt (exception/exception_table.S, exception.c, irq.c).            *)
(*                                                                         *)
(* What the kernel does while it holds the lock is Sched here: it may pick *)
(* any thread (Scheduler says which).  The lock is the pair of counters of *)
(* lock.c, each operation one step; TicketLock shows that it may be.       *)
(***************************************************************************)
EXTENDS LockStruct

VARIABLES bssCleared,  \* clear_bss_flag = 0
          bootFlag,    \* secondary_boot_flag # 0
          cpuStatus,   \* cpu_status = cpu_run
          booting,     \* i of the loop of enable_smp_cores()
          ticket,      \* of big_kernel_lock: the ticket each CPU drew last
          mode,        \* where each CPU is
          current      \* the type of current_threads[c]: idle, user, or none

boot      == <<bssCleared, bootFlag, cpuStatus, booting>>
bkl       == <<owner, next, ticket>>
entryVars == <<boot, bkl, mode, current>>

\* The values of mode: "reset", "parked", "init", "enable", "starting" while booting;
\* "entering", "spinning", "kernel", "fault", "scheduled", "leaving" at EL1; "idle" at
\* EL1 with interrupts on; "user" at EL0.

\* The modes of a CPU that works on kernel data: lock_kernel() has returned and
\* unlock_kernel() has not been called.
InKernel == {"enable", "kernel", "fault", "scheduled"}

Move(c, from, to) == mode[c] = from /\ mode' = [mode EXCEPT ![c] = to]

\* secondary_boot_flag is initialised to {NOT_BSS, 0, ...}, cpu_status to
\* cpu_hang; both are in .data, which clear_bss() leaves alone.
EntryInit ==
    /\ bssCleared = FALSE
    /\ bootFlag = [c \in CPUs |-> c = 0]
    /\ cpuStatus = [c \in CPUs |-> FALSE]
    /\ booting = 0
    /\ owner = 0 /\ next = 0 /\ ticket = [c \in CPUs |-> 0]
    /\ mode = [c \in CPUs |-> "reset"]
    /\ current = [c \in CPUs |-> "none"]

-----------------------------------------------------------------------------
(* lock_kernel() and unlock_kernel() *)

LockKernel(c) ==
    /\ Move(c, "entering", "spinning")
    /\ ticket' = [ticket EXCEPT ![c] = next]
    /\ next' = Succ(next)
    /\ UNCHANGED <<owner, boot, current>>

LockAcquired(c) ==
    /\ Move(c, "spinning", "kernel")
    /\ owner = ticket[c]
    /\ UNCHANGED <<bkl, boot, current>>

-----------------------------------------------------------------------------
(* Boot *)

\* The primary CPU: init_c() up to the call of main().
ClearBss ==
    /\ Move(0, "reset", "init")
    /\ bssCleared' = TRUE
    /\ UNCHANGED <<bootFlag, cpuStatus, booting, bkl, current>>

\* Mutant: main() wakes the other CPUs without the lock.
MainLockForgotten ==
    /\ Move(0, "init", "enable")
    /\ owner' = 0 /\ next' = 0 /\ ticket' = [ticket EXCEPT ![0] = 0]
    /\ cpuStatus' = [cpuStatus EXCEPT ![0] = TRUE]
    /\ UNCHANGED <<bssCleared, bootFlag, booting, current>>

\* main(): kernel_lock_init(), lock_kernel(), and cpu_status at the head of
\* enable_smp_cores().  Nobody else can be at the lock yet.
MainLock ==
    /\ Move(0, "init", "enable")
    /\ owner' = 0 /\ next' = 1 /\ ticket' = [ticket EXCEPT ![0] = 0]
    /\ cpuStatus' = [cpuStatus EXCEPT ![0] = TRUE]
    /\ UNCHANGED <<bssCleared, bootFlag, booting, current>>

EnableCore ==
    /\ mode[0] = "enable" /\ booting < N
    /\ ~bootFlag[booting]
    /\ bootFlag' = [bootFlag EXCEPT ![booting] = TRUE]
    /\ UNCHANGED <<bssCleared, cpuStatus, booting, bkl, mode, current>>

CoreRunning ==
    /\ mode[0] = "enable" /\ booting < N
    /\ bootFlag[booting] /\ cpuStatus[booting]
    /\ booting' = booting + 1
    /\ UNCHANGED <<bssCleared, bootFlag, cpuStatus, bkl, mode, current>>

\* process_create_root() and on to sched()
CoresEnabled ==
    /\ booting = N
    /\ Move(0, "enable", "kernel")
    /\ UNCHANGED <<boot, bkl, current>>

\* The other CPUs: wait_for_bss_clear, then wait_until_smp_enabled.
WaitForBss(c) ==
    /\ c # 0 /\ bssCleared
    /\ Move(c, "reset", "parked")
    /\ UNCHANGED <<boot, bkl, current>>

WaitForSmp(c) ==
    /\ bootFlag[c]
    /\ Move(c, "parked", "starting")
    /\ UNCHANGED <<boot, bkl, current>>

\* Mutant: secondary_start() takes the lock before it reports cpu_status.
SecondaryStartLocksFirst(c) ==
    /\ Move(c, "starting", "entering")
    /\ UNCHANGED <<boot, bkl, current>>

\* Mutant: secondary_start() without lock_kernel().
SecondaryStartUnlocked(c) ==
    /\ Move(c, "starting", "kernel")
    /\ cpuStatus' = [cpuStatus EXCEPT ![c] = TRUE]
    /\ UNCHANGED <<bssCleared, bootFlag, booting, bkl, current>>

\* secondary_start(): cpu_status first, then lock_kernel()
SecondaryStart(c) ==
    /\ Move(c, "starting", "entering")
    /\ cpuStatus' = [cpuStatus EXCEPT ![c] = TRUE]
    /\ UNCHANGED <<bssCleared, bootFlag, booting, bkl, current>>

-----------------------------------------------------------------------------
(* Into the kernel *)

\* el0_syscall takes the lock in assembly, handle_entry_c() for an exception
\* and handle_irq() for an interrupt that came from user mode.
TrapFromUser(c) ==
    /\ Move(c, "user", "entering")
    /\ UNCHANGED <<boot, bkl, current>>

\* Mutant: handle_irq() takes the lock for interrupts from user mode only.
IrqFromIdleUnlocked(c) ==
    /\ Move(c, "idle", "kernel")
    /\ UNCHANGED <<boot, bkl, current>>

\* irq_el1h: the kernel runs with interrupts masked, so only an idle thread can
\* be interrupted in EL1.  handle_irq() looks at the type of current_thread.
IrqFromIdle(c) ==
    /\ \/ current[c] = "idle" /\ Move(c, "idle", "entering")
       \/ current[c] # "idle" /\ Move(c, "idle", "kernel")
    /\ UNCHANGED <<boot, bkl, current>>

(* In the kernel *)

\* sched(): some thread becomes current, and switch_context() and eret_to_thread()
\* follow.  Interrupts, sys_yield(), sys_exit() and the last step of boot do this.
Sched(c) ==
    /\ Move(c, "kernel", "scheduled")
    /\ \E t \in {"user", "idle"} : current' = [current EXCEPT ![c] = t]
    /\ UNCHANGED <<boot, bkl>>

(* Out of the kernel *)

\* Mutant: unlock_kernel() is called on the way to user mode only.
ExceptionReturnForUserOnly(c) ==
    /\ \/ Move(c, "kernel", "leaving") /\ current[c] = "user"
       \/ Move(c, "scheduled", "leaving")
    /\ owner' = IF current[c] = "user" THEN Succ(owner) ELSE owner
    /\ UNCHANGED <<next, ticket, boot, current>>

\* exception_return: bl unlock_kernel, for a system call or exception that goes
\* back to its caller and in eret_to_thread.
ExceptionReturn(c) ==
    /\ \/ Move(c, "kernel", "leaving") /\ current[c] = "user"
       \/ Move(c, "scheduled", "leaving")
    /\ owner' = Succ(owner)
    /\ UNCHANGED <<next, ticket, boot, current>>

\* exception_exit: eret to EL0, or to EL1 for an idle thread
Eret(c) ==
    /\ Move(c, "leaving", current[c])
    /\ UNCHANGED <<boot, bkl, current>>

-----------------------------------------------------------------------------
(* A data abort inside a system call: copy_from_user() or copy_to_user()   *)
(* reaches a page of the caller that is mapped lazily.                     *)

\* sync_el1h: handle_entry_c() takes no lock for an exception from the kernel
KernelFault(c) ==
    /\ current[c] = "user"   \* the CPU is in a system call of this thread
    /\ Move(c, "kernel", "fault")
    /\ UNCHANGED <<boot, bkl, current>>

\* do_page_fault() mapped the page: handle_entry ends in exception_return, which
\* unlocks and resumes the system call
KernelFaultResolved(c) ==
    /\ Move(c, "fault", "kernel")
    /\ owner' = Succ(owner)
    /\ UNCHANGED <<next, ticket, boot, current>>

\* do_page_fault() failed: sys_exit()
KernelFaultFatal(c) ==
    /\ Move(c, "fault", "kernel")
    /\ current' = [current EXCEPT ![c] = "none"]
    /\ UNCHANGED <<boot, bkl>>

-----------------------------------------------------------------------------
BootNext(c) == WaitForBss(c) \/ WaitForSmp(c) \/ SecondaryStart(c)
Primary     == ClearBss \/ MainLock \/ EnableCore \/ CoreRunning \/ CoresEnabled
Entry(c)    == LockKernel(c) \/ LockAcquired(c)
Exit(c)     == ExceptionReturn(c) \/ Eret(c)

EntryNext ==
    \/ Primary
    \/ \E c \in CPUs : \/ BootNext(c) \/ Entry(c) \/ Exit(c) \/ Sched(c)
                       \/ TrapFromUser(c) \/ IrqFromIdle(c)

NextWithFaults ==
    \/ EntryNext
    \/ \E c \in CPUs : \/ KernelFault(c) \/ KernelFaultResolved(c)
                       \/ KernelFaultFatal(c)

\* Every CPU executes its instructions, and a kernel path ends: none of them
\* loops or waits for anything but the big kernel lock.  One that has no user
\* thread to go back to ends in sched().
EntryFairness ==
    /\ WF_entryVars(Primary)
    /\ \A c \in CPUs :
          /\ WF_entryVars(BootNext(c)) /\ WF_entryVars(Entry(c)) /\ WF_entryVars(Exit(c))
          /\ WF_entryVars(current[c] # "user" /\ Sched(c))

EntrySpec == EntryInit /\ [][EntryNext]_entryVars /\ EntryFairness

SpecWithFaults == EntryInit /\ [][NextWithFaults]_entryVars /\ EntryFairness

-----------------------------------------------------------------------------
\* The big kernel lock serialises the kernel: two CPUs never work on kernel
\* data at once, whichever of the vectors they came through.
KernelExclusive == \A c, d \in CPUs :
    mode[c] \in InKernel /\ mode[d] \in InKernel => c = d

\* Every path that unlocks has locked: the CPU in the kernel is the one whose
\* ticket owner names, so the unlock_kernel() to come releases its own lock and
\* not one that some other CPU has acquired.
UnlocksItsOwnLock == \A c \in CPUs : mode[c] \in InKernel => ticket[c] = owner

\* main() takes the lock before it wakes the other CPUs: none of them is in the
\* kernel before every CPU runs and the primary has left for its first thread.
BootBeforeKernel == \A c \in CPUs \ {0} :
    mode[c] \in InKernel \cup {"leaving", "idle", "user"}
      => /\ booting = N
         /\ \A d \in CPUs : cpuStatus[d]
         /\ mode[0] \notin {"reset", "init", "enable"}

\* Every CPU gets through the handshake to its first thread: the primary waits
\* in enable_smp_cores() with the lock held, for CPUs that do not need it yet.
EveryCpuBoots == \A c \in CPUs : <>(mode[c] \in {"idle", "user"})

\* A CPU that enters the kernel gets the lock.
EveryEntryServed == \A c \in CPUs : mode[c] = "entering" ~> mode[c] = "kernel"
=============================================================================
