----------------------------- MODULE Capability -----------------------------
(***************************************************************************)
(* Capabilities and the life of processes: process/capability.c,           *)
(* process/process.c, and the parts of thread.c and ipc/ that create and   *)
(* drop references.  A process has a table of slots; a slot names an       *)
(* object (a process, thread, address space, memory object or connection); *)
(* an object counts the references to it and is freed with the last one.   *)
(* A kernel entry is one step, since it runs under the big kernel lock.    *)
(*                                                                         *)
(* Slot tables grow by 64 when they are full; NSlots bounds them here.     *)
(* The order of the slots on a list of copies is left out: all of them are *)
(* freed, and whichever comes last runs the deinit function.               *)
(***************************************************************************)
EXTENDS Integers, FiniteSetsExt

CONSTANTS Processes, Root,        \* process objects, and the root process
          Threads, RootThread,    \* thread objects, and the first thread
          Vmspaces, RootVmspace,  \* address spaces, and that of the root process
          Pmos, Connections,
          Null,                   \* no object
          NSlots                  \* the bound on a slot table

ASSUME CapAssumption ==
    /\ NSlots \in Nat /\ NSlots >= 3
    /\ Root \in Processes /\ RootThread \in Threads /\ RootVmspace \in Vmspaces

\* object->type
ASSUME ObjectsHaveOneType ==
    /\ Null \notin UNION {Processes, Threads, Vmspaces, Pmos, Connections}
    /\ Threads \cap UNION {Processes, Vmspaces, Pmos, Connections} = {}
    /\ Processes \cap UNION {Vmspaces, Pmos, Connections} = {}
    /\ Connections \cap UNION {Vmspaces, Pmos} = {}

SlotIds == 0..(NSlots - 1)
PROCESS_OBJ_ID == 0
VMSPACE_OBJ_ID == 1

Objects == UNION {Processes, Threads, Vmspaces, Pmos, Connections}

VARIABLES slots,      \* slots[p][i]: the object that slot i of process p names
          copies,     \* object->copies_head: the slots that are linked together
          refcount,   \* object->refcount
          mem,        \* whether the memory of an object is allocated
          exited,     \* the threads in TS_EXIT
          process,    \* thread->process; for a connection that of its shadow
          source      \* conn->source while a call is served

vars == <<slots, copies, refcount, mem, exited, process, source>>

\* What the functions of capability.c work on.
State == [slots |-> slots, copies |-> copies, refcount |-> refcount, mem |-> mem]

Becomes(s) == /\ slots' = s.slots /\ copies' = s.copies
              /\ refcount' = s.refcount /\ mem' = s.mem

Allocated(o) == mem[o] = "allocated"
-----------------------------------------------------------------------------
(* capability.c *)

\* alloc_slot_id(): the first free slot
FreeSlot(s, p) == Min({i \in SlotIds : s.slots[p][i] = Null})

HasRoom(p, n) == Cardinality({i \in SlotIds : slots[p][i] = Null}) >= n

\* install_slot() and list_add()
Install(s, p, i, o) ==
    [s EXCEPT !.slots[p][i] = o, !.copies[o] = @ \cup {<<p, i>>}]

ObjAlloc(s, o) == [s EXCEPT !.mem[o] = "allocated", !.refcount[o] = 0]

CapAlloc(s, p, o) == [Install(s, p, FreeSlot(s, p), o) EXCEPT !.refcount[o] = 1]

\* Mutant: the copy is not counted.
CapCopyUncounted(s, p, i, q) ==
    IF s.slots[p][i] = Null THEN s ELSE Install(s, q, FreeSlot(s, q), s.slots[p][i])

\* cap_copy(): nothing happens if the source slot is empty
CapCopy(s, p, i, q) ==
    IF s.slots[p][i] = Null THEN s
    ELSE [Install(s, q, FreeSlot(s, q), s.slots[p][i])
              EXCEPT !.refcount[s.slots[p][i]] = @ + 1]

ObjGet(s, o) == [s EXCEPT !.refcount[o] = @ + 1]

\* Mutant: an object is freed when one reference is left.
ObjPutEarly(s, o) ==
    [s EXCEPT !.refcount[o] = @ - 1,
              !.mem[o] = IF s.refcount[o] <= 2 THEN "freed" ELSE @]

\* obj_put(): kfree() with the last reference, without the deinit function
ObjPut(s, o) ==
    [s EXCEPT !.refcount[o] = @ - 1,
              !.mem[o] = IF s.refcount[o] = 1 THEN "freed" ELSE @]

\* cap_free() up to the deinit function, which only threads have: ObjFree adds
\* it for a thread that exits, and ThreadsKeepTheirProcess says that no
\* other thread loses its last slot.
CapFree(s, p, i) ==
    LET o == s.slots[p][i] IN
    ObjPut([s EXCEPT !.slots[p][i] = Null, !.copies[o] = @ \ {<<p, i>>}], o)

\* Of several slots, given by process and number: the loop of obj_free(), and that
\* of process_exit() over one table.
CapFreeAll(s, cs) == FoldSet(LAMBDA c, t : CapFree(t, c[1], c[2]), s, cs)

\* process_exit(): all slots are freed under a reference to the process.  Slot 0
\* is empty if the process has exited before.
ProcessExit(s, p) ==
    LET held == ObjGet(s, p)
        used == {i \in SlotIds : s.slots[p][i] # Null}
    IN  IF s.slots[p][PROCESS_OBJ_ID] # p THEN s
        ELSE ObjPut(CapFreeAll(held, {p} \X used), p)

\* process->thread_list
ThreadList(p) == {t \in Threads : process[t] = p /\ Allocated(t)}

\* Mutant: the exit of any thread ends its process.
ObjFreeEndsProcess(s, t) ==
    ProcessExit(CapFreeAll(s, s.copies[t]), process[t])

\* obj_free() of a thread: every slot that names it, and with the last one
\* thread_deinit(), which ends the process of its last thread
ObjFree(s, t) ==
    LET unnamed == CapFreeAll(s, s.copies[t])
    IN  IF ThreadList(process[t]) = {t} THEN ProcessExit(unnamed, process[t])
        ELSE unnamed
-----------------------------------------------------------------------------
(* Who runs: threads, and the shadow threads of connections *)

Agents == Threads \cup Connections

Waiting(a) == \E c \in Connections : source[c] = a

Runs(a) == /\ ~Waiting(a)
           /\ IF a \in Threads THEN Allocated(a) ELSE source[a] # Null

\* Some thread or shadow of p makes a system call (current_process = p).
Current(p) == \E a \in Agents : Runs(a) /\ process[a] = p

\* A process that has exited has given up the capability to itself.
NotExited(p) == slots[p][PROCESS_OBJ_ID] = p
-----------------------------------------------------------------------------
(* System calls *)

\* sys_create_process(): the new process is named by its creator and by itself
CreateProcess(p, q, v) ==
    /\ Current(p) /\ HasRoom(p, 1)
    /\ mem[q] = "unused" /\ mem[v] = "unused"
    /\ LET made   == CapAlloc(ObjAlloc(State, q), p, q)
           itself == CapCopy(made, p, FreeSlot(State, p), q)
       IN  Becomes(CapAlloc(ObjAlloc(itself, v), q, v))
    /\ UNCHANGED <<exited, process, source>>

\* Mutant: only the creator gets the capability of the thread.
CreateThreadForCreator(p, i, t) ==
    LET q == slots[p][i] IN
    /\ Current(p) /\ q \in Processes /\ NotExited(q)
    /\ HasRoom(p, 1) /\ mem[t] = "unused"
    /\ Becomes(CapAlloc(ObjAlloc(State, t), p, t))
    /\ process' = [process EXCEPT ![t] = q]
    /\ UNCHANGED <<exited, source>>

\* sys_create_thread() in the process q that slot i names: the thread takes its
\* process and its address space from slots 0 and 1 of q, and keeps no reference
\* to them.  With an empty slot 0 the kernel would fault.
CreateThread(p, i, t) ==
    LET q == slots[p][i] IN
    /\ Current(p) /\ q \in Processes /\ NotExited(q)
    /\ mem[t] = "unused"
    /\ HasRoom(q, 1) /\ HasRoom(p, IF p = q THEN 2 ELSE 1)
    /\ Becomes(CapCopy(CapAlloc(ObjAlloc(State, t), q, t), q, FreeSlot(State, q), p))
    /\ process' = [process EXCEPT ![t] = q]
    /\ UNCHANGED <<exited, source>>

\* sys_create_pmo()
CreatePmo(p, o) ==
    /\ Current(p) /\ HasRoom(p, 1) /\ mem[o] = "unused"
    /\ Becomes(CapAlloc(ObjAlloc(State, o), p, o))
    /\ UNCHANGED <<exited, process, source>>

\* sys_cap_copy_to(); sys_transfer_caps() and sys_map_pmo() copy in the same way
CapCopyTo(p, i, j) ==
    LET q == slots[p][i] IN
    /\ Current(p) /\ q \in Processes /\ HasRoom(q, 1)
    /\ Becomes(CapCopy(State, p, j, q))
    /\ UNCHANGED <<exited, process, source>>

\* sys_cap_copy_from()
CapCopyFrom(p, i, j) ==
    LET q == slots[p][i] IN
    /\ Current(p) /\ q \in Processes /\ HasRoom(p, 1)
    /\ Becomes(CapCopy(State, q, j, p))
    /\ UNCHANGED <<exited, process, source>>

\* sys_exit()
Exit(t) ==
    /\ Runs(t)
    /\ exited' = exited \cup {t}
    /\ Becomes(ObjFree(State, t))
    /\ UNCHANGED <<process, source>>

\* sys_register_client(): a connection to the server thread that slot i names.
\* The connection is named by client and server; its shadow thread runs in the
\* process of the server and holds no reference.
RegisterClient(p, i, c) ==
    LET server == slots[p][i] IN
    /\ Current(p) /\ server \in Threads
    /\ mem[c] = "unused"
    /\ HasRoom(process[server], 1) /\ HasRoom(p, IF p = process[server] THEN 2 ELSE 1)
    /\ Becomes(CapCopy(CapAlloc(ObjAlloc(State, c), p, c),
                       p, FreeSlot(State, p), process[server]))
    /\ process' = [process EXCEPT ![c] = process[server]]
    /\ UNCHANGED <<exited, source>>

\* ipc_send_cap(): the slots js of process p are copied to process q.
CapCopyAll(s, p, js, q) == FoldSet(LAMBDA j, t : CapCopy(t, p, j, q), s, js)

\* sys_ipc_call() with the capabilities of the slots js in the message.  The
\* reference to the connection is dropped before the callback runs.
IpcCall(a, i, js) ==
    LET p == process[a]
        c == slots[p][i]
    IN
    /\ Runs(a) /\ c \in Connections
    /\ source[c] = Null
    /\ HasRoom(process[c], Cardinality(js))
    /\ Becomes(CapCopyAll(State, p, js, process[c]))
    /\ source' = [source EXCEPT ![c] = a]
    /\ UNCHANGED <<exited, process>>

\* sys_ipc_return()
IpcReturn(c) ==
    /\ Runs(c)
    /\ source' = [source EXCEPT ![c] = Null]
    /\ UNCHANGED <<slots, copies, refcount, mem, exited, process>>
-----------------------------------------------------------------------------
\* process_create_root(): slot 0 names the process, 1 its address space, 2 its
\* thread.  The memory objects of its program are left out.
RootSlots == [i \in SlotIds |-> CASE i = PROCESS_OBJ_ID -> Root
                                  [] i = VMSPACE_OBJ_ID -> RootVmspace
                                  [] i = 2 -> RootThread
                                  [] OTHER -> Null]

RootObjects == {Root, RootVmspace, RootThread}

Init ==
    /\ slots = [p \in Processes |-> IF p = Root THEN RootSlots ELSE [i \in SlotIds |-> Null]]
    /\ copies = [o \in Objects |-> {Root} \X {i \in SlotIds : RootSlots[i] = o}]
    /\ refcount = [o \in Objects |-> IF o \in RootObjects THEN 1 ELSE 0]
    /\ mem = [o \in Objects |-> IF o \in RootObjects THEN "allocated" ELSE "unused"]
    /\ exited = {}
    /\ process = [a \in Agents |-> IF a = RootThread THEN Root ELSE Null]
    /\ source = [c \in Connections |-> Null]

\* What the programs of user/ keep to (ipc_data.c and ipc_data_server.c): a
\* server goes on until its clients have told it to exit, and they do not call
\* it afterwards.
ServesNobody(t) ==
    ThreadList(process[t]) = {t} =>
        \A c \in Connections : process[c] = process[t] => source[c] = Null

\* A bound: programs do not copy to a process what it has already.
Lacks(q, o) == \A i \in SlotIds : slots[q][i] # o

Create ==
    \E p \in Processes, i \in SlotIds :
        \/ \E q \in Processes, v \in Vmspaces : i = PROCESS_OBJ_ID /\ CreateProcess(p, q, v)
        \/ \E t \in Threads : CreateThread(p, i, t)
        \/ \E o \in Pmos : i = PROCESS_OBJ_ID /\ CreatePmo(p, o)
        \/ \E c \in Connections : RegisterClient(p, i, c)

Ipc ==
    \/ \E a \in Agents, i \in SlotIds, js \in {{}} \cup {{j} : j \in SlotIds} :
          /\ process[a] # Null /\ slots[process[a]][i] \in Connections
          /\ NotExited(process[slots[process[a]][i]])
          /\ \A j \in js : Lacks(process[slots[process[a]][i]], slots[process[a]][j])
          /\ IpcCall(a, i, js)
    \/ \E c \in Connections : IpcReturn(c)

CopyToAny ==
    \E p \in Processes, i, j \in SlotIds :
        slots[p][i] \in Processes /\ Lacks(slots[p][i], slots[p][j]) /\ CapCopyTo(p, i, j)

CopyToUsed ==
    \E p \in Processes, i, j \in SlotIds :
        /\ slots[p][i] \in Processes /\ NotExited(slots[p][i])
        /\ Lacks(slots[p][i], slots[p][j])
        /\ CapCopyTo(p, i, j)

CopyFrom ==
    \E p \in Processes, i, j \in SlotIds :
        slots[p][i] \in Processes /\ Lacks(p, slots[slots[p][i]][j]) /\ CapCopyFrom(p, i, j)

Exits == \E t \in Threads : ServesNobody(t) /\ Exit(t)

Next == Create \/ Ipc \/ CopyToUsed \/ CopyFrom \/ Exits

Spec == Init /\ [][Next]_vars

\* Programs may also copy into the table of a process that has exited.
NextAnyTarget == Create \/ Ipc \/ CopyToAny \/ CopyFrom \/ Exits

SpecAnyTarget == Init /\ [][NextAnyTarget]_vars
-----------------------------------------------------------------------------
(* Properties *)

Naming(o) == {c \in Processes \X SlotIds : slots[c[1]][c[2]] = o}

\* Between kernel entries the count of an object is the number of slots that name
\* it, and those are the slots that its list of copies links: obj_get() and
\* obj_put() are paired on every path, nested frees lose no slot, and an object is
\* freed exactly when the last of them goes.
RefcountExact ==
    \A o \in Objects : /\ copies[o] = Naming(o) /\ refcount[o] = Cardinality(Naming(o))
                       /\ Allocated(o) <=> refcount[o] > 0

\* The table of a process that is freed is empty: process_exit() has released
\* all capabilities before the last reference to the process is put.
ReleasesAllCaps ==
    \A p \in Processes : mem[p] = "freed" => \A i \in SlotIds : slots[p][i] = Null

\* A thread keeps pointers to its process and its address space without a
\* reference to them (thread.c:33-36).  They stay, because as long as it lives
\* its process has the capabilities to itself, to its address space and to the
\* thread; for the same reason a thread only ends by its own sys_exit(), and
\* thread_deinit() never meets a thread that runs or is queued.
ThreadsKeepTheirProcess ==
    \A t \in Threads :
        /\ Allocated(t) =>
             /\ NotExited(process[t]) /\ slots[process[t]][VMSPACE_OBJ_ID] \in Vmspaces
             /\ t \in {slots[process[t]][i] : i \in SlotIds}
        /\ mem[t] = "freed" <=> t \in exited

\* While a call is served, the connection, the caller, and the process and the
\* address space that the shadow thread runs in are all allocated, although the
\* kernel dropped its reference to the connection before the callback started.
CallsStayValid ==
    \A c \in Connections : source[c] # Null =>
        /\ Allocated(c) /\ NotExited(process[c])
        /\ slots[process[c]][VMSPACE_OBJ_ID] \in Vmspaces
        /\ source[c] \in Threads => Allocated(source[c])
=============================================================================
