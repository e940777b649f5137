----------------------------- MODULE Connections -----------------------------
(***************************************************************************)
(* What a message meets on its way from a client to a server: the areas    *)
(* that kernel/ipc/ipc_server.c and ipc_client.c lay out for each          *)
(* connection, the message that user/lib/ipc.c builds in the shared        *)
(* buffer, and the capabilities that ipc_call.c puts in it for the server. *)
(* The migration of the threads is the subject of IPC.                     *)
(*                                                                         *)
(* Process 0 is the server; its handler adds up the data of a message, as  *)
(* user/lab4/ipc_data_server.c does, or returns a register argument, as    *)
(* ipc_reg_server.c.  A client is a process with one thread, which         *)
(* registers once: user/lib/ipc.c has one address for its buffer.  A cell  *)
(* of memory holds a number.                                               *)
(***************************************************************************)
EXTENDS Objects, FiniteSets

CONSTANTS
    Clients,                            \* processes: positive numbers
    MaxClient, IPC_MAX_CONN_PER_SERVER,
    StackBase, StackSize,               \* SERVER_STACK_BASE and _SIZE
    ServerBuf, ServerBufSize,           \* SERVER_BUF_BASE and _SIZE
    ClientBuf, ClientBufSize,           \* CLIENT_BUF_BASE and _SIZE
    MAX_CAP_TRANSFER,
    Sends, MaxCalls                     \* what a client calls with, and how often

\* The clients' threads are as many as the server has registered for, MAX_CLIENT in
\* user/lib/ipc.c: nothing checks it.
ASSUME ClientsAssumption ==
    /\ IsFiniteSet(Clients) /\ Clients \subseteq Nat \ {0}
    /\ MaxClient \in Nat /\ Cardinality(Clients) <= MaxClient
    /\ Nobody \notin [max_client : {MaxClient}, conn_bmp : SUBSET Nat]

\* The areas are whole pages, and the server's stacks end below its buffers.
ASSUME AreasAssumption ==
    /\ PageSize \in Nat \ {0} /\ {StackBase, ServerBuf, ClientBuf} \subseteq Nat
    /\ \A size \in {StackSize, ServerBufSize, ClientBufSize} :
          size \in Nat \ {0} /\ ROUND_UP(size) = size
    /\ StackBase + MaxClient * StackSize <= ServerBuf

VARIABLES k,        \* memory objects, capabilities and regions
          config,   \* server_ipc_config of the server's thread
          conns,    \* the connections
          at        \* where the main() of each client is

vars == <<k, config, conns, at>>

Server == 0
Procs == {Server} \cup Clients

Least(S) == CHOOSE x \in S : \A y \in S : x <= y
At(c, pc) == at' = [at EXCEPT ![c].pc = pc]

\* register_server().  The areas are aligned, and in the user's half of the addresses.
RegisterServer ==
    /\ config = Nobody
    /\ MaxClient <= IPC_MAX_CONN_PER_SERVER
    /\ config' = [max_client |-> MaxClient, conn_bmp |-> {}]
    /\ UNCHANGED <<k, conns, at>>

-----------------------------------------------------------------------------
(* Connections *)

\* find_next_zero_bit(): the size of the bitmap if there is none.
conn_idx == Least(((0..(config.max_client - 1)) \ config.conn_bmp) \cup {config.max_client})

BufSize == Least({ServerBufSize, ClientBufSize})

\* The record of the connection that client c gets.
NewConnection(c) ==
    [client |-> c, stack |-> Len(k.pmos) + 1, buf |-> Len(k.pmos) + 2,
     server_stack_top |-> StackBase + (conn_idx + 1) * StackSize,
     client_user_addr |-> ClientBuf,
     server_user_addr |-> ServerBuf + conn_idx * ServerBufSize,
     server_conn_cap |-> Len(k.caps[Server])]

\* Stack and buffer are made and mapped: the buffer in both processes.
MapConnection(conn) ==
    LET stack == MapIgnored(NewPmo(k, StackSize), Server, conn.server_stack_top - StackSize,
                            VMR_RW, conn.stack)
        mine  == MapIgnored(NewPmo(stack, BufSize), conn.client, conn.client_user_addr,
                            VMR_RW, conn.buf)
    IN  MapIgnored(mine, Server, conn.server_user_addr, VMR_RW, conn.buf)

\* Mutant: set_bit() is forgotten.
RegisterClientUnmarked(c) ==
    /\ at[c].pc = "start" /\ config # Nobody
    /\ LET conn   == NewConnection(c)
           capped == WithCap(MapConnection(conn), c, "connection", Len(conns) + 1)
       IN  /\ k' = CapCopy(capped[1], c, Server, capped[2])[1]
           /\ conns' = Append(conns, conn)
           /\ at' = [at EXCEPT ![c].pc = "ready", ![c].conn_cap = capped[2]]
    /\ UNCHANGED config

\* ipc_register_client(), and create_connection() of the kernel.  Clients wait until the
\* server tells them that it has registered; the kernel does not check.
RegisterClient(c) ==
    /\ at[c].pc = "start" /\ config # Nobody
    /\ LET conn   == NewConnection(c)
           capped == WithCap(MapConnection(conn), c, "connection", Len(conns) + 1)
       IN  /\ k' = CapCopy(capped[1], c, Server, capped[2])[1]
           /\ conns' = Append(conns, conn)
           /\ at' = [at EXCEPT ![c].pc = "ready", ![c].conn_cap = capped[2]]
    /\ config' = [config EXCEPT !.conn_bmp = @ \cup {conn_idx}]

-----------------------------------------------------------------------------
(* Messages *)

\* struct ipc_msg: where its fields are
ServerConnCap == 0
DataLen == 1
CapSlotNumber == 2
DataOffset == 3
CapSlotsOffset == 4
Header == 5

\* Messages fit into the buffer: ipc_create_msg() does not look at its size.
ASSUME MessagesAssumption ==
    /\ MAX_CAP_TRANSFER \in Nat
    /\ \A send \in Sends :
          /\ send.data \in Seq(Int) /\ send.caps \in Seq({"page", "unset"})
          /\ Header + Len(send.data) + Len(send.caps) <= BufSize

Field(p, msg, field) == Load(k, p, msg + field)
DataAt(p, msg, i) == Load(k, p, msg + Field(p, msg, DataOffset) + i - 1)
SlotAt(p, msg, i) == Load(k, p, msg + Field(p, msg, CapSlotsOffset) + i - 1)
Times(n, value) == [i \in 1..n |-> value]

\* A client has a page to send: ipc_mem.c makes and writes it before it calls.
page(c) == at[c].page

\* ipc_create_msg() for a call with send.data and as many capabilities as send.caps.
CreateMsg(c, send) ==
    /\ at[c].pc = "ready" /\ at[c].calls < MaxCalls
    /\ LET d == Len(send.data)
           n == Len(send.caps)
       IN  k' = Store(k, c, ClientBuf + DataLen,
                      <<d, n, Header, Header + d>> \o Times(d, 0) \o Times(n, -1))
    /\ at' = [at EXCEPT ![c].pc = "created", ![c].send = send, ![c].calls = @ + 1]
    /\ UNCHANGED <<config, conns>>

\* ipc_set_msg_data() at offset 0
SetMsgData(kk, c, data) ==
    IF Len(data) > Field(c, ClientBuf, DataLen) THEN kk
    ELSE Store(kk, c, ClientBuf + Field(c, ClientBuf, DataOffset), data)

\* ipc_set_msg_data() and ipc_set_msg_cap(), for the slots that the client sets
FillMsg(c) ==
    /\ at[c].pc = "created"
    /\ LET send == at[c].send
           slots == [i \in DOMAIN send.caps |-> IF send.caps[i] = "page" THEN page(c) ELSE -1]
       IN  k' = Store(SetMsgData(k, c, send.data), c,
                      ClientBuf + Field(c, ClientBuf, CapSlotsOffset), slots)
    /\ At(c, "filled")
    /\ UNCHANGED <<config, conns>>

\* Mutant: the server is told the client's numbers.
SendCapsUntranslated(kk, c, caps) ==
    <<TransferCapsTo(kk, c, Server, caps)[1], caps>>

\* ipc_send_cap(): the numbers of the copies.  An error of cap_copy() is taken for one,
\* since the variable for it is unsigned (ipc_call.c:79).
SendCaps(kk, c, caps) == TransferCapsTo(kk, c, Server, caps)

\* sys_ipc_call(), until the server's handler starts.
Call(c) ==
    /\ at[c].pc = "filled"
    /\ LET conn == Obj(k, c, at[c].conn_cap, "connection")
           n    == Field(c, ClientBuf, CapSlotNumber)
           told == Store(k, c, ClientBuf + ServerConnCap, <<conns[conn].server_conn_cap>>)
           sent == SendCaps(told, c, [i \in 1..n |-> SlotAt(c, ClientBuf, i)])
       IN  \/ /\ n >= MAX_CAP_TRANSFER
              /\ k' = told
              /\ at' = [at EXCEPT ![c].pc = "back", ![c].ret = EINVAL]
           \/ /\ n < MAX_CAP_TRANSFER
              /\ k' = Store(sent[1], c, ClientBuf + Field(c, ClientBuf, CapSlotsOffset), sent[2])
              /\ at' = [at EXCEPT ![c].pc = "served", ![c].arg = conns[conn].server_user_addr]
    /\ UNCHANGED <<config, conns>>

\* sys_ipc_reg_call(): the argument is no message.
RegCall(c, arg) ==
    /\ at[c].pc = "ready" /\ at[c].calls < MaxCalls
    /\ Obj(k, c, at[c].conn_cap, "connection") # Nobody
    /\ at' = [at EXCEPT ![c].pc = "echoed", ![c].arg = arg, ![c].calls = @ + 1]
    /\ UNCHANGED <<k, config, conns>>

\* The handlers, up to sys_ipc_return().
Handle(c) ==
    /\ at[c].pc = "served"
    /\ LET msg == at[c].arg
           sum[i \in 0..Field(Server, msg, DataLen)] ==
               IF i = 0 THEN 0 ELSE sum[i - 1] + DataAt(Server, msg, i)
       IN  at' = [at EXCEPT ![c].pc = "back", ![c].ret = sum[Field(Server, msg, DataLen)]]
    /\ UNCHANGED <<k, config, conns>>

Echo(c) ==
    /\ at[c].pc = "echoed"
    /\ at' = [at EXCEPT ![c].pc = "ready", ![c].ret = at[c].arg]
    /\ UNCHANGED <<k, config, conns>>

Return(c) ==
    /\ at[c].pc = "back"
    /\ At(c, "ready")
    /\ UNCHANGED <<k, config, conns>>

-----------------------------------------------------------------------------
\* What launching leaves: each process has itself and its space; a client has the
\* server's thread, and a page of its own.
PageOf(c) == Cardinality({d \in Clients : d <= c})
Init ==
    /\ k = [pmos |-> [i \in 1..Cardinality(Clients) |-> Times(PageSize, 0)],
            caps |-> [p \in Procs |->
                <<[type |-> "process", id |-> p], [type |-> "vmspace", id |-> p]>>
                \o IF p = Server THEN <<>>
                   ELSE <<[type |-> "thread", id |-> Server], [type |-> "pmo", id |-> PageOf(p)]>>],
            maps |-> [p \in Procs |-> {}]]
    /\ config = Nobody
    /\ conns = <<>>
    /\ at = [c \in Clients |-> [pc |-> "start", conn_cap |-> -1, page |-> 3, calls |-> 0,
                                send |-> Nobody, arg |-> -1, ret |-> 0]]

Next == \/ RegisterServer
        \/ \E c \in Clients : \/ RegisterClient(c) \/ FillMsg(c) \/ Call(c)
                              \/ Handle(c) \/ Echo(c) \/ Return(c)
                              \/ \E send \in Sends : CreateMsg(c, send)
                              \/ RegCall(c, c)

Spec == Init /\ [][Next]_vars

-----------------------------------------------------------------------------
(* What a connection promises *)

\* The object mapped at an address of a process.
Mapped(p, addr) == {vmr.pmo : vmr \in RegionsAt(k, p, addr)}

\* Both ends of a connection are the same memory, which no other connection has, and the
\* shadow thread has a stack of its own below its stack pointer.  The server's addresses
\* are computed from a bitmap, and nobody looks at whether the mapping succeeds.
EndpointsAgree ==
    \A i \in DOMAIN conns :
        LET conn == conns[i]
        IN  /\ \A cell \in 0..(BufSize - 1) :
                  /\ Mapped(conn.client, conn.client_user_addr + cell) = {conn.buf}
                  /\ Mapped(Server, conn.server_user_addr + cell) = {conn.buf}
            /\ \A below \in 1..StackSize :
                  Mapped(Server, conn.server_stack_top - below) = {conn.stack}

\* When the handler runs, the message at its argument is the one its client built, not
\* the rest of an earlier call or another client's, its capabilities are the server's
\* names of what the client meant, and a slot that the client left empty names nothing.
\* When the client is back, it has the sum of what it sent, or that it sent too many
\* capabilities.
AsBuilt(send, msg) ==
    /\ Field(Server, msg, DataLen) = Len(send.data)
    /\ Field(Server, msg, CapSlotNumber) = Len(send.caps)
    /\ \A i \in DOMAIN send.data : DataAt(Server, msg, i) = send.data[i]
NamesTranslated(c, caps, msg) ==
    /\ \A i \in DOMAIN caps : Obj(k, Server, SlotAt(Server, msg, i), "pmo")
                                  = IF caps[i] = "page" THEN PageOf(c) ELSE Nobody
    /\ Obj(k, Server, Field(Server, msg, ServerConnCap), "connection")
           = Obj(k, c, at[c].conn_cap, "connection")
Answer(send) ==
    LET sum[i \in 0..Len(send.data)] == IF i = 0 THEN 0 ELSE sum[i - 1] + send.data[i]
    IN  IF Len(send.caps) >= MAX_CAP_TRANSFER THEN EINVAL ELSE sum[Len(send.data)]
MessageArrives ==
    \A c \in Clients :
        /\ at[c].pc = "served" =>
               AsBuilt(at[c].send, at[c].arg) /\ NamesTranslated(c, at[c].send.caps, at[c].arg)
        /\ at[c].pc = "back" => at[c].ret = Answer(at[c].send)
=============================================================================
